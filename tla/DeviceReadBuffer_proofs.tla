----------------------- MODULE DeviceReadBuffer_proofs -----------------------
(***************************************************************************)
(* Proofs about DeviceReadBuffer, for every size of the ring, of the read   *)
(* and of the counter: the ring's invariants, and that it implements the    *)
(* queue of ByteFifo.                                                       *)
(***************************************************************************)
EXTENDS DeviceReadBuffer, SequenceTheorems, TLAPS

-----------------------------------------------------------------------------
(* The inductive invariant *)

\* The fill thread's locals mean something only where it uses them.
FillState ==
  /\ running <=> fpc # "none"
  /\ readSize >= 1 <=> fpc = "read"
  /\ readLen >= 1 <=> fpc = "advance"
  /\ fpc \in {"read", "advance"} => cnt < m_devBufferCount
  /\ fpc \notin {"none", "after", "exit", "end"} => errcnt <= MaxErrors
  /\ fpc \in {"poll", "check", "for", "read", "advance", "after"} => ~m_paused
  /\ fpc = "reset" => m_paused

\* The thread that ended said so.
EndState ==
  /\ fpc = "end" => m_eof
  /\ EndAnnounced

\* What Read means to copy, and that it lies inside the ring: true even after
\* a reset.
ConsumerState ==
  /\ left >= 1 <=> cpc # "idle"
  /\ len >= 1 <=> cpc \in {"incrFirst", "incrWhole"}
  /\ ReadsInside
  /\ cpc \in {"incrFirst", "incrWhole"} => m_readPtr + len <= m_size
  /\ cpc = "incrWhole" => len = left
  /\ cpc = "incrFirst" => m_readPtr + len = m_size \/ m_readPtr = 0

\* What is left of the sequences of calls the recorders make.
Scripts ==
  { <<>>, <<"reset", "unpause", "start">>, <<"unpause", "start">>, <<"start">>,
    <<"join", "start">>, <<"pause", "stopIfRunning">>, <<"stopIfRunning">>,
    <<"pause">>, <<"join">>, <<"stop", "deleted">>, <<"join", "deleted">>,
    <<"deleted">> }

\* The calls after which MpegRecorder's thread has stopped.
Stopping ==
  { <<"pause", "stopIfRunning">>, <<"stopIfRunning">>, <<"join">>,
    <<"stop", "deleted">>, <<"join", "deleted">> }

ScriptState ==
  /\ script \in Scripts
  /\ OwnControl => script # <<"pause">>
  /\ ~OwnControl => script # <<"reset", "unpause", "start">>
  /\ script \in {<<"reset", "unpause", "start">>, <<"unpause", "start">>,
                 <<"start">>, <<"join", "start">>} => ~encoding

\* One thread reads and controls: calls are made between two Reads; the thread
\* runs only while the recorder encodes or is stopping it; a pause is requested
\* of a running thread only while it is being stopped; and a thread that finds
\* itself paused finds an empty ring.
OwnState ==
  OwnControl =>
    /\ ~torn
    /\ script # <<>> => cpc = "idle"
    /\ running => encoding \/ script \in Stopping
    /\ m_requestPause /\ running =>
         script \in {<<"stopIfRunning">>, <<"join">>}
    /\ script \in {<<"start">>, <<"join", "start">>} => ~m_requestPause
    /\ fpc = "setPaused" => m_requestPause
    /\ script = <<"unpause", "start">> => m_used = 0
    /\ m_paused /\ ~m_requestPause => m_used = 0

\* Pointers, fill level and the read(2) in progress, as long as no reset met a
\* Read; m_writePtr without the remainder.
RingState ==
  torn \/ /\ m_used + readSize <= m_size
          /\ m_used + readLen <= m_size
          /\ m_writePtr = IF m_readPtr + m_used >= m_size
                            THEN m_readPtr + m_used - m_size
                            ELSE m_readPtr + m_used
          /\ left <= m_used
          /\ cpc = "split" => m_readPtr + left > m_size
          /\ cpc = "incrFirst" => len = m_size - m_readPtr /\ len < left

\* The cell i bytes behind the read pointer.
Cell(i) == IF m_readPtr + i >= m_size THEN m_readPtr + i - m_size ELSE m_readPtr + i

\* The ring holds the last bytes the device delivered, oldest first, those of a
\* read(2) whose pointer is still to be advanced included.
Contents ==
  torn \/ /\ m_used + readLen <= device
          /\ \A i \in 0 .. (m_used + readLen - 1) :
               ring[Cell(i)] = device - (m_used + readLen) + 1 + i

IInv ==
  /\ TypeOK /\ FillState /\ EndState /\ ConsumerState
  /\ ScriptState /\ OwnState /\ RingState /\ Contents

-----------------------------------------------------------------------------
(* Lemmas *)

\* A call put before a script of one.
LEMMA PairOfTwo ==
  ASSUME NEW a, NEW b
  PROVE  <<a>> \o <<b>> = <<a, b>>
<1> DEFINE S == {a, b}
           u == <<a>> \o <<b>>
           v == <<a, b>>
<1>1. <<a>> \in Seq(S) /\ <<b>> \in Seq(S) /\ v \in Seq(S)
  OBVIOUS
<1>2. Len(<<a>>) = 1 /\ Len(<<b>>) = 1 /\ Len(v) = 2
  OBVIOUS
<1>3. u \in Seq(S) /\ Len(u) = 2 /\ u[1] = a /\ u[2] = b
  BY <1>1, <1>2, ConcatProperties
<1>4. v[1] = a /\ v[2] = b
  OBVIOUS
<1>5. \A i \in 1 .. 2 : i = 1 \/ i = 2
  OBVIOUS
<1> HIDE DEF u, v
<1>6. u = v
  BY <1>1, <1>2, <1>3, <1>4, <1>5, SeqEqual
<1>7. QED  BY <1>6 DEF u, v

\* What each call of a script leaves of it.
LEMMA ScriptSteps ==
  ASSUME script \in Scripts
  PROVE  /\ Do("reset") => /\ script = <<"reset", "unpause", "start">>
                           /\ Tail(script) = <<"unpause", "start">>
         /\ Do("unpause") => script = <<"unpause", "start">> /\ Tail(script) = <<"start">>
         /\ Do("start") => /\ script = <<"start">> /\ Tail(script) = <<>>
                           /\ <<"join">> \o script = <<"join", "start">>
         /\ Do("pause") =>
              \/ script = <<"pause", "stopIfRunning">> /\ Tail(script) = <<"stopIfRunning">>
              \/ script = <<"pause">> /\ Tail(script) = <<>>
         /\ Do("stopIfRunning") => /\ script = <<"stopIfRunning">> /\ Tail(script) = <<>>
                                   /\ <<"join">> \o Tail(script) = <<"join">>
         /\ Do("stop") => /\ script = <<"stop", "deleted">> /\ Tail(script) = <<"deleted">>
                          /\ <<"join">> \o Tail(script) = <<"join", "deleted">>
         /\ Do("join") =>
              \/ script = <<"join", "start">> /\ Tail(script) = <<"start">>
              \/ script = <<"join">> /\ Tail(script) = <<>>
              \/ script = <<"join", "deleted">> /\ Tail(script) = <<"deleted">>
<1>1. Do("reset") => script = <<"reset", "unpause", "start">>
  BY DEF Scripts, Do
<1>2. Do("unpause") => script = <<"unpause", "start">>
  BY DEF Scripts, Do
<1>3. Do("start") => script = <<"start">>
  BY DEF Scripts, Do
<1>4. Do("pause") => script = <<"pause", "stopIfRunning">> \/ script = <<"pause">>
  BY DEF Scripts, Do
<1>5. Do("stopIfRunning") => script = <<"stopIfRunning">>
  BY DEF Scripts, Do
<1>6. Do("stop") => script = <<"stop", "deleted">>
  BY DEF Scripts, Do
<1>7. Do("join") => \/ script = <<"join", "start">> \/ script = <<"join">>
                    \/ script = <<"join", "deleted">>
  BY DEF Scripts, Do
<1>8. /\ Tail(<<"reset", "unpause", "start">>) = <<"unpause", "start">>
      /\ Tail(<<"unpause", "start">>) = <<"start">>
      /\ Tail(<<"pause", "stopIfRunning">>) = <<"stopIfRunning">>
      /\ Tail(<<"stop", "deleted">>) = <<"deleted">>
      /\ Tail(<<"join", "start">>) = <<"start">>
      /\ Tail(<<"join", "deleted">>) = <<"deleted">>
      /\ \A c : Tail(<<c>>) = <<>>
  OBVIOUS
<1>9. /\ <<"join">> \o <<"start">> = <<"join", "start">>
      /\ <<"join">> \o <<"deleted">> = <<"join", "deleted">>
      /\ <<"join">> \o <<>> = <<"join">>
  BY PairOfTwo
<1>10. Do("pause") =>
         \/ script = <<"pause", "stopIfRunning">> /\ Tail(script) = <<"stopIfRunning">>
         \/ script = <<"pause">> /\ Tail(script) = <<>>
  BY <1>4, <1>8, Zenon
<1>11. Do("join") =>
         \/ script = <<"join", "start">> /\ Tail(script) = <<"start">>
         \/ script = <<"join">> /\ Tail(script) = <<>>
         \/ script = <<"join", "deleted">> /\ Tail(script) = <<"deleted">>
  BY <1>7, <1>8, Zenon
<1>12. Do("start") => /\ script = <<"start">> /\ Tail(script) = <<>>
                      /\ <<"join">> \o script = <<"join", "start">>
  BY <1>3, <1>8, <1>9, Zenon
<1>13. Do("stopIfRunning") => /\ script = <<"stopIfRunning">> /\ Tail(script) = <<>>
                              /\ <<"join">> \o Tail(script) = <<"join">>
  BY <1>5, <1>8, <1>9, Zenon
<1>14. Do("stop") => /\ script = <<"stop", "deleted">> /\ Tail(script) = <<"deleted">>
                     /\ <<"join">> \o Tail(script) = <<"join", "deleted">>
  BY <1>6, <1>8, <1>9, Zenon
<1>15. /\ Do("reset") => Tail(script) = <<"unpause", "start">>
       /\ Do("unpause") => Tail(script) = <<"start">>
  BY <1>1, <1>2, <1>8, Zenon
<1>16. QED
  BY <1>1, <1>2, <1>10, <1>11, <1>12, <1>13, <1>14, <1>15

\* The scripts are sequences of calls.
LEMMA ScriptsTyped ==
  \A s \in Scripts : s \in Seq({"reset", "pause", "unpause", "start", "stop",
                                "stopIfRunning", "join", "deleted"})
<1> DEFINE C == {"reset", "pause", "unpause", "start", "stop", "stopIfRunning",
                 "join", "deleted"}
<1>1. \A a, b, c \in C : /\ <<>> \in Seq(C) /\ <<a>> \in Seq(C)
                         /\ <<a, b>> \in Seq(C) /\ <<a, b, c>> \in Seq(C)
  <2> HIDE DEF C
  <2> QED  OBVIOUS
<1>2. QED  BY <1>1 DEF Scripts

\* m_used is a size_t: a remainder, which is the number itself when that fits.
LEMMA Widths ==
  ASSUME NEW x \in Int
  PROVE  /\ x % Width \in 0 .. (Width - 1)
         /\ 0 <= x /\ x < Width => x % Width = x
  BY SizesAssumption

\* A reset empties the ring, and tears a Read in progress.
LEMMA ResetRingDoes ==
  ASSUME ResetRing, torn \in BOOLEAN
  PROVE  /\ m_used' = 0 /\ m_readPtr' = 0 /\ m_writePtr' = 0
         /\ m_error' = FALSE /\ ring' = ring
         /\ torn' \in BOOLEAN
         /\ cpc # "idle" => torn' = TRUE
         /\ cpc = "idle" => torn' = torn
  BY Zenon DEF ResetRing

\* The head of the loop only chooses where to go: a thread that polls is not paused.
LEMMA FillTopKeeps ==
  ASSUME IInv, FillTop
  PROVE  IInv'
<1>1. ScriptState'
  BY DEF IInv, ScriptState, OwnControl, FillTop, FillFrame, ringVars, flagVars,
     consumerVars, controlVars
<1>2. TypeOK'
  BY SizesAssumption, BoundsAssumption
  DEF IInv, TypeOK, Cells, FillTop, FillFrame, ringVars, flagVars,
     consumerVars, controlVars
<1>3. FillState'
  BY SizesAssumption, BoundsAssumption
  DEF IInv, FillState, FillTop, FillFrame, ringVars, flagVars, consumerVars,
     controlVars, TypeOK
<1>4. EndState'
  BY DEF IInv, EndState, EndAnnounced, FillTop, FillFrame, ringVars, flagVars,
     consumerVars, controlVars
<1>5. ConsumerState'
  BY DEF IInv, ConsumerState, ReadsInside, FillTop, FillFrame, ringVars,
     flagVars, consumerVars, controlVars
<1>6. OwnState'
  BY DEF IInv, OwnState, OwnControl, FillTop, FillFrame, ringVars, flagVars,
     consumerVars, controlVars
<1>7. RingState'
  BY DEF IInv, RingState, FillTop, FillFrame, ringVars, flagVars, consumerVars,
     controlVars
<1>8. Contents'
  BY DEF IInv, Contents, Cell, FillTop, FillFrame, ringVars, flagVars,
     consumerVars, controlVars
<1>9. QED  BY <1>1, <1>2, <1>3, <1>4, <1>5, <1>6, <1>7, <1>8 DEF IInv

\* A pause is entered: in MpegRecorder it was requested and is still being made.
LEMMA FillSetPausedKeeps ==
  ASSUME IInv, FillSetPaused
  PROVE  IInv'
<1>1. ScriptState'
  BY DEF IInv, ScriptState, OwnControl, FillSetPaused, FillFrame, ringVars,
     flagVars, consumerVars, controlVars
<1>2. TypeOK'
  BY SizesAssumption, BoundsAssumption
  DEF IInv, TypeOK, Cells, FillSetPaused, FillFrame, ringVars, flagVars,
     consumerVars, controlVars
<1>3. FillState'
  BY SizesAssumption, BoundsAssumption
  DEF IInv, FillState, FillSetPaused, FillFrame, ringVars, flagVars,
     consumerVars, controlVars, TypeOK
<1>4. EndState'
  BY DEF IInv, EndState, EndAnnounced, FillSetPaused, FillFrame, ringVars,
     flagVars, consumerVars, controlVars
<1>5. ConsumerState'
  BY DEF IInv, ConsumerState, ReadsInside, FillSetPaused, FillFrame, ringVars,
     flagVars, consumerVars, controlVars
<1>6. OwnState'
  BY DEF IInv, OwnState, OwnControl, FillSetPaused, FillFrame, ringVars,
     flagVars, consumerVars, controlVars
<1>7. RingState'
  BY DEF IInv, RingState, FillSetPaused, FillFrame, ringVars, flagVars,
     consumerVars, controlVars
<1>8. Contents'
  BY DEF IInv, Contents, Cell, FillSetPaused, FillFrame, ringVars, flagVars,
     consumerVars, controlVars
<1>9. QED  BY <1>1, <1>2, <1>3, <1>4, <1>5, <1>6, <1>7, <1>8 DEF IInv

\* The fill thread empties the ring when it leaves a pause: no read(2) is in
\* progress, and in MpegRecorder no Read.
LEMMA FillResetKeeps ==
  ASSUME IInv, FillReset
  PROVE  IInv'
<1>1. ScriptState'
  BY DEF IInv, ScriptState, OwnControl, FillReset, FillFrame, ringVars,
     flagVars, consumerVars, controlVars, ResetRing
<1>0. /\ m_used' = 0 /\ m_readPtr' = 0 /\ m_writePtr' = 0
      /\ m_error' = FALSE /\ ring' = ring
      /\ torn' \in BOOLEAN
      /\ cpc # "idle" => torn' = TRUE
      /\ cpc = "idle" => torn' = torn
  BY ResetRingDoes DEF IInv, TypeOK, FillReset
<1>2. TypeOK'
  <2>1. /\ m_used' \in 0 .. (Width - 1)
        /\ m_readPtr' \in 0 .. (m_size - 1) /\ m_writePtr' \in 0 .. (m_size - 1)
    BY <1>0, SizesAssumption
  <2>2. torn' \in BOOLEAN /\ m_error' \in BOOLEAN /\ UNCHANGED ring
    BY <1>0
  <2>3. UNCHANGED <<m_doRun, m_eof, m_requestPause, m_paused, running, cnt, readSize,
                    readLen, errcnt, device, usage, consumerVars, controlVars>>
        /\ fpc' = "unpause"
    BY DEF FillReset, FillFrame
  <2>4. QED
    BY <2>1, <2>2, <2>3 DEF IInv, TypeOK, Cells, consumerVars, controlVars
<1>3. FillState'
  BY SizesAssumption, BoundsAssumption
  DEF IInv, FillState, FillReset, FillFrame, ringVars, flagVars, consumerVars,
     controlVars, ResetRing, TypeOK
<1>4. EndState'
  BY DEF IInv, EndState, EndAnnounced, FillReset, FillFrame, ringVars,
     flagVars, consumerVars, controlVars, ResetRing
<1>5. ConsumerState'
  BY SizesAssumption
  DEF IInv, ConsumerState, ReadsInside, FillReset, FillFrame, ringVars,
     flagVars, consumerVars, controlVars, ResetRing, TypeOK
<1>6. OwnState'
  <2>1. OwnControl => cpc = "idle"
    BY SizesAssumption
    DEF IInv, FillReset, OwnState, ConsumerState, RingState, FillState, TypeOK
  <2>2. QED
    BY <1>0, <2>1 DEF IInv, OwnState, OwnControl, FillReset, FillFrame,
       consumerVars, controlVars
<1>7. RingState'
  <2>1. cpc = "idle" => left = 0
    BY SizesAssumption DEF IInv, ConsumerState, TypeOK
  <2>2. readSize = 0 /\ readLen = 0
    BY SizesAssumption DEF IInv, FillReset, FillState, TypeOK
  <2>3. QED
    BY <1>0, <2>1, <2>2, SizesAssumption
    DEF RingState, FillReset, FillFrame, consumerVars
<1>8. Contents'
  <2>1. readLen = 0
    BY SizesAssumption DEF IInv, FillReset, FillState, TypeOK
  <2>2. QED
    BY <1>0, <2>1, SizesAssumption, BoundsAssumption
    DEF IInv, TypeOK, Contents, FillReset
<1>9. QED  BY <1>1, <1>2, <1>3, <1>4, <1>5, <1>6, <1>7, <1>8 DEF IInv

\* The pause is over.
LEMMA FillUnpauseKeeps ==
  ASSUME IInv, FillUnpause
  PROVE  IInv'
<1>1. ScriptState'
  BY DEF IInv, ScriptState, OwnControl, FillUnpause, FillFrame, ringVars,
     flagVars, consumerVars, controlVars
<1>2. TypeOK'
  BY SizesAssumption, BoundsAssumption
  DEF IInv, TypeOK, Cells, FillUnpause, FillFrame, ringVars, flagVars,
     consumerVars, controlVars
<1>3. FillState'
  BY SizesAssumption, BoundsAssumption
  DEF IInv, FillState, FillUnpause, FillFrame, ringVars, flagVars,
     consumerVars, controlVars, TypeOK
<1>4. EndState'
  BY DEF IInv, EndState, EndAnnounced, FillUnpause, FillFrame, ringVars,
     flagVars, consumerVars, controlVars
<1>5. ConsumerState'
  BY DEF IInv, ConsumerState, ReadsInside, FillUnpause, FillFrame, ringVars,
     flagVars, consumerVars, controlVars
<1>6. OwnState'
  BY DEF IInv, OwnState, OwnControl, FillUnpause, FillFrame, ringVars,
     flagVars, consumerVars, controlVars
<1>7. RingState'
  BY DEF IInv, RingState, FillUnpause, FillFrame, ringVars, flagVars,
     consumerVars, controlVars
<1>8. Contents'
  BY DEF IInv, Contents, Cell, FillUnpause, FillFrame, ringVars, flagVars,
     consumerVars, controlVars
<1>9. QED  BY <1>1, <1>2, <1>3, <1>4, <1>5, <1>6, <1>7, <1>8 DEF IInv

\* Poll returns data, an error or a request to stop.
LEMMA FillPollKeeps ==
  ASSUME IInv, FillPoll
  PROVE  IInv'
<1>1. ScriptState'
  BY DEF IInv, ScriptState, OwnControl, FillPoll, FillFrame, ringVars,
     flagVars, consumerVars, controlVars
<1>2. TypeOK'
  <2>1. m_error' \in BOOLEAN
    BY DEF IInv, TypeOK, FillPoll
  <2>2. QED
    BY <2>1,  SizesAssumption, BoundsAssumption
    DEF IInv, TypeOK, Cells, FillPoll, FillFrame, ringVars, flagVars, consumerVars, controlVars
<1>3. FillState'
  BY SizesAssumption, BoundsAssumption
  DEF IInv, FillState, FillPoll, FillFrame, ringVars, flagVars, consumerVars,
     controlVars, TypeOK
<1>4. EndState'
  BY DEF IInv, EndState, EndAnnounced, FillPoll, FillFrame, ringVars, flagVars,
     consumerVars, controlVars
<1>5. ConsumerState'
  BY DEF IInv, ConsumerState, ReadsInside, FillPoll, FillFrame, ringVars,
     flagVars, consumerVars, controlVars
<1>6. OwnState'
  BY DEF IInv, OwnState, OwnControl, FillPoll, FillFrame, ringVars, flagVars,
     consumerVars, controlVars
<1>7. RingState'
  BY DEF IInv, RingState, FillPoll, FillFrame, ringVars, flagVars,
     consumerVars, controlVars
<1>8. Contents'
  BY DEF IInv, Contents, Cell, FillPoll, FillFrame, ringVars, flagVars,
     consumerVars, controlVars
<1>9. QED  BY <1>1, <1>2, <1>3, <1>4, <1>5, <1>6, <1>7, <1>8 DEF IInv

\* An error of Poll ends the loop.
LEMMA FillCheckKeeps ==
  ASSUME IInv, FillCheck
  PROVE  IInv'
<1>1. ScriptState'
  BY DEF IInv, ScriptState, OwnControl, FillCheck, FillFrame, ringVars,
     flagVars, consumerVars, controlVars
<1>2. TypeOK'
  BY SizesAssumption, BoundsAssumption
  DEF IInv, TypeOK, Cells, FillCheck, FillFrame, ringVars, flagVars,
     consumerVars, controlVars
<1>3. FillState'
  BY SizesAssumption, BoundsAssumption
  DEF IInv, FillState, FillCheck, FillFrame, ringVars, flagVars, consumerVars,
     controlVars, TypeOK
<1>4. EndState'
  BY DEF IInv, EndState, EndAnnounced, FillCheck, FillFrame, ringVars,
     flagVars, consumerVars, controlVars
<1>5. ConsumerState'
  BY DEF IInv, ConsumerState, ReadsInside, FillCheck, FillFrame, ringVars,
     flagVars, consumerVars, controlVars
<1>6. OwnState'
  BY DEF IInv, OwnState, OwnControl, FillCheck, FillFrame, ringVars, flagVars,
     consumerVars, controlVars
<1>7. RingState'
  BY DEF IInv, RingState, FillCheck, FillFrame, ringVars, flagVars,
     consumerVars, controlVars
<1>8. Contents'
  BY DEF IInv, Contents, Cell, FillCheck, FillFrame, ringVars, flagVars,
     consumerVars, controlVars
<1>9. QED  BY <1>1, <1>2, <1>3, <1>4, <1>5, <1>6, <1>7, <1>8 DEF IInv

\* A read(2) is sized to what is unused now; Read can only make that more.
LEMMA FillRoomKeeps ==
  ASSUME IInv, FillRoom
  PROVE  IInv'
<1>1. ScriptState'
  BY DEF IInv, ScriptState, OwnControl, FillRoom, FillFrame, ringVars,
     flagVars, consumerVars, controlVars, GetUnused, Smaller
<1>2. TypeOK'
  BY SizesAssumption, BoundsAssumption
  DEF IInv, TypeOK, Cells, FillRoom, FillFrame, ringVars, flagVars,
     consumerVars, controlVars, GetUnused, Smaller
<1>3. FillState'
  BY SizesAssumption, BoundsAssumption
  DEF IInv, FillState, FillRoom, FillFrame, ringVars, flagVars, consumerVars,
     controlVars, GetUnused, Smaller, TypeOK
<1>4. EndState'
  BY DEF IInv, EndState, EndAnnounced, FillRoom, FillFrame, ringVars, flagVars,
     consumerVars, controlVars, GetUnused, Smaller
<1>5. ConsumerState'
  BY DEF IInv, ConsumerState, ReadsInside, FillRoom, FillFrame, ringVars,
     flagVars, consumerVars, controlVars, GetUnused, Smaller
<1>6. OwnState'
  BY DEF IInv, OwnState, OwnControl, FillRoom, FillFrame, ringVars, flagVars,
     consumerVars, controlVars, GetUnused, Smaller
<1>7. RingState'
  BY SizesAssumption
  DEF IInv, RingState, FillRoom, FillFrame, ringVars, flagVars, consumerVars,
     controlVars, GetUnused, Smaller, TypeOK
<1>8. Contents'
  BY DEF IInv, Contents, Cell, FillRoom, FillFrame, ringVars, flagVars,
     consumerVars, controlVars, GetUnused, Smaller
<1>9. QED  BY <1>1, <1>2, <1>3, <1>4, <1>5, <1>6, <1>7, <1>8 DEF IInv

\* read(2) puts its bytes where the ring is unused, and memcpy brings to the start
\* what went past the end.
LEMMA FillReadKeeps ==
  ASSUME IInv, FillRead
  PROVE  IInv'
<1>1. ScriptState'
  BY DEF IInv, ScriptState, OwnControl, FillRead, FillFrame, ringVars,
     flagVars, consumerVars, controlVars
<1>2. TypeOK'
  <2>1. PICK n \in 1 .. readSize : device + n <= MaxBytes /\ ring' = Filled(n)
                                   /\ readLen' = n /\ device' = device + n
    BY DEF FillRead
  <2>2. n \in Nat /\ n >= 1 /\ n <= m_devReadSize /\ n <= m_size
    BY SizesAssumption DEF IInv, TypeOK
  <2>3. ring' \in [Cells -> 0 .. MaxBytes]
    <3>1. /\ device \in Nat /\ m_writePtr \in Nat /\ m_writePtr < m_size /\ m_size \in Nat
          /\ \A i \in Cells : ring[i] \in 0 .. MaxBytes /\ i \in Nat
      BY SizesAssumption, BoundsAssumption DEF IInv, TypeOK, Cells
    <3>2. ASSUME NEW i \in Cells  PROVE Filled(n)[i] \in 0 .. MaxBytes
      <4>1. i \in Nat /\ ring[i] \in 0 .. MaxBytes
        BY <3>1
      <4>2. CASE i < m_writePtr + n - m_size
        BY <2>1, <2>2, <3>1, <4>1, <4>2, BoundsAssumption DEF Filled
      <4>3. CASE ~(i < m_writePtr + n - m_size) /\ i >= m_writePtr /\ i < m_writePtr + n
        BY <2>1, <2>2, <3>1, <4>1, <4>3, BoundsAssumption DEF Filled
      <4>4. CASE ~(i < m_writePtr + n - m_size) /\ ~(i >= m_writePtr /\ i < m_writePtr + n)
        BY <4>1, <4>4 DEF Filled
      <4>5. QED  BY <4>2, <4>3, <4>4
    <3>3. QED  BY <2>1, <3>2 DEF Filled
  <2>4. QED
    BY <2>1, <2>2, <2>3, SizesAssumption, BoundsAssumption
    DEF IInv, TypeOK, Cells, FillRead, FillFrame, flagVars, consumerVars, controlVars
<1>3. FillState'
  BY SizesAssumption, BoundsAssumption
  DEF IInv, FillState, FillRead, FillFrame, ringVars, flagVars, consumerVars,
     controlVars, TypeOK
<1>4. EndState'
  BY DEF IInv, EndState, EndAnnounced, FillRead, FillFrame, ringVars, flagVars,
     consumerVars, controlVars
<1>5. ConsumerState'
  BY DEF IInv, ConsumerState, ReadsInside, FillRead, FillFrame, ringVars,
     flagVars, consumerVars, controlVars
<1>6. OwnState'
  BY DEF IInv, OwnState, OwnControl, FillRead, FillFrame, ringVars, flagVars,
     consumerVars, controlVars
<1>7. RingState'
  BY SizesAssumption
  DEF IInv, RingState, FillRead, FillFrame, ringVars, flagVars, consumerVars,
     controlVars, TypeOK
<1>8. Contents'
  <2> SUFFICES ASSUME ~torn
               PROVE  /\ m_used + readLen' <= device'
                      /\ \A i \in 0 .. (m_used + readLen' - 1) :
                           ring'[Cell(i)] = device' - (m_used + readLen') + 1 + i
    BY DEF Contents, Cell, FillRead
  <2>1. PICK n \in 1 .. readSize : device + n <= MaxBytes /\ ring' = Filled(n)
                                   /\ readLen' = n /\ device' = device + n
    BY DEF FillRead
  <2>2. n \in Nat /\ n >= 1 /\ m_used + n <= m_size
    BY SizesAssumption DEF IInv, TypeOK, RingState
  <2>3. readLen = 0
    BY SizesAssumption DEF IInv, TypeOK, FillState, FillRead
  <2>4. /\ m_used \in Nat /\ m_readPtr \in Nat /\ m_writePtr \in Nat /\ device \in Nat
        /\ m_readPtr < m_size /\ m_used <= device /\ m_size \in Nat
        /\ m_writePtr = IF m_readPtr + m_used >= m_size
                          THEN m_readPtr + m_used - m_size
                          ELSE m_readPtr + m_used
    BY <2>3, SizesAssumption DEF IInv, TypeOK, RingState, Contents
  <2>5. ASSUME NEW i \in 0 .. (m_used + n - 1)
        PROVE  Filled(n)[Cell(i)] = device - m_used + 1 + i
    <3>1. Cell(i) \in Cells /\ Cell(i) < m_size
      BY <2>2, <2>4, SizesAssumption DEF Cell, Cells
    <3>2. CASE i < m_used
      <4>1. ring[Cell(i)] = device - m_used + 1 + i
        BY <2>3, <2>4, <3>2 DEF IInv, Contents
      <4>2. /\ ~(Cell(i) < m_writePtr + n - m_size)
            /\ ~(Cell(i) >= m_writePtr /\ Cell(i) < m_writePtr + n)
        BY <2>2, <2>4, <3>2 DEF Cell
      <4>3. QED  BY <3>1, <4>1, <4>2 DEF Filled
    <3>3. CASE i >= m_used
      <4>1. CASE Cell(i) < m_writePtr + n - m_size
        <5>1. Cell(i) = m_writePtr + (i - m_used) - m_size
          BY <2>2, <2>4, <3>3, <4>1 DEF Cell
        <5>2. QED  BY <2>2, <2>4, <3>1, <4>1, <5>1 DEF Filled
      <4>2. CASE ~(Cell(i) < m_writePtr + n - m_size)
        <5>1. Cell(i) = m_writePtr + (i - m_used)
          BY <2>2, <2>4, <3>3, <4>2 DEF Cell
        <5>2. QED  BY <2>2, <2>4, <3>1, <3>3, <4>2, <5>1 DEF Filled
      <4>3. QED  BY <4>1, <4>2
    <3>4. QED  BY <2>2, <2>4, <3>2, <3>3
  <2>6. QED
    BY <2>1, <2>2, <2>4, <2>5
<1>9. QED  BY <1>1, <1>2, <1>3, <1>4, <1>5, <1>6, <1>7, <1>8 DEF IInv

\* IncrWritePointer makes the bytes count.
LEMMA FillAdvanceKeeps ==
  ASSUME IInv, FillAdvance
  PROVE  IInv'
<1>1. ScriptState'
  BY DEF IInv, ScriptState, OwnControl, FillAdvance, FillFrame, ringVars,
     flagVars, consumerVars, controlVars, IncrWritePointer
<1>2. TypeOK'
  BY SizesAssumption, BoundsAssumption
  DEF IInv, TypeOK, Cells, FillAdvance, FillFrame, ringVars, flagVars,
     consumerVars, controlVars, IncrWritePointer
<1>3. FillState'
  BY SizesAssumption, BoundsAssumption
  DEF IInv, FillState, FillAdvance, FillFrame, ringVars, flagVars,
     consumerVars, controlVars, IncrWritePointer, TypeOK
<1>4. EndState'
  BY DEF IInv, EndState, EndAnnounced, FillAdvance, FillFrame, ringVars,
     flagVars, consumerVars, controlVars, IncrWritePointer
<1>5. ConsumerState'
  BY DEF IInv, ConsumerState, ReadsInside, FillAdvance, FillFrame, ringVars,
     flagVars, consumerVars, controlVars, IncrWritePointer
<1>6. OwnState'
  <2>1. ~m_paused
    BY DEF IInv, FillState, FillAdvance
  <2>2. OwnControl => script # <<"unpause", "start">>
    <3>1. running
      BY DEF IInv, FillState, FillAdvance
    <3>2. QED
      BY <3>1 DEF IInv, OwnState, ScriptState, Stopping
  <2>3. UNCHANGED <<usage, torn, script, cpc, running, encoding, m_requestPause, m_paused>>
        /\ fpc' = "for"
    BY DEF FillAdvance, FillFrame, flagVars, consumerVars, controlVars
  <2>4. QED
    BY <2>1, <2>2, <2>3 DEF IInv, OwnState, OwnControl
<1>7. RingState'
  BY SizesAssumption
  DEF IInv, RingState, FillAdvance, FillFrame, ringVars, flagVars,
     consumerVars, controlVars, IncrWritePointer, TypeOK, FillState
<1>8. Contents'
  <2> SUFFICES ASSUME ~torn
               PROVE  Contents'
    BY DEF Contents, FillAdvance
  <2>1. m_used \in Nat /\ readLen \in Nat /\ m_used + readLen < Width
    BY SizesAssumption DEF IInv, TypeOK, RingState
  <2>2. m_used' = m_used + readLen
    BY <2>1, Widths DEF FillAdvance, IncrWritePointer
  <2>3. QED
    BY <2>1, <2>2 DEF IInv, Contents, Cell, FillAdvance
<1>9. QED  BY <1>1, <1>2, <1>3, <1>4, <1>5, <1>6, <1>7, <1>8 DEF IInv

\* CheckForErrors counts an error, never beyond the limit.
LEMMA FillReadFailsKeeps ==
  ASSUME IInv, FillReadFails
  PROVE  IInv'
<1>1. ScriptState'
  BY DEF IInv, ScriptState, OwnControl, FillReadFails, FillFrame, ringVars,
     flagVars, consumerVars, controlVars
<1>2. TypeOK'
  <2>1. m_error' \in BOOLEAN
    BY Zenon DEF IInv, TypeOK, FillReadFails
  <2>2. m_eof' \in BOOLEAN
    BY Zenon DEF IInv, TypeOK, FillReadFails
  <2>3. errcnt' \in 0 .. (MaxErrors + 1)
    BY BoundsAssumption DEF IInv, TypeOK, FillState, FillReadFails
  <2>4. QED
    BY <2>1, <2>2, <2>3,  SizesAssumption, BoundsAssumption
    DEF IInv, TypeOK, Cells, FillReadFails, FillFrame, ringVars, flagVars, consumerVars, controlVars
<1>3. FillState'
  BY SizesAssumption, BoundsAssumption
  DEF IInv, FillState, FillReadFails, FillFrame, ringVars, flagVars,
     consumerVars, controlVars, TypeOK
<1>4. EndState'
  BY DEF IInv, EndState, EndAnnounced, FillReadFails, FillFrame, ringVars,
     flagVars, consumerVars, controlVars
<1>5. ConsumerState'
  BY DEF IInv, ConsumerState, ReadsInside, FillReadFails, FillFrame, ringVars,
     flagVars, consumerVars, controlVars
<1>6. OwnState'
  BY DEF IInv, OwnState, OwnControl, FillReadFails, FillFrame, ringVars,
     flagVars, consumerVars, controlVars
<1>7. RingState'
  BY SizesAssumption
  DEF IInv, RingState, FillReadFails, FillFrame, ringVars, flagVars,
     consumerVars, controlVars, TypeOK
<1>8. Contents'
  BY DEF IInv, Contents, Cell, FillReadFails, FillFrame, ringVars, flagVars,
     consumerVars, controlVars
<1>9. QED  BY <1>1, <1>2, <1>3, <1>4, <1>5, <1>6, <1>7, <1>8 DEF IInv

\* Too many errors end the loop.
LEMMA FillAfterKeeps ==
  ASSUME IInv, FillAfter
  PROVE  IInv'
<1>1. ScriptState'
  BY DEF IInv, ScriptState, OwnControl, FillAfter, FillFrame, ringVars,
     flagVars, consumerVars, controlVars
<1>2. TypeOK'
  BY SizesAssumption, BoundsAssumption
  DEF IInv, TypeOK, Cells, FillAfter, FillFrame, ringVars, flagVars,
     consumerVars, controlVars
<1>3. FillState'
  BY SizesAssumption, BoundsAssumption
  DEF IInv, FillState, FillAfter, FillFrame, ringVars, flagVars, consumerVars,
     controlVars, TypeOK
<1>4. EndState'
  BY DEF IInv, EndState, EndAnnounced, FillAfter, FillFrame, ringVars,
     flagVars, consumerVars, controlVars
<1>5. ConsumerState'
  BY DEF IInv, ConsumerState, ReadsInside, FillAfter, FillFrame, ringVars,
     flagVars, consumerVars, controlVars
<1>6. OwnState'
  BY DEF IInv, OwnState, OwnControl, FillAfter, FillFrame, ringVars, flagVars,
     consumerVars, controlVars
<1>7. RingState'
  BY DEF IInv, RingState, FillAfter, FillFrame, ringVars, flagVars,
     consumerVars, controlVars
<1>8. Contents'
  BY DEF IInv, Contents, Cell, FillAfter, FillFrame, ringVars, flagVars,
     consumerVars, controlVars
<1>9. QED  BY <1>1, <1>2, <1>3, <1>4, <1>5, <1>6, <1>7, <1>8 DEF IInv

\* The thread announces its end.
LEMMA FillExitKeeps ==
  ASSUME IInv, FillExit
  PROVE  IInv'
<1>1. ScriptState'
  BY DEF IInv, ScriptState, OwnControl, FillExit, FillFrame, ringVars,
     flagVars, consumerVars, controlVars
<1>2. TypeOK'
  BY SizesAssumption, BoundsAssumption
  DEF IInv, TypeOK, Cells, FillExit, FillFrame, ringVars, flagVars,
     consumerVars, controlVars
<1>3. FillState'
  BY SizesAssumption, BoundsAssumption
  DEF IInv, FillState, FillExit, FillFrame, ringVars, flagVars, consumerVars,
     controlVars, TypeOK
<1>4. EndState'
  BY DEF IInv, EndState, EndAnnounced, FillExit, FillFrame, ringVars, flagVars,
     consumerVars, controlVars
<1>5. ConsumerState'
  BY DEF IInv, ConsumerState, ReadsInside, FillExit, FillFrame, ringVars,
     flagVars, consumerVars, controlVars
<1>6. OwnState'
  BY DEF IInv, OwnState, OwnControl, FillExit, FillFrame, ringVars, flagVars,
     consumerVars, controlVars
<1>7. RingState'
  BY DEF IInv, RingState, FillExit, FillFrame, ringVars, flagVars,
     consumerVars, controlVars
<1>8. Contents'
  BY DEF IInv, Contents, Cell, FillExit, FillFrame, ringVars, flagVars,
     consumerVars, controlVars
<1>9. QED  BY <1>1, <1>2, <1>3, <1>4, <1>5, <1>6, <1>7, <1>8 DEF IInv

\* run() returns, with m_eof set.
LEMMA FillEndKeeps ==
  ASSUME IInv, FillEnd
  PROVE  IInv'
<1>1. ScriptState'
  BY DEF IInv, ScriptState, OwnControl, FillEnd, FillFrame, ringVars, flagVars,
     consumerVars, controlVars
<1>2. TypeOK'
  BY SizesAssumption, BoundsAssumption
  DEF IInv, TypeOK, Cells, FillEnd, FillFrame, ringVars, flagVars,
     consumerVars, controlVars
<1>3. FillState'
  BY SizesAssumption, BoundsAssumption
  DEF IInv, FillState, FillEnd, FillFrame, ringVars, flagVars, consumerVars,
     controlVars, TypeOK
<1>4. EndState'
  BY DEF IInv, EndState, EndAnnounced, FillEnd, FillFrame, ringVars, flagVars,
     consumerVars, controlVars
<1>5. ConsumerState'
  BY DEF IInv, ConsumerState, ReadsInside, FillEnd, FillFrame, ringVars,
     flagVars, consumerVars, controlVars
<1>6. OwnState'
  BY DEF IInv, OwnState, OwnControl, FillEnd, FillFrame, ringVars, flagVars,
     consumerVars, controlVars
<1>7. RingState'
  BY DEF IInv, RingState, FillEnd, FillFrame, ringVars, flagVars, consumerVars,
     controlVars
<1>8. Contents'
  BY DEF IInv, Contents, Cell, FillEnd, FillFrame, ringVars, flagVars,
     consumerVars, controlVars
<1>9. QED  BY <1>1, <1>2, <1>3, <1>4, <1>5, <1>6, <1>7, <1>8 DEF IInv

\* memcpy of the piece up to the end of the ring.
LEMMA ReadFirstKeeps ==
  ASSUME IInv, ReadFirst
  PROVE  IInv'
<1>1. ScriptState'
  BY DEF IInv, ScriptState, OwnControl, ReadFirst, ConsumerFrame, ringVars,
     flagVars, fillVars, controlVars, Copy
<1>2. TypeOK'
  BY SizesAssumption, BoundsAssumption
  DEF IInv, TypeOK, Cells, ReadFirst, ConsumerFrame, ringVars, flagVars,
     fillVars, controlVars, Copy
<1>3. FillState'
  BY DEF IInv, FillState, ReadFirst, ConsumerFrame, ringVars, flagVars,
     fillVars, controlVars, Copy
<1>4. EndState'
  BY DEF IInv, EndState, EndAnnounced, ReadFirst, ConsumerFrame, ringVars,
     flagVars, fillVars, controlVars, Copy
<1>5. ConsumerState'
  BY SizesAssumption
  DEF IInv, ConsumerState, ReadsInside, ReadFirst, ConsumerFrame, ringVars,
     flagVars, fillVars, controlVars, Copy, TypeOK
<1>6. OwnState'
  BY DEF IInv, OwnState, OwnControl, ReadFirst, ConsumerFrame, ringVars,
     flagVars, fillVars, controlVars, Copy
<1>7. RingState'
  BY SizesAssumption
  DEF IInv, RingState, ReadFirst, ConsumerFrame, ringVars, flagVars, fillVars,
     controlVars, Copy, TypeOK
<1>8. Contents'
  BY DEF IInv, Contents, Cell, ReadFirst, ConsumerFrame, ringVars, flagVars,
     fillVars, controlVars, Copy
<1>9. QED  BY <1>1, <1>2, <1>3, <1>4, <1>5, <1>6, <1>7, <1>8 DEF IInv

\* IncrReadPointer brings m_readPtr to the start, or to where a reset left it;
\* the rest lies inside the ring.
LEMMA ReadFirstIncrKeeps ==
  ASSUME IInv, ReadFirstIncr
  PROVE  IInv'
<1>0. UNCHANGED <<usage, ring, m_writePtr, flagVars, fillVars, controlVars, torn>>
  BY DEF ReadFirstIncr, ConsumerFrame
<1>10. /\ m_used \in Nat /\ m_readPtr \in Nat /\ len \in Nat /\ left \in Nat
       /\ m_size \in Nat \ {0} /\ m_readPtr < m_size /\ m_used < Width /\ Width \in Nat
       /\ 1 <= len /\ 1 <= left /\ left <= m_size /\ m_readPtr + len <= m_size
  BY SizesAssumption DEF IInv, TypeOK, ConsumerState, ReadFirstIncr
<1>11. m_readPtr' = IF m_readPtr + len = m_size THEN 0 ELSE m_readPtr + len
  BY DEF ReadFirstIncr, IncrReadPointer
<1>12. ~torn => left <= m_used /\ len <= left /\ m_used' = m_used - len
  <2>1. ~torn => left <= m_used /\ len <= left
    BY <1>10 DEF IInv, RingState, ConsumerState, ReadFirstIncr
  <2>2. m_used' = (m_used - len) % Width
    BY DEF ReadFirstIncr, IncrReadPointer
  <2>3. QED
    BY <1>10, <2>1, <2>2, Widths
<1>1. ScriptState'
  BY <1>0 DEF IInv, ScriptState, OwnControl, controlVars
<1>2. TypeOK'
  <2>1. m_readPtr' \in 0 .. (m_size - 1)
    BY <1>10, <1>11
  <2>2. m_used' \in 0 .. (Width - 1)
    BY <1>10, Widths DEF ReadFirstIncr, IncrReadPointer
  <2>3. /\ cpc' \in {"idle", "whole", "split", "second", "incrWhole", "incrFirst"}
        /\ left' \in 0 .. m_size /\ len' \in 0 .. m_size
    BY <1>10 DEF ReadFirstIncr
  <2>4. QED
    BY <1>0, <2>1, <2>2, <2>3
    DEF IInv, TypeOK, Cells, flagVars, fillVars, controlVars
<1>3. FillState'
  BY DEF IInv, FillState, ReadFirstIncr, ConsumerFrame, ringVars, flagVars,
     fillVars, controlVars, IncrReadPointer
<1>4. EndState'
  BY DEF IInv, EndState, EndAnnounced, ReadFirstIncr, ConsumerFrame, ringVars,
     flagVars, fillVars, controlVars, IncrReadPointer
<1>5. ConsumerState'
  BY <1>10, <1>11 DEF IInv, ConsumerState, ReadsInside, ReadFirstIncr
<1>6. OwnState'
  <2>1. ASSUME OwnControl
        PROVE  script = <<>> /\ ~torn /\ ~(m_paused /\ ~m_requestPause)
    BY <1>10, <1>12, <2>1 DEF IInv, OwnState, ReadFirstIncr
  <2>2. QED
    BY <1>0, <2>1 DEF IInv, OwnState, OwnControl, flagVars, fillVars, controlVars
<1>7. RingState'
  BY <1>0, <1>10, <1>11, <1>12, SizesAssumption
  DEF IInv, TypeOK, RingState, ConsumerState, ReadFirstIncr, fillVars
<1>8. Contents'
  <2> SUFFICES ASSUME ~torn
               PROVE  Contents'
    BY <1>0 DEF Contents
  <2>1. readLen \in Nat /\ device \in Nat /\ m_used' \in Nat
    BY <1>10, <1>12, SizesAssumption, BoundsAssumption DEF IInv, TypeOK
  <2>2. m_used + readLen <= m_size
    BY DEF IInv, RingState
  <2>3. ASSUME NEW i \in 0 .. (m_used' + readLen - 1)
        PROVE  ring[Cell(i)'] = device - (m_used' + readLen) + 1 + i
    <3>1. i + len \in 0 .. (m_used + readLen - 1)
      BY <1>10, <1>12, <2>1
    <3>2. Cell(i)' = Cell(i + len)
      BY <1>10, <1>11, <1>12, <2>1, <2>2, <3>1 DEF Cell
    <3>3. ring[Cell(i + len)] = device - (m_used + readLen) + 1 + (i + len)
      BY <3>1 DEF IInv, Contents
    <3>4. QED  BY <1>10, <1>12, <2>1, <3>2, <3>3
  <2>4. QED
    BY <1>0, <1>10, <1>12, <2>1, <2>3 DEF IInv, Contents, Cell, fillVars
<1>9. QED  BY <1>1, <1>2, <1>3, <1>4, <1>5, <1>6, <1>7, <1>8 DEF IInv

\* memcpy of the rest.
LEMMA ReadRestKeeps ==
  ASSUME IInv, ReadRest
  PROVE  IInv'
<1>1. ScriptState'
  BY DEF IInv, ScriptState, OwnControl, ReadRest, ConsumerFrame, ringVars,
     flagVars, fillVars, controlVars, Copy
<1>2. TypeOK'
  BY SizesAssumption, BoundsAssumption
  DEF IInv, TypeOK, Cells, ReadRest, ConsumerFrame, ringVars, flagVars,
     fillVars, controlVars, Copy
<1>3. FillState'
  BY DEF IInv, FillState, ReadRest, ConsumerFrame, ringVars, flagVars,
     fillVars, controlVars, Copy
<1>4. EndState'
  BY DEF IInv, EndState, EndAnnounced, ReadRest, ConsumerFrame, ringVars,
     flagVars, fillVars, controlVars, Copy
<1>5. ConsumerState'
  BY SizesAssumption
  DEF IInv, ConsumerState, ReadsInside, ReadRest, ConsumerFrame, ringVars,
     flagVars, fillVars, controlVars, Copy, TypeOK
<1>6. OwnState'
  BY DEF IInv, OwnState, OwnControl, ReadRest, ConsumerFrame, ringVars,
     flagVars, fillVars, controlVars, Copy
<1>7. RingState'
  BY SizesAssumption
  DEF IInv, RingState, ReadRest, ConsumerFrame, ringVars, flagVars, fillVars,
     controlVars, Copy, TypeOK
<1>8. Contents'
  BY DEF IInv, Contents, Cell, ReadRest, ConsumerFrame, ringVars, flagVars,
     fillVars, controlVars, Copy
<1>9. QED  BY <1>1, <1>2, <1>3, <1>4, <1>5, <1>6, <1>7, <1>8 DEF IInv

\* IncrReadPointer at the end of Read.
LEMMA ReadRestIncrKeeps ==
  ASSUME IInv, ReadRestIncr
  PROVE  IInv'
<1>0. UNCHANGED <<usage, ring, m_writePtr, flagVars, fillVars, controlVars, torn>>
  BY DEF ReadRestIncr, ConsumerFrame
<1>10. /\ m_used \in Nat /\ m_readPtr \in Nat /\ len \in Nat /\ left \in Nat
       /\ m_size \in Nat \ {0} /\ m_readPtr < m_size /\ m_used < Width /\ Width \in Nat
       /\ 1 <= len /\ 1 <= left /\ left <= m_size /\ m_readPtr + len <= m_size
  BY SizesAssumption DEF IInv, TypeOK, ConsumerState, ReadRestIncr
<1>11. m_readPtr' = IF m_readPtr + len = m_size THEN 0 ELSE m_readPtr + len
  BY DEF ReadRestIncr, IncrReadPointer
<1>12. ~torn => left <= m_used /\ len <= left /\ m_used' = m_used - len
  <2>1. ~torn => left <= m_used /\ len <= left
    BY <1>10 DEF IInv, RingState, ConsumerState, ReadRestIncr
  <2>2. m_used' = (m_used - len) % Width
    BY DEF ReadRestIncr, IncrReadPointer
  <2>3. QED
    BY <1>10, <2>1, <2>2, Widths
<1>1. ScriptState'
  BY <1>0 DEF IInv, ScriptState, OwnControl, controlVars
<1>2. TypeOK'
  <2>1. m_readPtr' \in 0 .. (m_size - 1)
    BY <1>10, <1>11
  <2>2. m_used' \in 0 .. (Width - 1)
    BY <1>10, Widths DEF ReadRestIncr, IncrReadPointer
  <2>3. /\ cpc' \in {"idle", "whole", "split", "second", "incrWhole", "incrFirst"}
        /\ left' \in 0 .. m_size /\ len' \in 0 .. m_size
    BY <1>10 DEF ReadRestIncr
  <2>4. QED
    BY <1>0, <2>1, <2>2, <2>3
    DEF IInv, TypeOK, Cells, flagVars, fillVars, controlVars
<1>3. FillState'
  BY DEF IInv, FillState, ReadRestIncr, ConsumerFrame, ringVars, flagVars,
     fillVars, controlVars, IncrReadPointer
<1>4. EndState'
  BY DEF IInv, EndState, EndAnnounced, ReadRestIncr, ConsumerFrame, ringVars,
     flagVars, fillVars, controlVars, IncrReadPointer
<1>5. ConsumerState'
  BY <1>10, <1>11 DEF IInv, ConsumerState, ReadsInside, ReadRestIncr
<1>6. OwnState'
  <2>1. ASSUME OwnControl
        PROVE  script = <<>> /\ ~torn /\ ~(m_paused /\ ~m_requestPause)
    BY <1>10, <1>12, <2>1 DEF IInv, OwnState, ReadRestIncr
  <2>2. QED
    BY <1>0, <2>1 DEF IInv, OwnState, OwnControl, flagVars, fillVars, controlVars
<1>7. RingState'
  <2> SUFFICES ASSUME ~torn
               PROVE  RingState'
    BY <1>0 DEF RingState
  <2>1. readSize \in Nat /\ readLen \in Nat
    BY SizesAssumption DEF IInv, TypeOK
  <2>2. m_used + readSize <= m_size /\ m_used + readLen <= m_size
    BY DEF IInv, RingState
  <2>3. m_writePtr' = IF m_readPtr' + m_used' >= m_size
                        THEN m_readPtr' + m_used' - m_size
                        ELSE m_readPtr' + m_used'
    BY <1>0, <1>10, <1>11, <1>12, <2>1, <2>2 DEF IInv, RingState
  <2>4. left' = 0 /\ cpc' = "idle"
    BY DEF ReadRestIncr
  <2>5. QED
    BY <1>0, <1>10, <1>12, <2>1, <2>2, <2>3, <2>4 DEF RingState, fillVars
<1>8. Contents'
  <2> SUFFICES ASSUME ~torn
               PROVE  Contents'
    BY <1>0 DEF Contents
  <2>1. readLen \in Nat /\ device \in Nat /\ m_used' \in Nat
    BY <1>10, <1>12, SizesAssumption, BoundsAssumption DEF IInv, TypeOK
  <2>2. m_used + readLen <= m_size
    BY DEF IInv, RingState
  <2>3. ASSUME NEW i \in 0 .. (m_used' + readLen - 1)
        PROVE  ring[Cell(i)'] = device - (m_used' + readLen) + 1 + i
    <3>1. i + len \in 0 .. (m_used + readLen - 1)
      BY <1>10, <1>12, <2>1
    <3>2. Cell(i)' = Cell(i + len)
      BY <1>10, <1>11, <1>12, <2>1, <2>2, <3>1 DEF Cell
    <3>3. ring[Cell(i + len)] = device - (m_used + readLen) + 1 + (i + len)
      BY <3>1 DEF IInv, Contents
    <3>4. QED  BY <1>10, <1>12, <2>1, <3>2, <3>3
  <2>4. QED
    BY <1>0, <1>10, <1>12, <2>1, <2>3 DEF IInv, Contents, Cell, fillVars
<1>9. QED  BY <1>1, <1>2, <1>3, <1>4, <1>5, <1>6, <1>7, <1>8 DEF IInv

\* The calls that start the encoder begin between two Reads.
LEMMA StartEncodingKeeps ==
  ASSUME IInv, StartEncoding
  PROVE  IInv'
<1>0. script \in Scripts
  BY DEF IInv, ScriptState
<1>1. ScriptState'
  BY <1>0, ScriptSteps
  DEF IInv, ScriptState, OwnControl, StartEncoding, ControlFrame, ringVars,
     flagVars, fillVars, consumerVars, Begin, Scripts
<1>2. TypeOK'
  BY SizesAssumption, BoundsAssumption, <1>1, ScriptsTyped
  DEF IInv, TypeOK, Cells, StartEncoding, ControlFrame, ringVars, flagVars,
     fillVars, consumerVars, Begin, OwnControl, ScriptState
<1>3. FillState'
  BY DEF IInv, FillState, StartEncoding, ControlFrame, ringVars, flagVars,
     fillVars, consumerVars, Begin, OwnControl
<1>4. EndState'
  BY DEF IInv, EndState, EndAnnounced, StartEncoding, ControlFrame, ringVars,
     flagVars, fillVars, consumerVars, Begin, OwnControl
<1>5. ConsumerState'
  BY DEF IInv, ConsumerState, ReadsInside, StartEncoding, ControlFrame,
     ringVars, flagVars, fillVars, consumerVars, Begin, OwnControl
<1>6. OwnState'
  BY <1>0, ScriptSteps
  DEF IInv, OwnState, OwnControl, StartEncoding, ControlFrame, ringVars,
     flagVars, fillVars, consumerVars, Begin, ScriptState, Stopping
<1>7. RingState'
  BY DEF IInv, RingState, StartEncoding, ControlFrame, ringVars, flagVars,
     fillVars, consumerVars, Begin, OwnControl
<1>8. Contents'
  BY DEF IInv, Contents, Cell, StartEncoding, ControlFrame, ringVars, flagVars,
     fillVars, consumerVars, Begin, OwnControl
<1>9. QED  BY <1>1, <1>2, <1>3, <1>4, <1>5, <1>6, <1>7, <1>8 DEF IInv

\* The calls that stop the encoder begin between two Reads.
LEMMA StopEncodingKeeps ==
  ASSUME IInv, StopEncoding
  PROVE  IInv'
<1>0. script \in Scripts
  BY DEF IInv, ScriptState
<1>1. ScriptState'
  BY <1>0, ScriptSteps
  DEF IInv, ScriptState, OwnControl, StopEncoding, ControlFrame, ringVars,
     flagVars, fillVars, consumerVars, Begin, Scripts
<1>2. TypeOK'
  <2>1. script' \in Seq({"reset", "pause", "unpause", "start", "stop",
                         "stopIfRunning", "join", "deleted"})
    BY <1>1, ScriptsTyped DEF ScriptState
  <2>2. encoding' \in BOOLEAN /\ calls' \in 0 .. MaxCalls
    <3>1. encoding' = FALSE /\ calls' = calls + 1 /\ calls < MaxCalls
      BY DEF StopEncoding, Begin
    <3>2. encoding' \in BOOLEAN
      BY <3>1
    <3>3. calls \in 0 .. MaxCalls
      BY DEF IInv, TypeOK
    <3>4. QED
      BY <3>1, <3>2, <3>3, BoundsAssumption
  <2>3. UNCHANGED <<ringVars, flagVars, fillVars, torn, usage, consumerVars>>
    BY DEF StopEncoding, ControlFrame, Begin
  <2>4. QED
    BY <2>1, <2>2, <2>3, SizesAssumption, BoundsAssumption
    DEF IInv, TypeOK, Cells, ringVars, flagVars, fillVars, consumerVars
<1>3. FillState'
  BY DEF IInv, FillState, StopEncoding, ControlFrame, ringVars, flagVars,
     fillVars, consumerVars, Begin, OwnControl
<1>4. EndState'
  BY DEF IInv, EndState, EndAnnounced, StopEncoding, ControlFrame, ringVars,
     flagVars, fillVars, consumerVars, Begin, OwnControl
<1>5. ConsumerState'
  BY DEF IInv, ConsumerState, ReadsInside, StopEncoding, ControlFrame,
     ringVars, flagVars, fillVars, consumerVars, Begin, OwnControl
<1>6. OwnState'
  BY <1>0, ScriptSteps
  DEF IInv, OwnState, OwnControl, StopEncoding, ControlFrame, ringVars,
     flagVars, fillVars, consumerVars, Begin, ScriptState, Stopping
<1>7. RingState'
  BY DEF IInv, RingState, StopEncoding, ControlFrame, ringVars, flagVars,
     fillVars, consumerVars, Begin, OwnControl
<1>8. Contents'
  BY DEF IInv, Contents, Cell, StopEncoding, ControlFrame, ringVars, flagVars,
     fillVars, consumerVars, Begin, OwnControl
<1>9. QED  BY <1>1, <1>2, <1>3, <1>4, <1>5, <1>6, <1>7, <1>8 DEF IInv

\* The destructor begins.
LEMMA DeleteKeeps ==
  ASSUME IInv, Delete
  PROVE  IInv'
<1>0. script \in Scripts
  BY DEF IInv, ScriptState
<1>1. ScriptState'
  BY <1>0, ScriptSteps
  DEF IInv, ScriptState, OwnControl, Delete, ControlFrame, ringVars, flagVars,
     fillVars, consumerVars, Begin, Scripts
<1>2. TypeOK'
  <2>1. script' \in Seq({"reset", "pause", "unpause", "start", "stop",
                         "stopIfRunning", "join", "deleted"})
    BY <1>1, ScriptsTyped DEF ScriptState
  <2>2. encoding' \in BOOLEAN /\ calls' \in 0 .. MaxCalls
    <3>1. encoding' = FALSE /\ calls' = calls + 1 /\ calls < MaxCalls
      BY DEF Delete, Begin
    <3>2. encoding' \in BOOLEAN
      BY <3>1
    <3>3. calls \in 0 .. MaxCalls
      BY DEF IInv, TypeOK
    <3>4. QED
      BY <3>1, <3>2, <3>3, BoundsAssumption
  <2>3. UNCHANGED <<ringVars, flagVars, fillVars, torn, usage, consumerVars>>
    BY DEF Delete, ControlFrame, Begin
  <2>4. QED
    BY <2>1, <2>2, <2>3, SizesAssumption, BoundsAssumption
    DEF IInv, TypeOK, Cells, ringVars, flagVars, fillVars, consumerVars
<1>3. FillState'
  BY DEF IInv, FillState, Delete, ControlFrame, ringVars, flagVars, fillVars,
     consumerVars, Begin
<1>4. EndState'
  BY DEF IInv, EndState, EndAnnounced, Delete, ControlFrame, ringVars,
     flagVars, fillVars, consumerVars, Begin
<1>5. ConsumerState'
  BY DEF IInv, ConsumerState, ReadsInside, Delete, ControlFrame, ringVars,
     flagVars, fillVars, consumerVars, Begin
<1>6. OwnState'
  BY <1>0, ScriptSteps
  DEF IInv, OwnState, OwnControl, Delete, ControlFrame, ringVars, flagVars,
     fillVars, consumerVars, Begin, ScriptState, Stopping
<1>7. RingState'
  BY DEF IInv, RingState, Delete, ControlFrame, ringVars, flagVars, fillVars,
     consumerVars, Begin
<1>8. Contents'
  BY DEF IInv, Contents, Cell, Delete, ControlFrame, ringVars, flagVars,
     fillVars, consumerVars, Begin
<1>9. QED  BY <1>1, <1>2, <1>3, <1>4, <1>5, <1>6, <1>7, <1>8 DEF IInv

\* A pause is requested of a thread that is being stopped, or withdrawn when none
\* runs.
LEMMA SetRequestPauseKeeps ==
  ASSUME IInv, SetRequestPause
  PROVE  IInv'
<1>0. script \in Scripts
  BY DEF IInv, ScriptState
<1>1. ScriptState'
  BY <1>0, ScriptSteps
  DEF IInv, ScriptState, OwnControl, SetRequestPause, ControlFrame, ringVars,
     flagVars, fillVars, consumerVars, Done, Scripts
<1>2. TypeOK'
  <2>1. script' \in Seq({"reset", "pause", "unpause", "start", "stop",
                         "stopIfRunning", "join", "deleted"})
    BY <1>1, ScriptsTyped DEF ScriptState
  <2>2. m_requestPause' \in BOOLEAN
    BY Zenon DEF SetRequestPause, Do
  <2>3. UNCHANGED <<ringVars, m_doRun, m_eof, m_error, m_paused, running, fillVars,
                    encoding, calls, torn, usage, consumerVars>>
    BY DEF SetRequestPause, ControlFrame, Done
  <2>4. QED
    BY <2>1, <2>2, <2>3, SizesAssumption, BoundsAssumption
    DEF IInv, TypeOK, Cells, ringVars, flagVars, fillVars, consumerVars
<1>3. FillState'
  BY DEF IInv, FillState, SetRequestPause, ControlFrame, ringVars, flagVars,
     fillVars, consumerVars, Done
<1>4. EndState'
  BY DEF IInv, EndState, EndAnnounced, SetRequestPause, ControlFrame, ringVars,
     flagVars, fillVars, consumerVars, Done
<1>5. ConsumerState'
  BY DEF IInv, ConsumerState, ReadsInside, SetRequestPause, ControlFrame,
     ringVars, flagVars, fillVars, consumerVars, Done
<1>6. OwnState'
  <2>1. UNCHANGED <<usage, torn, cpc, running, encoding, fpc, m_used, m_paused>>
    BY DEF SetRequestPause, ringVars, fillVars, ControlFrame, consumerVars
  <2>2. CASE Do("pause")
    <3>1. m_requestPause' = TRUE
      BY <2>2, Zenon DEF SetRequestPause
    <3>2. OwnControl => script = <<"pause", "stopIfRunning">> /\ script' = <<"stopIfRunning">>
      BY <1>0, <2>2, ScriptSteps DEF IInv, ScriptState, SetRequestPause, Done
    <3>3. QED
      BY <2>1, <3>1, <3>2 DEF IInv, OwnState, OwnControl, Stopping
  <2>3. CASE Do("unpause") /\ ~Do("pause")
    <3>1. m_requestPause' = FALSE
      <4>1. m_requestPause' = Do("pause")
        BY DEF SetRequestPause
      <4>2. Do("pause") = FALSE
        BY <2>3, Zenon DEF Do
      <4>3. QED  BY <4>1, <4>2, Zenon
    <3>2. script = <<"unpause", "start">> /\ script' = <<"start">>
      BY <1>0, <2>3, ScriptSteps DEF SetRequestPause, Done
    <3>3. ~encoding /\ script \notin Stopping
      BY <3>2 DEF IInv, ScriptState, Stopping
    <3>4. OwnControl => ~running /\ m_used = 0
      BY <3>2, <3>3 DEF IInv, OwnState
    <3>5. QED
      BY <2>1, <3>1, <3>2, <3>4 DEF IInv, OwnState, OwnControl, FillState
  <2>4. QED  BY <2>2, <2>3 DEF SetRequestPause
<1>7. RingState'
  BY DEF IInv, RingState, SetRequestPause, ControlFrame, ringVars, flagVars,
     fillVars, consumerVars, Done
<1>8. Contents'
  BY DEF IInv, Contents, Cell, SetRequestPause, ControlFrame, ringVars,
     flagVars, fillVars, consumerVars, Done
<1>9. QED  BY <1>1, <1>2, <1>3, <1>4, <1>5, <1>6, <1>7, <1>8 DEF IInv

\* Reset finds the thread stopped and nobody in Read.
LEMMA ResetKeeps ==
  ASSUME IInv, Reset
  PROVE  IInv'
<1>0. script \in Scripts
  BY DEF IInv, ScriptState
<1>1. ScriptState'
  BY <1>0, ScriptSteps
  DEF IInv, ScriptState, OwnControl, Reset, ControlFrame, ringVars, flagVars,
     fillVars, consumerVars, ResetRing, Done, Scripts
<1>10. /\ m_used' = 0 /\ m_readPtr' = 0 /\ m_writePtr' = 0
       /\ m_error' = FALSE /\ ring' = ring
       /\ torn' \in BOOLEAN
       /\ cpc # "idle" => torn' = TRUE
       /\ cpc = "idle" => torn' = torn
  BY ResetRingDoes DEF IInv, TypeOK, Reset
<1>11. UNCHANGED <<m_doRun, m_eof, m_requestPause, m_paused, running, fillVars,
                   encoding, calls, usage, consumerVars>>
  BY DEF Reset, Done, ControlFrame
<1>12. OwnControl /\ ~running /\ script = <<"reset", "unpause", "start">>
       /\ script' = <<"unpause", "start">>
  <2>1. script = <<"reset", "unpause", "start">> /\ Tail(script) = <<"unpause", "start">>
    BY <1>0, ScriptSteps DEF Reset
  <2>2. OwnControl /\ ~encoding
    BY <2>1 DEF IInv, ScriptState
  <2>3. script \notin Stopping
    BY <2>1 DEF Stopping
  <2>4. QED
    BY <2>1, <2>2, <2>3 DEF IInv, OwnState, Reset, Done
<1>2. TypeOK'
  <2>1. script' \in Seq({"reset", "pause", "unpause", "start", "stop",
                         "stopIfRunning", "join", "deleted"})
    BY <1>1, ScriptsTyped DEF ScriptState
  <2>2. /\ m_used' \in 0 .. (Width - 1)
        /\ m_readPtr' \in 0 .. (m_size - 1) /\ m_writePtr' \in 0 .. (m_size - 1)
    BY <1>10, SizesAssumption
  <2>3. torn' \in BOOLEAN /\ m_error' \in BOOLEAN /\ UNCHANGED ring
    BY <1>10
  <2>4. QED
    BY <2>1, <2>2, <2>3, <1>11 DEF IInv, TypeOK, Cells, fillVars, consumerVars
<1>3. FillState'
  BY DEF IInv, FillState, Reset, ControlFrame, ringVars, flagVars, fillVars,
     consumerVars, ResetRing, Done
<1>4. EndState'
  BY DEF IInv, EndState, EndAnnounced, Reset, ControlFrame, ringVars, flagVars,
     fillVars, consumerVars, ResetRing, Done
<1>5. ConsumerState'
  BY SizesAssumption
  DEF IInv, ConsumerState, ReadsInside, Reset, ControlFrame, ringVars,
     flagVars, fillVars, consumerVars, ResetRing, Done, TypeOK
<1>6. OwnState'
  <2>1. cpc = "idle" /\ ~torn
    BY <1>12 DEF IInv, OwnState
  <2>2. QED
    BY <1>10, <1>11, <1>12, <2>1
    DEF IInv, OwnState, OwnControl, FillState, fillVars, consumerVars
<1>7. RingState'
  <2>1. cpc = "idle" /\ ~torn
    BY <1>12 DEF IInv, OwnState
  <2>2. left = 0 /\ readSize = 0 /\ readLen = 0
    BY <1>12, <2>1, SizesAssumption DEF IInv, ConsumerState, FillState, TypeOK
  <2>3. QED
    BY <1>10, <1>11, <2>1, <2>2, SizesAssumption DEF RingState, fillVars, consumerVars
<1>8. Contents'
  <2>1. readLen = 0
    BY <1>12, SizesAssumption DEF IInv, FillState, TypeOK
  <2>2. QED
    BY <1>10, <1>11, <2>1, BoundsAssumption DEF IInv, TypeOK, Contents, fillVars
<1>9. QED  BY <1>1, <1>2, <1>3, <1>4, <1>5, <1>6, <1>7, <1>8 DEF IInv

\* Start stops the thread that is still there.
LEMMA StartOverKeeps ==
  ASSUME IInv, StartOver
  PROVE  IInv'
<1>0. script \in Scripts
  BY DEF IInv, ScriptState
<1>1. ScriptState'
  BY <1>0, ScriptSteps
  DEF IInv, ScriptState, OwnControl, StartOver, ControlFrame, ringVars,
     flagVars, fillVars, consumerVars, Scripts
<1>2. TypeOK'
  <2>1. script' \in Seq({"reset", "pause", "unpause", "start", "stop",
                         "stopIfRunning", "join", "deleted"})
    BY <1>1, ScriptsTyped DEF ScriptState
  <2>2. m_doRun' \in BOOLEAN
    BY DEF StartOver
  <2>3. UNCHANGED <<ringVars, m_eof, m_error, m_requestPause, m_paused, running,
                    fillVars, calls, encoding, torn, usage, consumerVars>>
    BY DEF StartOver, ControlFrame
  <2>4. QED
    BY <2>1, <2>2, <2>3
    DEF IInv, TypeOK, Cells, ringVars, flagVars, fillVars, consumerVars
<1>3. FillState'
  BY DEF IInv, FillState, StartOver, ControlFrame, ringVars, flagVars,
     fillVars, consumerVars
<1>4. EndState'
  BY DEF IInv, EndState, EndAnnounced, StartOver, ControlFrame, ringVars,
     flagVars, fillVars, consumerVars
<1>5. ConsumerState'
  BY DEF IInv, ConsumerState, ReadsInside, StartOver, ControlFrame, ringVars,
     flagVars, fillVars, consumerVars
<1>6. OwnState'
  BY <1>0, ScriptSteps
  DEF IInv, OwnState, OwnControl, StartOver, ControlFrame, ringVars, flagVars,
     fillVars, consumerVars, ScriptState, Stopping
<1>7. RingState'
  BY DEF IInv, RingState, StartOver, ControlFrame, ringVars, flagVars,
     fillVars, consumerVars
<1>8. Contents'
  BY DEF IInv, Contents, Cell, StartOver, ControlFrame, ringVars, flagVars,
     fillVars, consumerVars
<1>9. QED  BY <1>1, <1>2, <1>3, <1>4, <1>5, <1>6, <1>7, <1>8 DEF IInv

\* Start begins with a clean slate.
LEMMA StartKeeps ==
  ASSUME IInv, Start
  PROVE  IInv'
<1>0. script \in Scripts
  BY DEF IInv, ScriptState
<1>1. ScriptState'
  BY <1>0, ScriptSteps
  DEF IInv, ScriptState, OwnControl, Start, ControlFrame, ringVars, flagVars,
     fillVars, consumerVars, Done, Scripts
<1>2. TypeOK'
  <2>1. script' \in Seq({"reset", "pause", "unpause", "start", "stop",
                         "stopIfRunning", "join", "deleted"})
    BY <1>1, ScriptsTyped DEF ScriptState
  <2>2. /\ m_doRun' \in BOOLEAN /\ m_error' \in BOOLEAN /\ m_eof' \in BOOLEAN
        /\ running' \in BOOLEAN /\ fpc' = "top" /\ errcnt' = 0 /\ encoding' \in BOOLEAN
    BY DEF Start
  <2>3. UNCHANGED <<ringVars, m_requestPause, m_paused, cnt, readSize, readLen, device,
                    calls, torn, usage, consumerVars>>
    BY DEF Start, ControlFrame, Done
  <2>4. QED
    BY <2>1, <2>2, <2>3, SizesAssumption, BoundsAssumption
    DEF IInv, TypeOK, Cells, ringVars, flagVars, fillVars, consumerVars
<1>3. FillState'
  BY SizesAssumption, BoundsAssumption
  DEF IInv, FillState, Start, ControlFrame, ringVars, flagVars, fillVars,
     consumerVars, Done, TypeOK
<1>4. EndState'
  BY DEF IInv, EndState, EndAnnounced, Start, ControlFrame, ringVars, flagVars,
     fillVars, consumerVars, Done
<1>5. ConsumerState'
  BY DEF IInv, ConsumerState, ReadsInside, Start, ControlFrame, ringVars,
     flagVars, fillVars, consumerVars, Done
<1>6. OwnState'
  BY <1>0, ScriptSteps
  DEF IInv, OwnState, OwnControl, Start, ControlFrame, ringVars, flagVars,
     fillVars, consumerVars, Done, ScriptState, Stopping
<1>7. RingState'
  BY DEF IInv, RingState, Start, ControlFrame, ringVars, flagVars, fillVars,
     consumerVars, Done
<1>8. Contents'
  BY DEF IInv, Contents, Cell, Start, ControlFrame, ringVars, flagVars,
     fillVars, consumerVars, Done
<1>9. QED  BY <1>1, <1>2, <1>3, <1>4, <1>5, <1>6, <1>7, <1>8 DEF IInv

\* Stop tells the thread to end.
LEMMA StopKeeps ==
  ASSUME IInv, Stop
  PROVE  IInv'
<1>0. script \in Scripts
  BY DEF IInv, ScriptState
<1>1. ScriptState'
  BY <1>0, ScriptSteps
  DEF IInv, ScriptState, OwnControl, Stop, ControlFrame, ringVars, flagVars,
     fillVars, consumerVars, Scripts
<1>2. TypeOK'
  <2>1. script' \in Seq({"reset", "pause", "unpause", "start", "stop",
                         "stopIfRunning", "join", "deleted"})
    BY <1>1, ScriptsTyped DEF ScriptState
  <2>2. m_doRun' \in BOOLEAN
    BY DEF IInv, TypeOK, Stop
  <2>3. UNCHANGED <<ringVars, m_eof, m_error, m_requestPause, m_paused, running,
                    fillVars, calls, encoding, torn, usage, consumerVars>>
    BY DEF Stop, ControlFrame
  <2>4. QED
    BY <2>1, <2>2, <2>3, SizesAssumption, BoundsAssumption
    DEF IInv, TypeOK, Cells, ringVars, flagVars, fillVars, consumerVars
<1>3. FillState'
  BY DEF IInv, FillState, Stop, ControlFrame, ringVars, flagVars, fillVars,
     consumerVars
<1>4. EndState'
  BY DEF IInv, EndState, EndAnnounced, Stop, ControlFrame, ringVars, flagVars,
     fillVars, consumerVars
<1>5. ConsumerState'
  BY DEF IInv, ConsumerState, ReadsInside, Stop, ControlFrame, ringVars,
     flagVars, fillVars, consumerVars
<1>6. OwnState'
  BY <1>0, ScriptSteps
  DEF IInv, OwnState, OwnControl, Stop, ControlFrame, ringVars, flagVars,
     fillVars, consumerVars, ScriptState, Stopping
<1>7. RingState'
  BY DEF IInv, RingState, Stop, ControlFrame, ringVars, flagVars, fillVars,
     consumerVars
<1>8. Contents'
  BY DEF IInv, Contents, Cell, Stop, ControlFrame, ringVars, flagVars,
     fillVars, consumerVars
<1>9. QED  BY <1>1, <1>2, <1>3, <1>4, <1>5, <1>6, <1>7, <1>8 DEF IInv

\* wait() returns.
LEMMA JoinKeeps ==
  ASSUME IInv, Join
  PROVE  IInv'
<1>0. script \in Scripts
  BY DEF IInv, ScriptState
<1>1. ScriptState'
  BY <1>0, ScriptSteps
  DEF IInv, ScriptState, OwnControl, Join, ControlFrame, ringVars, flagVars,
     fillVars, consumerVars, Done, Scripts
<1>2. TypeOK'
  <2>1. script' \in Seq({"reset", "pause", "unpause", "start", "stop",
                         "stopIfRunning", "join", "deleted"})
    BY <1>1, ScriptsTyped DEF ScriptState
  <2>2. QED
    BY <2>1, BoundsAssumption
    DEF IInv, TypeOK, Cells, Join, ControlFrame, ringVars, flagVars,
        fillVars, consumerVars, Done
<1>3. FillState'
  BY DEF IInv, FillState, Join, ControlFrame, ringVars, flagVars, fillVars,
     consumerVars, Done
<1>4. EndState'
  BY DEF IInv, EndState, EndAnnounced, Join, ControlFrame, ringVars, flagVars,
     fillVars, consumerVars, Done
<1>5. ConsumerState'
  BY DEF IInv, ConsumerState, ReadsInside, Join, ControlFrame, ringVars,
     flagVars, fillVars, consumerVars, Done
<1>6. OwnState'
  BY <1>0, ScriptSteps
  DEF IInv, OwnState, OwnControl, Join, ControlFrame, ringVars, flagVars,
     fillVars, consumerVars, Done, ScriptState, Stopping
<1>7. RingState'
  BY DEF IInv, RingState, Join, ControlFrame, ringVars, flagVars, fillVars,
     consumerVars, Done
<1>8. Contents'
  BY DEF IInv, Contents, Cell, Join, ControlFrame, ringVars, flagVars,
     fillVars, consumerVars, Done
<1>9. QED  BY <1>1, <1>2, <1>3, <1>4, <1>5, <1>6, <1>7, <1>8 DEF IInv

\* ReadBegin keeps the invariant: what WaitForUsed found stays in the ring.
LEMMA ReadBeginKeeps ==
  ASSUME IInv, NEW count \in Counts, ReadBegin(count)
  PROVE  IInv'
<1> DEFINE n == Smaller(count, m_used)
<1>0. UNCHANGED <<usage, ringVars, flagVars, fillVars, controlVars, torn, len>>
  BY DEF ReadBegin, ConsumerFrame
<1>10. /\ n \in Nat /\ 1 <= n /\ n <= m_size /\ n <= m_used
       /\ m_size \in Nat /\ m_readPtr \in Nat
  <2>1. count \in 1 .. m_size /\ m_used \in Nat /\ m_size \in Nat /\ m_readPtr \in Nat
    BY SizesAssumption DEF IInv, TypeOK
  <2>2. n > 0
    BY DEF ReadBegin
  <2>3. QED  BY <2>1, <2>2 DEF Smaller
<1>11. /\ cpc = "idle" /\ left' = n
       /\ cpc' = IF m_readPtr + n > m_size THEN "split" ELSE "whole"
  BY DEF ReadBegin
<1>12. OwnControl => script = <<>>
  BY DEF ReadBegin
<1> HIDE DEF n
<1>13. len = 0
  BY <1>11, SizesAssumption DEF IInv, TypeOK, ConsumerState
<1>1. ScriptState'
  BY <1>0 DEF IInv, ScriptState, OwnControl, controlVars
<1>2. TypeOK'
  <2>1. left' \in 0 .. m_size
    BY <1>10, <1>11
  <2>2. cpc' \in {"idle", "whole", "split", "second", "incrWhole", "incrFirst"}
    BY <1>11
  <2>3. QED
    BY <1>0, <2>1, <2>2
    DEF IInv, TypeOK, Cells, ringVars, flagVars, fillVars, controlVars
<1>3. FillState'
  BY <1>0 DEF IInv, FillState, flagVars, fillVars
<1>4. EndState'
  BY <1>0 DEF IInv, EndState, EndAnnounced, flagVars, fillVars
<1>5. ConsumerState'
  BY <1>0, <1>10, <1>11, <1>13 DEF ConsumerState, ReadsInside, ringVars
<1>6. OwnState'
  BY <1>0, <1>12
  DEF IInv, OwnState, OwnControl, ringVars, flagVars, fillVars, controlVars
<1>7. RingState'
  BY <1>0, <1>10, <1>11 DEF IInv, RingState, ringVars, fillVars
<1>8. Contents'
  BY <1>0 DEF IInv, Contents, Cell, ringVars, fillVars
<1>9. QED  BY <1>1, <1>2, <1>3, <1>4, <1>5, <1>6, <1>7, <1>8 DEF IInv

-----------------------------------------------------------------------------
(* The theorems *)

\* The constructor and Setup establish the invariant.
LEMMA InitIInv == Init => IInv
<1> SUFFICES ASSUME Init
             PROVE  IInv
  OBVIOUS
<1>1. ScriptState
  BY DEF Init, ScriptState, Scripts
<1>2. TypeOK
  <2>1. script \in Seq({"reset", "pause", "unpause", "start", "stop",
                        "stopIfRunning", "join", "deleted"})
    BY DEF Init
  <2>2. ring \in [Cells -> 0 .. MaxBytes]
    BY BoundsAssumption DEF Init
  <2>3. /\ m_used \in 0 .. (Width - 1)
        /\ m_readPtr \in 0 .. (m_size - 1) /\ m_writePtr \in 0 .. (m_size - 1)
        /\ cnt \in 0 .. m_devBufferCount /\ left \in 0 .. m_size /\ len \in 0 .. m_size
        /\ readSize \in 0 .. m_devReadSize /\ readLen \in 0 .. m_devReadSize
    BY SizesAssumption DEF Init
  <2>4. /\ errcnt \in 0 .. (MaxErrors + 1) /\ device \in 0 .. MaxBytes
        /\ calls \in 0 .. MaxCalls
    BY BoundsAssumption DEF Init
  <2>5. QED
    BY <2>1, <2>2, <2>3, <2>4 DEF Init, TypeOK
<1>3. FillState /\ EndState /\ ConsumerState
  BY SizesAssumption DEF Init, FillState, EndState, EndAnnounced, ConsumerState, ReadsInside
<1>4. OwnState
  BY DEF Init, OwnState
<1>5. RingState /\ Contents
  BY SizesAssumption DEF Init, RingState, Contents
<1>6. QED  BY <1>1, <1>2, <1>3, <1>4, <1>5 DEF IInv

\* Every step of the fill thread, of the consumer and of control keeps it.
LEMMA NextIInv == IInv /\ [Next]_vars => IInv'
<1> SUFFICES ASSUME IInv, [Next]_vars
             PROVE  IInv'
  OBVIOUS
<1>1. CASE Fill
  BY <1>1, FillTopKeeps, FillSetPausedKeeps, FillResetKeeps, FillUnpauseKeeps,
     FillPollKeeps, FillCheckKeeps, FillRoomKeeps, FillReadKeeps,
     FillAdvanceKeeps, FillReadFailsKeeps, FillAfterKeeps, FillExitKeeps,
     FillEndKeeps DEF Fill
<1>2. CASE Consumer
  BY <1>2, ReadBeginKeeps, ReadFirstKeeps, ReadFirstIncrKeeps, ReadRestKeeps,
     ReadRestIncrKeeps DEF Consumer
<1>3. CASE Control
  BY <1>3, StartEncodingKeeps, StopEncodingKeeps, DeleteKeeps,
     SetRequestPauseKeeps, ResetKeeps, StartOverKeeps, StartKeeps, StopKeeps,
     JoinKeeps DEF Control, Calls
<1>4. CASE UNCHANGED vars
  <2>1. TypeOK'
    BY <1>4 DEF IInv, TypeOK, Cells, vars, ringVars, flagVars, fillVars, consumerVars,
       controlVars
  <2>2. FillState' /\ EndState' /\ ConsumerState'
    BY <1>4 DEF IInv, FillState, EndState, EndAnnounced, ConsumerState, ReadsInside,
       vars, ringVars, flagVars, fillVars, consumerVars, controlVars
  <2>3. ScriptState' /\ OwnState'
    BY <1>4 DEF IInv, ScriptState, OwnState, OwnControl, vars, ringVars, flagVars,
       fillVars, consumerVars, controlVars
  <2>4. RingState' /\ Contents'
    BY <1>4 DEF IInv, RingState, Contents, Cell, vars, ringVars, fillVars, consumerVars
  <2>5. QED  BY <2>1, <2>2, <2>3, <2>4 DEF IInv
<1>5. QED  BY <1>1, <1>2, <1>3, <1>4 DEF Next

\* The inductive invariant holds in every state.
THEOREM Invariant == Spec => []IInv
  BY InitIInv, NextIInv, PTL DEF Spec

\* RingAgrees: m_used, m_readPtr and m_writePtr agree, the read(2) in progress
\* has room although it was sized without the lock, and no memcpy of Read
\* leaves the ring.
THEOREM RingAlwaysAgrees == Spec => []RingAgrees
<1>1. IInv => RingAgrees
  <2> SUFFICES ASSUME IInv
               PROVE  RingAgrees
    OBVIOUS
  <2>1. TypeOK /\ ReadsInside
    BY DEF IInv, ConsumerState
  <2>2. ASSUME ~torn
        PROVE  (m_readPtr + m_used) % m_size = m_writePtr
    <3> DEFINE x == m_readPtr + m_used
    <3>1. /\ x \in Nat /\ m_size \in Nat \ {0} /\ x < 2 * m_size
          /\ m_writePtr = IF x >= m_size THEN x - m_size ELSE x
      BY <2>2, SizesAssumption DEF IInv, TypeOK, RingState
    <3> HIDE DEF x
    <3>2. x % m_size = IF x >= m_size THEN x - m_size ELSE x
      BY <3>1
    <3>3. QED  BY <3>1, <3>2 DEF x
  <2>3. ASSUME ~torn
        PROVE  /\ m_used <= m_size
               /\ m_used + readSize <= m_size /\ m_used + readLen <= m_size
    BY <2>3, SizesAssumption DEF IInv, TypeOK, RingState
  <2>4. QED  BY <2>1, <2>2, <2>3 DEF RingAgrees
<1>2. QED  BY <1>1, Invariant, PTL

\* OwnControlNeverTears: MpegRecorder, whose thread both reads and controls,
\* never resets the ring under its own Read; neither does the fill thread, which
\* resets it when it leaves a pause.
THEOREM OwnControlIsSafe == Spec => []OwnControlNeverTears
<1>1. IInv => OwnControlNeverTears
  BY DEF IInv, OwnState, OwnControlNeverTears
<1>2. QED  BY <1>1, Invariant, PTL

\* EndAnnounced: a fill thread that ended by itself has set m_eof.
THEOREM EndIsAnnounced == Spec => []EndAnnounced
<1>1. IInv => EndAnnounced
  BY DEF IInv, EndState
<1>2. QED  BY <1>1, Invariant, PTL

-----------------------------------------------------------------------------
(* The refinement of ByteFifo *)

\* A run of numbers is a sequence.
LEMMA RunSeq ==
  ASSUME NEW a \in Int, NEW b \in Int, a <= b
  PROVE  /\ Fifo!Run(a, b) \in Seq(Int) /\ Len(Fifo!Run(a, b)) = b - a
         /\ \A i \in 1 .. (b - a) : Fifo!Run(a, b)[i] = a + i
<1>1. b - a \in Nat OBVIOUS
<1>2. Fifo!Run(a, b) \in [1 .. (b-a) -> Int] BY DEF Fifo!Run
<1>3. Fifo!Run(a, b) \in Seq(Int)  BY <1>1, <1>2, SeqDef
<1>4. Len(Fifo!Run(a, b)) = b - a  BY <1>1, <1>2, <1>3, LenProperties
<1>5. QED  BY <1>3, <1>4 DEF Fifo!Run

\* Two runs that meet are one.
LEMMA RunConcat ==
  ASSUME NEW a \in Int, NEW b \in Int, NEW c \in Int, a <= b, b <= c
  PROVE Fifo!Run(a,b) \o Fifo!Run(b,c) = Fifo!Run(a,c)
<1> DEFINE s == Fifo!Run(a, b)  t == Fifo!Run(b, c)  u == Fifo!Run(a, c)
<1>1. a <= c OBVIOUS
<1>2. s \in Seq(Int) /\ Len(s) = b - a /\ \A i \in 1 .. (b - a) : s[i] = a + i
  BY RunSeq
<1>3. t \in Seq(Int) /\ Len(t) = c - b /\ \A i \in 1 .. (c - b) : t[i] = b + i
  BY RunSeq
<1>4. u \in Seq(Int) /\ Len(u) = c - a /\ \A i \in 1 .. (c - a) : u[i] = a + i
  BY <1>1, RunSeq
<1> HIDE DEF s, t, u
<1>5. /\ s \o t \in Seq(Int) /\ Len(s \o t) = Len(s) + Len(t)
      /\ \A i \in 1 .. Len(s) + Len(t) : (s \o t)[i] = IF i <= Len(s) THEN s[i] ELSE t[i - Len(s)]
  BY <1>2, <1>3, ConcatProperties
<1>6. Len(s) + Len(t) = c - a  BY <1>2, <1>3
<1>7. ASSUME NEW i \in 1 .. (c - a)  PROVE (s \o t)[i] = u[i]
  <2>1. CASE i <= b - a  BY <1>2, <1>4, <1>5, <1>6, <2>1
  <2>2. CASE i > b - a 
     <3>1. i - (b - a) \in 1 .. (c - b) BY <2>2
     <3>2. t[i - (b - a)] = b + (i - (b - a)) BY <1>3, <3>1
     <3>3. (s \o t)[i] = IF i <= Len(s) THEN s[i] ELSE t[i - Len(s)]
       BY <1>5, <1>6
     <3>4. (s \o t)[i] = t[i - (b - a)]
       BY <1>2, <2>2, <3>3
     <3>5. QED BY <1>4, <3>2, <3>4
  <2>3. i <= b - a \/ i > b - a  OBVIOUS
  <2>4. QED  BY <2>1, <2>2, <2>3, Zenon
<1>8. s \o t = u
  BY <1>4, <1>5, <1>6, <1>7, SeqEqual
<1>9. QED  BY <1>8 DEF s, t, u

\* A run cut in two is two runs.
LEMMA RunSub ==
  ASSUME NEW a \in Int, NEW b \in Int, NEW k \in Nat, a + k <= b
  PROVE  /\ SubSeq(Fifo!Run(a, b), 1, k) = Fifo!Run(a, a + k)
         /\ SubSeq(Fifo!Run(a, b), k + 1, b - a) = Fifo!Run(a + k, b)
<1> DEFINE s == Fifo!Run(a, b)  p == SubSeq(s, 1, k)  q == SubSeq(s, k + 1, b - a)
           u == Fifo!Run(a, a + k)  v == Fifo!Run(a + k, b)
<1>0. a <= b /\ a <= a + k /\ a + k \in Int OBVIOUS
<1>1. \A i \in 1 .. (b - a) : s[i] = a + i
  BY <1>0, RunSeq
<1>2. u \in Seq(Int) /\ Len(u) = (a + k) - a /\ \A i \in 1 .. ((a + k) - a) : u[i] = a + i
  BY <1>0, RunSeq
<1>3. v \in Seq(Int) /\ Len(v) = b - (a + k) /\ \A i \in 1 .. (b - (a + k)) : v[i] = (a + k) + i
  BY <1>0, RunSeq
<1> HIDE DEF s, u, v
<1>4. \A i \in 1 .. k : s[i] \in Int  BY <1>1
<1>5. \A i \in k + 1 .. b - a : s[i] \in Int  BY <1>1
<1>6. /\ p \in Seq(Int) /\ Len(p) = IF 1 <= k THEN k - 1 + 1 ELSE 0
      /\ \A i \in 1 .. k - 1 + 1 : p[i] = s[1 + i - 1]
  BY <1>4, SubSeqProperties
<1>7. /\ q \in Seq(Int) /\ Len(q) = IF k + 1 <= b - a THEN b - a - (k + 1) + 1 ELSE 0
      /\ \A i \in 1 .. b - a - (k + 1) + 1 : q[i] = s[k + 1 + i - 1]
  BY <1>5, SubSeqProperties
<1> HIDE DEF p, q
<1>8. p = u
  <2>1. Len(p) = k /\ Len(u) = k  BY <1>2, <1>6
  <2>2. \A i \in 1 .. k : p[i] = u[i]  
     <3>1. ASSUME NEW i \in 1 .. k PROVE p[i] = u[i]
       <4>1. p[i] = s[1 + i - 1] BY <1>6
       <4>2. 1 + i - 1 = i /\ i \in 1 .. (b - a) BY <1>0
       <4>4. u[i] = a + i BY <1>2
       <4>3. QED BY <4>1, <4>2, <4>4, <1>1
     <3>2. QED BY <3>1
  <2>3. QED  BY <1>2, <1>6, <2>1, <2>2, SeqEqual
<1>9. q = v
  <2>1. Len(q) = b - (a + k) /\ Len(v) = b - (a + k)  BY <1>3, <1>7
  <2>2. \A i \in 1 .. (b - (a + k)) : q[i] = v[i]  BY <1>1, <1>3, <1>7
  <2>3. QED  BY <1>3, <1>7, <2>1, <2>2, SeqEqual
<1>10. QED  BY <1>8, <1>9 DEF p, q, s, u, v

\* The number of the last byte that counts as delivered, and how many of the
\* bytes in the ring no Read has copied yet.
Taken == IF fpc = "advance" THEN device - readLen ELSE device
Pending == IF cpc \in {"incrFirst", "incrWhole"} THEN m_used - len ELSE m_used

\* The unread bytes of the ring are the last ones the device delivered.
LEMMA UnreadIsRun ==
  IInv /\ ~torn => /\ Taken \in Nat /\ Pending \in Nat /\ Pending <= Taken
                   /\ Taken = device - readLen
                   /\ Unread = Fifo!Run(Taken - Pending, Taken)
<1> SUFFICES ASSUME IInv, ~torn
             PROVE  /\ Taken \in Nat /\ Pending \in Nat /\ Pending <= Taken
                    /\ Taken = device - readLen
                    /\ Unread = Fifo!Run(Taken - Pending, Taken)
  OBVIOUS
<1> DEFINE used == [i \in 1 .. m_used |-> ring[(m_readPtr + i - 1) % m_size]]
           incr == cpc \in {"incrFirst", "incrWhole"}
<1>1. /\ m_used \in Nat /\ m_readPtr \in Nat /\ readLen \in Nat /\ device \in Nat
      /\ len \in Nat /\ m_size \in Nat \ {0} /\ m_readPtr < m_size
      /\ m_used + readLen <= m_size /\ m_used + readLen <= device
  BY SizesAssumption, BoundsAssumption DEF IInv, TypeOK, RingState, Contents
<1>2. Taken = device - readLen
  BY <1>1 DEF IInv, FillState, Taken
<1>3. incr => len <= m_used
  BY <1>1, SizesAssumption DEF IInv, TypeOK, RingState, ConsumerState
<1>4. Taken \in Nat /\ Pending \in Nat /\ Pending <= Taken /\ m_used <= Taken
  BY <1>1, <1>2, <1>3 DEF Pending
<1>5. ASSUME NEW i \in 1 .. m_used
      PROVE  ring[(m_readPtr + i - 1) % m_size] = (Taken - m_used) + i
  <2> DEFINE x == m_readPtr + i - 1
  <2>1. x \in Nat /\ x < 2 * m_size /\ i - 1 \in 0 .. (m_used + readLen - 1)
    BY <1>1
  <2>2. Cell(i - 1) = IF x >= m_size THEN x - m_size ELSE x
    BY <1>1 DEF Cell
  <2> HIDE DEF x
  <2>3. x % m_size = IF x >= m_size THEN x - m_size ELSE x
    BY <1>1, <2>1
  <2>4. ring[Cell(i - 1)] = device - (m_used + readLen) + 1 + (i - 1)
    BY <2>1 DEF IInv, Contents
  <2>5. ring[x % m_size] = device - (m_used + readLen) + 1 + (i - 1)
    BY <2>2, <2>3, <2>4
  <2>6. QED  BY <1>1, <1>2, <2>5 DEF x
<1>6. used = Fifo!Run(Taken - m_used, Taken)
  <2>1. Taken - (Taken - m_used) = m_used
    BY <1>1, <1>4
  <2>2. Fifo!Run(Taken - m_used, Taken) = [i \in 1 .. m_used |-> (Taken - m_used) + i]
    BY <2>1 DEF Fifo!Run
  <2>3. QED  BY <1>5, <2>2
<1>7. CASE incr
  <2>1. /\ Taken - m_used \in Int /\ Taken \in Int /\ len \in Nat
        /\ (Taken - m_used) + len <= Taken
        /\ Taken - (Taken - m_used) = m_used /\ (Taken - m_used) + len = Taken - Pending
    BY <1>1, <1>3, <1>4, <1>7 DEF Pending
  <2>2. SubSeq(Fifo!Run(Taken - m_used, Taken), len + 1, Taken - (Taken - m_used))
          = Fifo!Run((Taken - m_used) + len, Taken)
    BY <2>1, RunSub
  <2>3. Unread = SubSeq(used, len + 1, m_used)
    BY <1>7 DEF Unread
  <2>4. QED  BY <1>2, <1>4, <1>6, <2>1, <2>2, <2>3
<1>8. CASE ~incr
  <2>1. Unread = used /\ Pending = m_used
    BY <1>8 DEF Unread, Pending
  <2>2. QED  BY <1>2, <1>4, <1>6, <2>1
<1>9. QED  BY <1>7, <1>8

\* torn never goes back.
LEMMA TornStays == IInv /\ Next => (torn => torn')
<1> SUFFICES ASSUME IInv, Next, torn
             PROVE  torn'
  OBVIOUS
<1>1. CASE Fill
  BY <1>1 DEF Fill, FillTop, FillSetPaused, FillReset, FillUnpause, FillPoll,
     FillCheck, FillRoom, FillRead, FillAdvance, FillReadFails, FillAfter,
     FillExit, FillEnd, ResetRing
<1>2. CASE Consumer
  BY <1>2 DEF Consumer, ReadBegin, ReadFirst, ReadFirstIncr, ReadRest,
     ReadRestIncr, ConsumerFrame
<1>3. CASE Control
  BY <1>3 DEF Control, Calls, StartEncoding, StopEncoding, Delete, Begin,
     SetRequestPause, Reset, StartOver, Start, Stop, Join, ResetRing
<1>4. QED  BY <1>1, <1>2, <1>3 DEF Next

\* A step that moves none of what the queue is made of stutters.
LEMMA Stutters ==
  ASSUME IInv, IInv', ~torn, ~torn', Taken' = Taken, Pending' = Pending, buf' = buf
  PROVE  UNCHANGED Fifo!vars
<1>1. Unread = Fifo!Run(Taken - Pending, Taken)
  BY UnreadIsRun
<1>2. (IInv /\ ~torn => Unread = Fifo!Run(Taken - Pending, Taken))'
  BY UnreadIsRun, PTL
<1>3. Unread' = Fifo!Run(Taken' - Pending', Taken')
  BY <1>2
<1>4. Unread' = Unread
  BY <1>1, <1>3
<1>5. torn' = torn
  BY DEF IInv, TypeOK
<1>6. QED
  BY <1>4, <1>5 DEF Fifo!vars, Taken

\* The unread bytes before and after a step.
LEMMA UnreadBoth ==
  ASSUME IInv, IInv', ~torn, ~torn'
  PROVE  /\ Taken \in Nat /\ Pending \in Nat /\ Pending <= Taken
         /\ Taken' \in Nat /\ Pending' \in Nat /\ Pending' <= Taken'
         /\ Unread = Fifo!Run(Taken - Pending, Taken)
         /\ Unread' = Fifo!Run(Taken' - Pending', Taken')
<1>1. (IInv /\ ~torn => /\ Taken \in Nat /\ Pending \in Nat /\ Pending <= Taken
                        /\ Unread = Fifo!Run(Taken - Pending, Taken))'
  BY UnreadIsRun, PTL
<1>2. QED  BY <1>1, UnreadIsRun

\* A step after which nothing is unread empties the queue.
LEMMA Clears ==
  ASSUME IInv, IInv', ~torn, ~torn', Taken' = Taken, Pending' = 0, buf' = buf
  PROVE  Fifo!Next
<1>1. Unread' = Fifo!Run(Taken, Taken)
  BY UnreadBoth
<1>2. Fifo!Run(Taken, Taken) = <<>>
  <2>1. Taken \in Int
    BY UnreadBoth
  <2>2. Fifo!Run(Taken, Taken) \in Seq(Int) /\ Len(Fifo!Run(Taken, Taken)) = 0
    BY <2>1, RunSeq
  <2>3. QED  BY <2>2, EmptySeq
<1>3. QED
  BY <1>1, <1>2 DEF Fifo!Next, Fifo!Clear, Taken

\* A step that copies the first n unread bytes takes them from the queue.
LEMMA Gets ==
  ASSUME IInv, IInv', ~torn, ~torn', Taken' = Taken, NEW n \in Nat, 1 <= n,
         n <= Pending, Pending' = Pending - n,
         buf' = buf \o Fifo!Run(Taken - Pending, Taken - Pending + n)
  PROVE  Fifo!Next
<1> DEFINE a == Taken - Pending
<1>1. /\ a \in Int /\ Taken \in Int /\ a + n <= Taken /\ Taken - a = Pending
      /\ Taken' - Pending' = a + n /\ a <= Taken
  BY UnreadBoth
<1>2. Unread = Fifo!Run(a, Taken) /\ Unread' = Fifo!Run(a + n, Taken)
  BY <1>1, UnreadBoth
<1> HIDE DEF a
<1>3. Len(Unread) = Pending
  BY <1>1, <1>2, RunSeq
<1>4. SubSeq(Unread, 1, n) = Fifo!Run(a, a + n)
  BY <1>1, <1>2, RunSub
<1>5. SubSeq(Unread, n + 1, Len(Unread)) = Unread'
  <2>1. SubSeq(Fifo!Run(a, Taken), n + 1, Taken - a) = Fifo!Run(a + n, Taken)
    BY <1>1, RunSub
  <2>2. QED  BY <1>1, <1>2, <1>3, <2>1
<1>6. n \in 1 .. Len(Unread)
  BY <1>3, UnreadBoth
<1>7. buf' = buf \o SubSeq(Unread, 1, n)
  BY <1>4 DEF a
<1>8. Fifo!Get
  BY <1>5, <1>6, <1>7 DEF Fifo!Get, Taken
<1>9. QED
  BY <1>8 DEF Fifo!Next

\* A step after which more bytes count as delivered appends them.
LEMMA Puts ==
  ASSUME IInv, IInv', ~torn, ~torn', Taken' > Taken,
         Pending' = Pending + (Taken' - Taken), buf' = buf
  PROVE  Fifo!Next
<1> DEFINE a == Taken - Pending
<1>1. /\ a \in Int /\ Taken \in Int /\ Taken' \in Int /\ a <= Taken /\ Taken <= Taken'
      /\ Taken' - Pending' = a
  BY UnreadBoth
<1>2. Unread = Fifo!Run(a, Taken) /\ Unread' = Fifo!Run(a, Taken')
  BY <1>1, UnreadBoth
<1> HIDE DEF a
<1>3. Unread' = Unread \o Fifo!Run(Taken, Taken')
  BY <1>1, <1>2, RunConcat
<1>4. Fifo!Put
  BY <1>3 DEF Fifo!Put, Taken
<1>5. QED
  BY <1>4 DEF Fifo!Next

\* The fill thread: leaving a pause empties the queue, stepping m_writePtr puts
\* what read(2) returned, and the rest is invisible.
LEMMA FillRefines ==
  ASSUME IInv, IInv', ~torn, ~torn', Fill
  PROVE  Fifo!Next \/ UNCHANGED Fifo!vars
<1>1. UNCHANGED <<cpc, len, buf>>
  BY DEF Fill, FillTop, FillSetPaused, FillReset, FillUnpause, FillPoll, FillCheck,
     FillRoom, FillRead, FillAdvance, FillReadFails, FillAfter, FillExit, FillEnd,
     FillFrame, consumerVars
<1>2. CASE FillReset
  <2>1. m_used' = 0 /\ (cpc # "idle" => torn' = TRUE)
    BY <1>2, ResetRingDoes DEF IInv, TypeOK, FillReset
  <2>2. Pending' = 0
    BY <1>1, <2>1 DEF Pending
  <2>3. Taken' = Taken
    BY <1>2 DEF FillReset, Taken
  <2>4. QED  BY <1>1, <2>2, <2>3, Clears
<1>3. CASE FillAdvance
  <2>1. /\ m_used \in Nat /\ readLen \in Nat /\ readLen >= 1 /\ device \in Nat
        /\ m_used + readLen < Width /\ len \in Nat
    BY <1>3, SizesAssumption, BoundsAssumption
    DEF IInv, TypeOK, RingState, FillState, FillAdvance
  <2>2. m_used' = m_used + readLen
    BY <1>3, <2>1, Widths DEF FillAdvance, IncrWritePointer
  <2>3. Taken = device - readLen /\ Taken' = device
    BY <1>3 DEF FillAdvance, Taken
  <2>4. Taken' > Taken /\ Pending' = Pending + (Taken' - Taken)
    BY <1>1, <2>1, <2>2, <2>3 DEF Pending
  <2>5. QED  BY <1>1, <2>4, Puts
<1>4. CASE FillRead
  <2>1. PICK n \in 1 .. readSize : device' = device + n /\ readLen' = n
    BY <1>4 DEF FillRead
  <2>2. n \in Int /\ device \in Int
    BY SizesAssumption, BoundsAssumption DEF IInv, TypeOK
  <2>3. Taken' = Taken
    BY <1>4, <2>1, <2>2 DEF FillRead, Taken
  <2>4. Pending' = Pending
    BY <1>1, <1>4 DEF FillRead, Pending
  <2>5. QED  BY <1>1, <2>3, <2>4, Stutters
<1>5. CASE ~FillReset /\ ~FillAdvance /\ ~FillRead
  <2>1. UNCHANGED <<m_used, device>> /\ fpc # "advance" /\ fpc' # "advance"
    BY <1>5 DEF Fill, FillTop, FillSetPaused, FillUnpause, FillPoll, FillCheck,
       FillRoom, FillReadFails, FillAfter, FillExit, FillEnd, ringVars
  <2>2. Taken' = Taken /\ Pending' = Pending
    BY <1>1, <2>1 DEF Taken, Pending
  <2>3. QED  BY <1>1, <2>2, Stutters
<1>6. QED  BY <1>2, <1>3, <1>4, <1>5

\* The consumer: a memcpy gets bytes from the queue, stepping m_readPtr is
\* invisible.
LEMMA ConsumerRefines ==
  ASSUME IInv, IInv', ~torn, ~torn', Consumer
  PROVE  Fifo!Next \/ UNCHANGED Fifo!vars
<1>1. UNCHANGED <<device, readLen, fpc>>
  BY DEF Consumer, ReadBegin, ReadFirst, ReadFirstIncr, ReadRest, ReadRestIncr,
     ConsumerFrame, fillVars
<1>2. Taken' = Taken
  BY <1>1 DEF Taken
<1>3. /\ m_used \in Nat /\ m_readPtr \in Nat /\ readLen \in Nat /\ device \in Nat
      /\ len \in Nat /\ left \in Nat /\ m_size \in Nat \ {0} /\ m_readPtr < m_size
      /\ m_used + readLen <= m_size /\ left <= m_used /\ m_used < Width /\ Width \in Nat
  BY SizesAssumption, BoundsAssumption DEF IInv, TypeOK, RingState
<1>4. ASSUME NEW n \in Nat, 1 <= n, n <= m_used, m_readPtr + n <= m_size, Copy(n),
             cpc \notin {"incrFirst", "incrWhole"}, cpc' \in {"incrFirst", "incrWhole"},
             m_used' = m_used
      PROVE  Fifo!Next
  <2>1. Pending = m_used /\ Pending' = m_used - n
    BY <1>4 DEF Copy, Pending
  <2>2. Taken = device - readLen /\ Taken \in Nat
    BY UnreadIsRun
  <2>3. ASSUME NEW i \in 1 .. n
        PROVE  ring[m_readPtr + i - 1] = (Taken - m_used) + i
    <3>1. i - 1 \in 0 .. (m_used + readLen - 1)
      BY <1>3, <1>4
    <3>2. Cell(i - 1) = m_readPtr + i - 1
      BY <1>3, <1>4 DEF Cell
    <3>3. ring[Cell(i - 1)] = device - (m_used + readLen) + 1 + (i - 1)
      BY <3>1 DEF IInv, Contents
    <3>4. QED  BY <1>3, <2>2, <3>2, <3>3
  <2>4. [i \in 1 .. n |-> ring[m_readPtr + i - 1]]
          = Fifo!Run(Taken - Pending, Taken - Pending + n)
    <3>1. (Taken - Pending + n) - (Taken - Pending) = n
      BY <1>3, <2>1, <2>2
    <3>2. Fifo!Run(Taken - Pending, Taken - Pending + n)
            = [i \in 1 .. n |-> (Taken - m_used) + i]
      BY <2>1, <3>1 DEF Fifo!Run
    <3>3. QED  BY <2>3, <3>2
  <2>5. buf' = buf \o Fifo!Run(Taken - Pending, Taken - Pending + n)
    BY <1>4, <2>4 DEF Copy
  <2>6. QED  BY <1>2, <1>4, <2>1, <2>5, Gets
<1>5. ASSUME NEW count \in Counts, ReadBegin(count)
      PROVE  Fifo!Next
  <2>1. Pending' = Pending
    BY <1>5 DEF ReadBegin, Pending, ringVars
  <2>2. Unread' = Unread
    BY <1>2, <2>1, UnreadBoth
  <2>3. Fifo!Begin
    BY <1>2, <1>5, <2>2 DEF Fifo!Begin, ReadBegin, Taken
  <2>4. QED  BY <2>3 DEF Fifo!Next
<1>6. CASE ReadFirst
  <2>1. left >= 1 /\ m_readPtr + left > m_size
    BY <1>6 DEF IInv, ConsumerState, RingState, ReadFirst
  <2>2. QED
    BY <1>3, <1>4, <1>6, <2>1 DEF ReadFirst, ringVars
<1>7. CASE ReadRest
  <2>1. left >= 1 /\ m_readPtr + left <= m_size
    BY <1>7 DEF IInv, ConsumerState, ReadsInside, ReadRest
  <2>2. QED
    BY <1>3, <1>4, <1>7, <2>1 DEF ReadRest, ringVars
<1>8. CASE ReadFirstIncr \/ ReadRestIncr
  <2>1. cpc \in {"incrFirst", "incrWhole"} /\ cpc' \notin {"incrFirst", "incrWhole"}
    BY <1>8 DEF ReadFirstIncr, ReadRestIncr
  <2>2. len <= left
    BY <1>3, <2>1 DEF IInv, RingState, ConsumerState
  <2>3. m_used' = (m_used - len) % Width
    BY <1>8 DEF ReadFirstIncr, ReadRestIncr, IncrReadPointer
  <2>4. m_used' = m_used - len
    BY <1>3, <2>2, <2>3, Widths
  <2>5. Pending' = Pending
    BY <2>1, <2>4 DEF Pending
  <2>6. buf' = buf
    BY <1>8 DEF ReadFirstIncr, ReadRestIncr
  <2>7. QED  BY <1>2, <2>5, <2>6, Stutters
<1>9. QED  BY <1>5, <1>6, <1>7, <1>8 DEF Consumer

\* Control: Reset empties the queue, the other calls are invisible.
LEMMA ControlRefines ==
  ASSUME IInv, IInv', ~torn, ~torn', Control
  PROVE  Fifo!Next \/ UNCHANGED Fifo!vars
<1>1. UNCHANGED <<cpc, len, buf>>
  BY DEF Control, Calls, StartEncoding, StopEncoding, Delete, Begin, SetRequestPause,
     Reset, StartOver, Start, Stop, Join, ControlFrame, consumerVars
<1>2. CASE Reset
  <2>1. m_used' = 0 /\ (cpc # "idle" => torn' = TRUE)
    BY <1>2, ResetRingDoes DEF IInv, TypeOK, Reset
  <2>2. Pending' = 0
    BY <1>1, <2>1 DEF Pending
  <2>3. Taken' = Taken
    BY <1>2 DEF Reset, Taken, fillVars
  <2>4. QED  BY <1>1, <2>2, <2>3, Clears
<1>3. CASE ~Reset
  <2>1. UNCHANGED <<m_used, device, readLen>>
    BY <1>3 DEF Control, Calls, StartEncoding, StopEncoding, Delete, Begin,
       SetRequestPause, StartOver, Start, Stop, Join, ringVars, fillVars
  <2>2. CASE Start
    <3>1. fpc # "advance" /\ fpc' # "advance"
      BY <2>2 DEF IInv, FillState, Start
    <3>2. Taken' = Taken /\ Pending' = Pending
      BY <1>1, <2>1, <3>1 DEF Taken, Pending
    <3>3. QED  BY <1>1, <3>2, Stutters
  <2>3. CASE ~Start
    <3>1. UNCHANGED fpc
      BY <1>3, <2>3 DEF Control, Calls, StartEncoding, StopEncoding, Delete, Begin,
         SetRequestPause, StartOver, Stop, Join, fillVars
    <3>2. Taken' = Taken /\ Pending' = Pending
      BY <1>1, <2>1, <3>1 DEF Taken, Pending
    <3>3. QED  BY <1>1, <3>2, Stutters
  <2>4. QED  BY <2>2, <2>3
<1>4. QED  BY <1>2, <1>3

\* ImplementsFifo: the ring with its threads implements the queue of ByteFifo.
\* What Read copies is what the device delivered, in order and once, for every
\* size of ring and read, as long as no reset comes between the begin and the end
\* of a Read.
THEOREM RingImplementsFifo == Spec => ImplementsFifo
<1>1. Init => Fifo!Init
  <2> SUFFICES ASSUME Init
               PROVE  Fifo!Init
    OBVIOUS
  <2>1. IInv
    BY InitIInv
  <2>2. ~torn /\ Taken = 0 /\ Pending = 0 /\ buf = <<>> /\ torn = FALSE
    BY DEF Init, Taken, Pending
  <2>3. Unread = Fifo!Run(0, 0)
    BY <2>1, <2>2, UnreadIsRun
  <2>4. Fifo!Run(0, 0) = <<>>
    <3>1. Fifo!Run(0, 0) \in Seq(Int) /\ Len(Fifo!Run(0, 0)) = 0
      BY RunSeq
    <3>2. QED  BY <3>1, EmptySeq
  <2>5. QED  BY <2>2, <2>3, <2>4 DEF Fifo!Init, Taken
<1>2. IInv /\ IInv' /\ [Next]_vars => [Fifo!Next]_Fifo!vars
  <2> SUFFICES ASSUME IInv, IInv', [Next]_vars
               PROVE  Fifo!Next \/ UNCHANGED Fifo!vars
    OBVIOUS
  <2>1. CASE Next /\ torn'
    BY <2>1 DEF Fifo!Next
  <2>2. CASE Next /\ ~torn'
    <3>1. ~torn
      BY <2>2, TornStays
    <3>2. QED
      BY <2>2, <3>1, FillRefines, ConsumerRefines, ControlRefines DEF Next
  <2>3. CASE UNCHANGED vars
    BY <2>3 DEF vars, ringVars, fillVars, consumerVars, Fifo!vars, Unread
  <2>4. QED  BY <2>1, <2>2, <2>3
<1>3. QED
  BY <1>1, <1>2, Invariant, PTL DEF Spec, ImplementsFifo, Fifo!Spec
=============================================================================
