-------------------------- MODULE DeviceReadBuffer --------------------------
(***************************************************************************)
(* recorders/DeviceReadBuffer.cpp: a thread (fill) reads a capture device   *)
(* into a ring buffer, a recorder (consumer) takes bytes out with Read, and *)
(* a control thread pauses, resets, starts and stops.  In MpegRecorder the  *)
(* control calls are made by the consumer's own thread, in                  *)
(* V4L2encStreamHandler by other threads: `usage` tells which.              *)
(*                                                                          *)
(* Bytes are numbered in the order of the device.  Pointers are offsets     *)
(* from m_buffer; m_endPtr is m_size, and m_devReadSize bytes of slack      *)
(* follow it, so that read(2) may run past the end.                         *)
(***************************************************************************)
EXTENDS Integers, Sequences, FiniteSets

CONSTANTS
  m_size,            \* bytes in the ring
  m_devReadSize,     \* most bytes one read(2) asks for
  m_readQuanta,      \* one packet
  m_devBufferCount,  \* reads per round of the loop
  MaxErrors,         \* errcnt above which the thread gives up (5)
  Width,             \* m_used is a size_t: arithmetic modulo this
  Counts,            \* sizes Read is called with
  Usages,            \* who uses it: "MpegRecorder", "V4L2enc"
  MaxBytes,          \* bound: bytes the device delivers
  MaxCalls           \* bound: pauses, starts, stops and resets

ASSUME SizesAssumption ==
  /\ m_size \in Nat \ {0} /\ m_devReadSize \in Nat \ {0}
  /\ m_readQuanta \in Nat \ {0} /\ m_devBufferCount \in Nat \ {0}
  /\ m_devReadSize <= m_size
  /\ Width \in Nat /\ Width > 2 * m_size
  /\ Counts \subseteq 1 .. m_size
  /\ Usages \subseteq {"MpegRecorder", "V4L2enc"}

ASSUME BoundsAssumption ==
  MaxErrors \in Nat /\ MaxBytes \in Nat /\ MaxCalls \in Nat

VARIABLES
  usage,      \* never changes
  ring,       \* contents of m_buffer, slack included
  m_used, m_readPtr, m_writePtr,
  m_doRun, m_eof, m_error, m_requestPause, m_paused,
  running,    \* QThread::isRunning()
  fpc,        \* position of the fill thread
  cnt,        \* its loop counter
  readSize,   \* what its next read(2) asks for
  readLen,    \* what that read(2) returned
  errcnt,
  cpc,        \* position of the consumer in Read
  left,       \* bytes it still means to copy
  len,        \* bytes of the piece it copied last
  buf,        \* what it copied
  script,     \* calls the control thread still has to make
  calls,      \* sequences of calls it began
  encoding,   \* the recorder wants data
  device,     \* number of the last byte the device delivered
  torn        \* the ring was reset between the begin and the end of a Read

ringVars == <<ring, m_used, m_readPtr, m_writePtr>>
flagVars == <<m_doRun, m_eof, m_error, m_requestPause, m_paused, running>>
fillVars == <<fpc, cnt, readSize, readLen, errcnt, device>>
consumerVars == <<cpc, left, len, buf>>
controlVars == <<script, calls, encoding>>
vars == <<usage, ringVars, flagVars, fillVars, consumerVars, controlVars, torn>>

\* The consumer's thread makes the control calls too.
OwnControl == usage = "MpegRecorder"

Cells == 0 .. (m_size + m_devReadSize - 1)
Smaller(a, b) == IF a <= b THEN a ELSE b

TypeOK ==
  /\ usage \in Usages
  /\ ring \in [Cells -> 0 .. MaxBytes]
  /\ m_used \in 0 .. (Width - 1)
  /\ m_readPtr \in 0 .. (m_size - 1)
  /\ m_writePtr \in 0 .. (m_size - 1)
  /\ m_doRun \in BOOLEAN /\ m_eof \in BOOLEAN /\ m_error \in BOOLEAN
  /\ m_requestPause \in BOOLEAN /\ m_paused \in BOOLEAN /\ running \in BOOLEAN
  /\ fpc \in {"none", "top", "setPaused", "reset", "unpause", "poll", "check",
              "for", "read", "advance", "after", "exit", "end"}
  /\ cnt \in 0 .. m_devBufferCount
  /\ readSize \in 0 .. m_devReadSize
  /\ readLen \in 0 .. m_devReadSize
  /\ errcnt \in 0 .. (MaxErrors + 1)
  /\ device \in 0 .. MaxBytes
  /\ cpc \in {"idle", "whole", "split", "second", "incrWhole", "incrFirst"}
  /\ left \in 0 .. m_size
  /\ len \in 0 .. m_size
  /\ script \in Seq({"reset", "pause", "unpause", "start", "stop", "stopIfRunning",
                   "join", "deleted"})
  /\ encoding \in BOOLEAN
  /\ calls \in 0 .. MaxCalls
  /\ torn \in BOOLEAN

\* The constructor, then Setup.
Init ==
  /\ usage \in Usages
  /\ ring = [i \in Cells |-> 0]
  /\ m_used = 0 /\ m_readPtr = 0 /\ m_writePtr = 0
  /\ m_doRun = FALSE /\ m_eof = FALSE /\ m_error = FALSE
  /\ m_requestPause = FALSE /\ m_paused = FALSE /\ running = FALSE
  /\ fpc = "none" /\ cnt = 0 /\ readSize = 0 /\ readLen = 0 /\ errcnt = 0
  /\ device = 0
  /\ cpc = "idle" /\ left = 0 /\ len = 0 /\ buf = <<>>
  /\ script = <<>> /\ calls = 0 /\ encoding = FALSE
  /\ torn = FALSE

-----------------------------------------------------------------------------
(* The ring *)

\* Reset: the ring is empty, no error.  A Read in progress goes on with
\* numbers it took before.
ResetRing ==
  /\ m_used' = 0 /\ m_readPtr' = 0 /\ m_writePtr' = 0
  /\ m_error' = FALSE
  /\ torn' = (torn \/ cpc # "idle")
  /\ UNCHANGED ring

\* Slip: the comparison is off by one.
GetUnused_OffByOne == (m_size - m_used + 1) % Width

GetUnused == (m_size - m_used) % Width

IncrWritePointer(n) ==
  /\ m_used' = (m_used + n) % Width
  /\ m_writePtr' = IF m_writePtr + n >= m_size THEN m_writePtr + n - m_size
                                              ELSE m_writePtr + n

IncrReadPointer(n) ==
  /\ m_used' = (m_used - n) % Width
  /\ m_readPtr' = IF m_readPtr + n = m_size THEN 0 ELSE m_readPtr + n

-----------------------------------------------------------------------------
(* The fill thread: run().  Locals go back to 0 when they are no longer used. *)

FillFrame == UNCHANGED <<usage, consumerVars, controlVars>>

\* Slips: a pause is looked at before the request to stop; never looked at.
FillTop_PauseFirst ==
  /\ fpc = "top"
  /\ fpc' = CASE m_requestPause -> "setPaused"
              [] ~m_requestPause /\ ~m_doRun -> "exit"
              [] ~m_requestPause /\ m_doRun /\ m_paused -> "reset"
              [] OTHER -> "poll"
  /\ UNCHANGED <<ringVars, flagVars, cnt, readSize, readLen, errcnt, device, torn>>
  /\ FillFrame
\* The head of the loop and HandlePausing.
FillTop ==
  /\ fpc = "top"
  /\ fpc' = CASE ~m_doRun -> "exit"
              [] m_doRun /\ m_requestPause -> "setPaused"
              [] m_doRun /\ ~m_requestPause /\ m_paused -> "reset"
              [] OTHER -> "poll"
  /\ UNCHANGED <<ringVars, flagVars, cnt, readSize, readLen, errcnt, device, torn>>
  /\ FillFrame

FillSetPaused ==
  /\ fpc = "setPaused"
  /\ m_paused' = TRUE
  /\ fpc' = "top"
  /\ UNCHANGED <<ringVars, m_doRun, m_eof, m_error, m_requestPause, running,
                 cnt, readSize, readLen, errcnt, device, torn>>
  /\ FillFrame

FillReset ==
  /\ fpc = "reset"
  /\ ResetRing
  /\ fpc' = "unpause"
  /\ UNCHANGED <<m_doRun, m_eof, m_requestPause, m_paused, running,
                 cnt, readSize, readLen, errcnt, device>>
  /\ FillFrame

FillUnpause ==
  /\ fpc = "unpause"
  /\ m_paused' = FALSE
  /\ fpc' = "poll"
  /\ UNCHANGED <<ringVars, m_doRun, m_eof, m_error, m_requestPause, running,
                 cnt, readSize, readLen, errcnt, device, torn>>
  /\ FillFrame

\* Poll found data or a hang-up, gave up after m_maxPollWait or found the
\* descriptor invalid (m_error), or was told to pause or to stop.
FillPoll ==
  /\ fpc = "poll"
  /\ \/ fpc' = "check" /\ UNCHANGED m_error
     \/ fpc' = "check" /\ m_error' = TRUE
     \/ /\ ~m_doRun \/ m_requestPause
        /\ fpc' = "top" /\ UNCHANGED m_error
  /\ UNCHANGED <<ringVars, m_doRun, m_eof, m_requestPause, m_paused, running,
                 cnt, readSize, readLen, errcnt, device, torn>>
  /\ FillFrame

FillCheck ==
  /\ fpc = "check"
  /\ fpc' = IF m_error THEN "exit" ELSE "for"
  /\ UNCHANGED <<ringVars, flagVars, cnt, readSize, readLen, errcnt, device, torn>>
  /\ FillFrame

\* The head of the for loop; WaitForUnused, whose loop never runs because it
\* is asked for one quantum and entered with more than one.
FillRoom ==
  /\ fpc = "for"
  /\ IF m_doRun /\ cnt < m_devBufferCount
       THEN LET stop == GetUnused > m_readQuanta /\ (m_requestPause \/ ~m_doRun)
                size == IF stop THEN 0 ELSE Smaller(m_devReadSize, GetUnused)
            IN  /\ readSize' = size
                /\ fpc' = IF size > 0 THEN "read" ELSE "for"
                /\ cnt' = IF size > 0 THEN cnt ELSE cnt + 1
       ELSE fpc' = "after" /\ cnt' = 0 /\ UNCHANGED readSize
  /\ UNCHANGED <<ringVars, flagVars, readLen, errcnt, device, torn>>
  /\ FillFrame

\* Slip: what went past the end is not brought to the start.
Filled_NoCopy(n) ==
  [i \in Cells |-> IF i >= m_writePtr /\ i < m_writePtr + n
                     THEN device + 1 + i - m_writePtr ELSE ring[i]]

\* The ring after read(2) put n bytes at m_writePtr and memcpy brought to the
\* start what went past the end.
Filled(n) ==
  LET past == m_writePtr + n - m_size
  IN  [i \in Cells |->
         CASE i < past -> device + 1 + (m_size - m_writePtr) + i
           [] i >= m_writePtr /\ i < m_writePtr + n -> device + 1 + i - m_writePtr
           [] OTHER -> ring[i]]

\* read(2) returned 1 to read_size bytes.
FillRead ==
  /\ fpc = "read"
  /\ \E n \in 1 .. readSize :
       /\ device + n <= MaxBytes
       /\ ring' = Filled(n)
       /\ readLen' = n
       /\ device' = device + n
  /\ errcnt' = 0
  /\ readSize' = 0
  /\ fpc' = "advance"
  /\ UNCHANGED <<m_used, m_readPtr, m_writePtr, flagVars, cnt, torn>>
  /\ FillFrame

FillAdvance ==
  /\ fpc = "advance"
  /\ IncrWritePointer(readLen)
  /\ cnt' = cnt + 1
  /\ readLen' = 0
  /\ fpc' = "for"
  /\ UNCHANGED <<ring, m_readPtr, flagVars, readSize, errcnt, device, torn>>
  /\ FillFrame

\* CheckForErrors found something: interrupted, try again or overflow (no
\* change); an error or a length that cannot be (m_error when there are too
\* many); the end of the file (m_eof when there are too many).
FillReadFails ==
  /\ fpc = "read"
  /\ \/ UNCHANGED <<errcnt, m_error, m_eof>>
     \/ /\ errcnt' = errcnt + 1
        /\ \/ m_error' = (m_error \/ errcnt' > MaxErrors) /\ UNCHANGED m_eof
           \/ m_eof' = (m_eof \/ errcnt' > MaxErrors) /\ UNCHANGED m_error
  /\ readSize' = 0 /\ cnt' = 0
  /\ fpc' = "after"
  /\ UNCHANGED <<ringVars, m_doRun, m_requestPause, m_paused, running,
                 readLen, device, torn>>
  /\ FillFrame

FillAfter ==
  /\ fpc = "after"
  /\ fpc' = IF errcnt > MaxErrors THEN "exit" ELSE "top"
  /\ UNCHANGED <<ringVars, flagVars, cnt, readSize, readLen, errcnt, device, torn>>
  /\ FillFrame

\* Slip: m_eof is left as it is.
FillExit_Silent ==
  /\ fpc = "exit"
  /\ fpc' = "end"
  /\ UNCHANGED <<ringVars, flagVars, cnt, readSize, readLen, errcnt, device, torn>>
  /\ FillFrame

\* After the loop: everybody who waits is told that this is the end.
FillExit ==
  /\ fpc = "exit"
  /\ m_eof' = TRUE
  /\ fpc' = "end"
  /\ UNCHANGED <<ringVars, m_doRun, m_error, m_requestPause, m_paused, running,
                 cnt, readSize, readLen, errcnt, device, torn>>
  /\ FillFrame

\* run() returns.
FillEnd ==
  /\ fpc = "end"
  /\ running' = FALSE
  /\ fpc' = "none"
  /\ UNCHANGED <<ringVars, m_doRun, m_eof, m_error, m_requestPause, m_paused,
                 cnt, readSize, readLen, errcnt, device, torn>>
  /\ FillFrame

Fill ==
  \/ FillTop \/ FillSetPaused \/ FillReset \/ FillUnpause \/ FillPoll
  \/ FillCheck \/ FillRoom \/ FillRead \/ FillAdvance \/ FillReadFails
  \/ FillAfter \/ FillExit \/ FillEnd

-----------------------------------------------------------------------------
(* The consumer: Read *)

ConsumerFrame == UNCHANGED <<usage, flagVars, fillVars, controlVars, torn>>

\* WaitForUsed returns what there is, after 20 ms at the latest, so at any
\* time; then Read decides whether it copies in two pieces.  Here and below
\* m_readPtr is read without the lock.
ReadBegin(count) ==
  /\ cpc = "idle"
  /\ IF OwnControl THEN script = <<>> ELSE encoding
  /\ LET n == Smaller(count, m_used)
     IN  /\ n > 0
         /\ left' = n
         /\ cpc' = IF m_readPtr + n > m_size THEN "split" ELSE "whole"
  /\ buf' = <<>>
  /\ UNCHANGED <<ringVars, len>>
  /\ ConsumerFrame

\* memcpy of n bytes from m_readPtr.
Copy(n) ==
  /\ len' = n
  /\ buf' = buf \o [i \in 1 .. n |-> ring[m_readPtr + i - 1]]

\* The piece up to the end of the ring.
ReadFirst ==
  /\ cpc = "split"
  /\ Copy(m_size - m_readPtr)
  /\ cpc' = "incrFirst"
  /\ UNCHANGED <<ringVars, left>>
  /\ ConsumerFrame

\* Its pointer; the rest follows only if there is one.
ReadFirstIncr ==
  /\ cpc = "incrFirst"
  /\ IncrReadPointer(len)
  /\ cpc' = IF left > len THEN "second" ELSE "idle"
  /\ left' = IF left > len THEN left - len ELSE 0
  /\ len' = 0
  /\ UNCHANGED <<ring, m_writePtr, buf>>
  /\ ConsumerFrame

\* The rest, or all of it when one piece is enough.
ReadRest ==
  /\ cpc \in {"second", "whole"}
  /\ Copy(left)
  /\ cpc' = "incrWhole"
  /\ UNCHANGED <<ringVars, left>>
  /\ ConsumerFrame

ReadRestIncr ==
  /\ cpc = "incrWhole"
  /\ IncrReadPointer(len)
  /\ cpc' = "idle"
  /\ left' = 0 /\ len' = 0
  /\ UNCHANGED <<ring, m_writePtr, buf>>
  /\ ConsumerFrame

Consumer ==
  \/ \E count \in Counts : ReadBegin(count)
  \/ ReadFirst \/ ReadFirstIncr \/ ReadRest \/ ReadRestIncr

-----------------------------------------------------------------------------
(* Control: the recorder starts and stops the encoder *)

ControlFrame == UNCHANGED <<usage, consumerVars>>

\* A sequence of calls begins: between two Reads if one thread makes both.
Begin ==
  /\ script = <<>>
  /\ OwnControl => cpc = "idle"
  /\ calls < MaxCalls
  /\ calls' = calls + 1
  /\ UNCHANGED <<ringVars, flagVars, fillVars, torn>>
  /\ ControlFrame

\* Slip: old data is left in the ring.
StartEncoding_NoReset ==
  /\ ~encoding
  /\ Begin
  /\ script' = <<"unpause", "start">>
  /\ UNCHANGED encoding

\* The calls MpegRecorder and V4L2encStreamHandler make to start the encoder; the
\* latter counts itself as streaming only at the end.
StartEncoding ==
  /\ ~encoding
  /\ Begin
  /\ script' = IF OwnControl THEN <<"reset", "unpause", "start">>
                             ELSE <<"unpause", "start">>
  /\ UNCHANGED encoding

\* The calls made to stop it; MpegRecorder stops the thread too.
StopEncoding ==
  /\ encoding
  /\ Begin
  /\ script' = IF OwnControl THEN <<"pause", "stopIfRunning">> ELSE <<"pause">>
  /\ encoding' = FALSE

\* The destructor; nothing follows.
Delete ==
  /\ Begin
  /\ script' = <<"stop", "deleted">>
  /\ encoding' = FALSE

\* The next call of the script is c.
Do(c) == script # <<>> /\ Head(script) = c
Done == script' = Tail(script) /\ UNCHANGED calls

SetRequestPause ==
  /\ Do("pause") \/ Do("unpause")
  /\ m_requestPause' = Do("pause")
  /\ Done
  /\ UNCHANGED <<ringVars, m_doRun, m_eof, m_error, m_paused, running, fillVars,
                 encoding, torn>>
  /\ ControlFrame

Reset ==
  /\ Do("reset")
  /\ ResetRing
  /\ Done
  /\ UNCHANGED <<m_doRun, m_eof, m_requestPause, m_paused, running, fillVars, encoding>>
  /\ ControlFrame

\* Start with a thread that runs, or ended by itself: tell it to end ...
StartOver ==
  /\ Do("start")
  /\ running \/ m_doRun
  /\ m_doRun' = FALSE
  /\ script' = <<"join">> \o script
  /\ UNCHANGED <<ringVars, m_eof, m_error, m_requestPause, m_paused, running,
                 fillVars, calls, encoding, torn>>
  /\ ControlFrame

\* ... and without one.  start() makes isRunning() true before it returns, and the
\* new thread needs m_lock, which Start holds until it has seen that: its wait
\* never waits.
Start ==
  /\ Do("start")
  /\ ~running /\ ~m_doRun
  /\ m_doRun' = TRUE /\ m_error' = FALSE /\ m_eof' = FALSE
  /\ running' = TRUE
  /\ fpc' = "top"
  /\ errcnt' = 0
  /\ encoding' = TRUE
  /\ Done
  /\ UNCHANGED <<ringVars, m_requestPause, m_paused, cnt, readSize, readLen, device, torn>>
  /\ ControlFrame

Stop ==
  /\ Do("stop") \/ Do("stopIfRunning")
  /\ IF running \/ (m_doRun /\ Do("stop"))
       THEN m_doRun' = FALSE /\ script' = <<"join">> \o Tail(script)
       ELSE script' = Tail(script) /\ UNCHANGED m_doRun
  /\ UNCHANGED <<ringVars, m_eof, m_error, m_requestPause, m_paused, running,
                 fillVars, calls, encoding, torn>>
  /\ ControlFrame

\* wait(): the thread has ended.
Join ==
  /\ Do("join")
  /\ ~running
  /\ Done
  /\ UNCHANGED <<ringVars, flagVars, fillVars, encoding, torn>>
  /\ ControlFrame

Calls == SetRequestPause \/ Reset \/ StartOver \/ Start \/ Stop \/ Join

Control == StartEncoding \/ StopEncoding \/ Delete \/ Calls

Next == Fill \/ Consumer \/ Control

Spec == Init /\ [][Next]_vars

\* The fill thread is scheduled and its calls of poll(2) and read(2) return
\* (timeouts, O_NONBLOCK); a Read that began goes on; control calls that
\* began go on.  Nobody need begin a call.
FairSpec ==
  /\ Spec
  /\ WF_vars(Fill)
  /\ WF_vars(ReadFirst \/ ReadFirstIncr \/ ReadRest \/ ReadRestIncr)
  /\ WF_vars(Calls)

-----------------------------------------------------------------------------
(* Properties *)

\* The bytes between the pointers, oldest first, without those Read has copied
\* and not yet stepped over.
Unread ==
  LET used == [i \in 1 .. m_used |-> ring[(m_readPtr + i - 1) % m_size]]
  IN  IF cpc \in {"incrFirst", "incrWhole"} THEN SubSeq(used, len + 1, m_used) ELSE used

Fifo == INSTANCE ByteFifo
          WITH next <- IF fpc = "advance" THEN device - readLen ELSE device,
               queue <- Unread,
               buf <- buf,
               broken <- torn

\* The buffer implements the queue of ByteFifo: what Read copies is what the
\* device delivered, in order and once, through wrap-around, short reads, reads
\* into the slack behind the ring, errors, pauses and restarts, as long as no
\* reset comes between the begin and the end of a Read.
ImplementsFifo == Fifo!Spec

\* memcpy in Read stays inside the ring, even if a reset overtook it.
ReadsInside ==
  cpc \in {"whole", "second"} => m_readPtr + left <= m_size

\* Pointers and fill level agree, there is room for the read(2) in progress
\* although the fill thread computed it before and without the lock, and no copy
\* leaves the ring.
RingAgrees ==
  /\ TypeOK
  /\ ReadsInside
  /\ torn \/ /\ m_used <= m_size
             /\ (m_readPtr + m_used) % m_size = m_writePtr
             /\ fpc = "read" => m_used + readSize <= m_size
             /\ fpc = "advance" => m_used + readLen <= m_size

\* In MpegRecorder's use no reset ever meets a Read.
OwnControlNeverTears == OwnControl => ~torn

\* A thread that ended by itself (too many errors, end of file, poll error) has
\* announced it, so that the recorder, which polls IsEOF, does not wait for ever.
EndAnnounced == m_doRun /\ ~running => m_eof

\* Start and Stop return, and a requested pause is entered unless it is withdrawn
\* or the thread ends.
ControlReturns ==
  /\ script # <<>> ~> script \in {<<>>, <<"deleted">>}
  /\ m_requestPause /\ running ~> m_paused \/ ~m_requestPause \/ ~running
=============================================================================
