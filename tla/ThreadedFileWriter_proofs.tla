---------------------- MODULE ThreadedFileWriter_proofs ----------------------
(***************************************************************************)
(* The safety properties of ThreadedFileWriter, for every buffer size,     *)
(* every client and every number of faults.                                *)
(***************************************************************************)
EXTENDS ThreadedFileWriter, SequenceTheorems, TLAPS

InHand == dpc \in {"write", "wrote", "giveUp"}

Leaving == {"dtorFlag", "dtorJoin", "dtorJoinSync", "gone"}

\* Who holds m_bufLock where, and what each place in the code may rely on.
Control ==
  /\ bufLock = "client" <=> pc = "write"
  /\ bufLock = "disk" <=> dpc = "top"
  /\ pc \in {"write", "writeWait"} => left > 0
  /\ pc \in Leaving => Empty
  /\ pc \in {"dtorJoinSync", "gone"} =>
       dpc \in {"none", "done"} /\ m_emptyBuffers = 0
  /\ ~InHand => cur.lo = cur.hi
  /\ ~m_registered => registry = {}

\* Why a buffer is given up.
Blame ==
  /\ InHand /\ Size(cur) > 0 /\ m_fd = NoFile => disturbed
  /\ dpc = "write" => Size(cur) > 0
  /\ InHand /\ (errcnt > 0 \/ fatal) => faults > 0 \/ disturbed
  /\ dpc = "giveUp" => errcnt >= MaxTries \/ fatal

IInv ==
  /\ TypeOK /\ Control /\ Blame
  /\ StreamOrder /\ Conservation /\ BufferUse /\ WithinLimit
  /\ NoBufferLeak /\ RegistryCurrent /\ LossExplained

\* What a file holds after write(2) is a sequence of byte numbers and holes.
LEMMA OverwriteType ==
  ASSUME NEW c \in Seq(Nat), NEW p \in Nat, NEW lo \in Nat, NEW n \in Nat
  PROVE  Overwrite(c, p, lo, n) \in Seq(Nat)
  <1> DEFINE len == IF Len(c) > p + n THEN Len(c) ELSE p + n
  <1> DEFINE f == [i \in 1 .. len |->
                     IF p < i /\ i <= p + n THEN lo + (i - p)
                     ELSE IF i <= Len(c) THEN c[i] ELSE 0]
  <1>1. len \in Nat
    OBVIOUS
  <1> HIDE DEF len
  <1>2. \A i \in 1 .. len : (IF p < i /\ i <= p + n THEN lo + (i - p)
                             ELSE IF i <= Len(c) THEN c[i] ELSE 0) \in Nat
    BY <1>1
  <1>3. f \in Seq(Nat)
    BY <1>1, <1>2
  <1> QED BY <1>3 DEF Overwrite, len

\* The ends of a run are naturals.
LEMMA RunFields == \A r \in Run : r.lo \in Nat /\ r.hi \in Nat
  BY DEF Run

\* DiskLoop takes the first buffer of a chain.
LEMMA ChainTail ==
  ASSUME NEW s \in Seq(Run), NEW a \in Nat, NEW z \in Nat,
         s # <<>>, Chain(s, a, z)
  PROVE  /\ Head(s).lo = a /\ a < Head(s).hi /\ Head(s).hi <= z
         /\ Chain(Tail(s), Head(s).hi, z)
  <1> DEFINE t == Tail(s)
             h == Head(s)
  <1>1. /\ h = s[1] /\ Len(s) \in Nat \ {0} /\ t \in Seq(Run) /\ Len(t) = Len(s) - 1
        /\ \A i \in 1 .. Len(t) : t[i] = s[i + 1]
    BY HeadTailProperties, EmptySeq
  <1> HIDE DEF t, h
  <1>2. t = <<>> <=> Len(s) = 1
    <2>1. t = <<>> <=> Len(t) = 0
      BY <1>1, EmptySeq
    <2> QED BY <1>1, <2>1
  <1>3. h.lo = a /\ a < h.hi /\ h.hi <= z
    BY <1>1 DEF Chain
  <1>4. ASSUME NEW i \in 1 .. Len(t)
        PROVE  /\ t[i].lo < t[i].hi /\ t[i].hi <= z
               /\ t[i].lo = IF i = 1 THEN h.hi ELSE t[i - 1].hi
    <2>1. i + 1 \in 1 .. Len(s) /\ i + 1 # 1 /\ (i + 1) - 1 = i
      BY <1>1
    <2>2. s[i + 1].lo < s[i + 1].hi /\ s[i + 1].hi <= z /\ s[i + 1].lo = s[i].hi
      BY <2>1 DEF Chain
    <2>3. i # 1 => i - 1 \in 1 .. Len(t) /\ (i - 1) + 1 = i
      BY <1>1
    <2>4. i # 1 => t[i - 1] = s[i]
      BY <1>1, <2>3
    <2> QED BY <1>1, <2>2, <2>4
  <1>5. z = IF t = <<>> THEN h.hi ELSE t[Len(t)].hi
    <2>1. z = s[Len(s)].hi
      BY DEF Chain, Last
    <2>2. t # <<>> => t[Len(t)] = s[Len(s)]
      BY <1>1, <1>2
    <2> QED BY <1>1, <1>2, <2>1, <2>2
  <1>6. Chain(t, h.hi, z)
    BY <1>3, <1>4, <1>5 DEF Chain, Last
  <1> QED BY <1>3, <1>6 DEF t, h

\* Write appends a buffer to a chain ...
LEMMA ChainAppend ==
  ASSUME NEW s \in Seq(Run), NEW a \in Nat, NEW z \in Nat, NEW n \in Nat,
         n > 0, Chain(s, a, z)
  PROVE  /\ Append(s, [lo |-> z, hi |-> z + n]) \in Seq(Run)
         /\ Append(s, [lo |-> z, hi |-> z + n]) # <<>>
         /\ Len(Append(s, [lo |-> z, hi |-> z + n])) = Len(s) + 1
         /\ Chain(Append(s, [lo |-> z, hi |-> z + n]), a, z + n)
  <1> DEFINE e == [lo |-> z, hi |-> z + n]
             t == Append(s, e)
  <1>1. e \in Run /\ e.lo = z /\ e.hi = z + n
    BY DEF Run
  <1> HIDE DEF e
  <1>2. /\ t \in Seq(Run) /\ t # <<>> /\ Len(t) = Len(s) + 1
        /\ \A i \in 1 .. Len(s) : t[i] = s[i]
        /\ t[Len(s) + 1] = e
    BY <1>1, AppendProperties
  <1>3. Len(s) \in Nat /\ (s = <<>> <=> Len(s) = 0)
    BY EmptySeq
  <1> HIDE DEF t
  <1>4. ASSUME NEW i \in 1 .. Len(t)
        PROVE  /\ t[i].lo < t[i].hi /\ t[i].hi <= z + n
               /\ t[i].lo = IF i = 1 THEN a ELSE t[i - 1].hi
    <2>1. CASE i \in 1 .. Len(s)
      <3>1. /\ s[i].lo < s[i].hi /\ s[i].hi <= z
            /\ s[i].lo = IF i = 1 THEN a ELSE s[i - 1].hi
        BY <2>1 DEF Chain
      <3>2. s[i].hi \in Nat
        BY <2>1, ElementOfSeq, RunFields
      <3>3. i # 1 => i - 1 \in 1 .. Len(s)
        BY <2>1, <1>3
      <3> QED BY <2>1, <1>2, <3>1, <3>2, <3>3
    <2>2. CASE i = Len(s) + 1
      <3>1. z = IF Len(s) = 0 THEN a ELSE s[Len(s)].hi
        BY <1>3 DEF Chain, Last
      <3> QED BY <2>2, <1>1, <1>2, <1>3, <3>1
    <2> QED BY <2>1, <2>2, <1>2, <1>3
  <1>5. a <= z + n
    BY DEF Chain
  <1>6. Chain(t, a, z + n)
    BY <1>1, <1>2, <1>4, <1>5 DEF Chain, Last
  <1> QED BY <1>2, <1>6 DEF t, e

\* ... or a block to its last buffer.
LEMMA ChainExtend ==
  ASSUME NEW s \in Seq(Run), NEW a \in Nat, NEW z \in Nat, NEW n \in Nat,
         n > 0, Chain(s, a, z), s # <<>>, NEW t,
         t = [s EXCEPT ![Len(s)] = [lo |-> @.lo, hi |-> @.hi + n]]
  PROVE  /\ t \in Seq(Run) /\ t # <<>> /\ Len(t) = Len(s)
         /\ Chain(t, a, z + n)
  <1> DEFINE L == Len(s)
             b == s[L]
             e == [lo |-> b.lo, hi |-> b.hi + n]
  <1>1. L \in Nat /\ L > 0 /\ L \in 1 .. L
    BY EmptySeq
  <1>2. b \in Run
    BY <1>1, ElementOfSeq
  <1>3. b.hi = z /\ b.lo < b.hi
    BY <1>1 DEF Chain, Last
  <1>4. b.lo \in Nat /\ b.hi \in Nat
    BY <1>2, RunFields
  <1>5. e \in Run /\ e.lo = b.lo /\ e.hi = z + n
    BY <1>3, <1>4 DEF Run
  <1>6. t = [s EXCEPT ![L] = e]
    OBVIOUS
  <1> HIDE DEF e
  <1>7. /\ t \in Seq(Run) /\ Len(t) = L
        /\ \A j \in 1 .. L : t[j] = IF j = L THEN e ELSE s[j]
    BY <1>1, <1>5, <1>6, ExceptSeq
  <1>8. t # <<>>
    BY <1>1, <1>7, EmptySeq
  <1>9. ASSUME NEW i \in 1 .. Len(t)
        PROVE  /\ t[i].lo < t[i].hi /\ t[i].hi <= z + n
               /\ t[i].lo = IF i = 1 THEN a ELSE t[i - 1].hi
    <2>1. /\ s[i].lo < s[i].hi /\ s[i].hi <= z
          /\ s[i].lo = IF i = 1 THEN a ELSE s[i - 1].hi
      BY <1>7 DEF Chain
    <2>2. s[i].hi \in Nat /\ s[i].lo \in Nat
      BY <1>7, ElementOfSeq, RunFields
    <2>3. i # 1 => i - 1 \in 1 .. L /\ i - 1 # L
      BY <1>1, <1>7
    <2>4. i # 1 => t[i - 1] = s[i - 1]
      BY <1>7, <2>3
    <2>5. CASE i = L
      BY <2>5, <1>3, <1>4, <1>5, <1>7, <2>1, <2>4
    <2>6. CASE i # L
      BY <2>6, <1>7, <2>1, <2>2, <2>4
    <2> QED BY <2>5, <2>6
  <1>10. a <= z + n
    BY DEF Chain
  <1>11. Chain(t, a, z + n)
    BY <1>5, <1>7, <1>1, <1>8, <1>9, <1>10 DEF Chain, Last
  <1> QED BY <1>7, <1>8, <1>11

USE SizesAssumption, BoundsAssumption
USE DEF Run, Size, Empty, Last, InHand, Leaving, WakeHasData, TrimEmptyBuffers,
        AtTop, InWriteLoop, clientVars, diskVars, fileVars, flagVars, bufVars,
        regVars, streamVars, lossVars

\* OpenRegister preserves the invariant.
LEMMA OpenRegisterStep == ASSUME IInv, OpenRegister PROVE IInv'
  <1> USE DEF IInv, OpenRegister, TypeOK
  <1>1. TypeOK'
    BY DEF FlagTypes, PlaceTypes, CountTypes, BufferTypes, FileTypes
  <1>2. Control' /\ Blame'
    BY DEF FlagTypes, PlaceTypes, CountTypes, BufferTypes, FileTypes, Control, Blame
  <1>3. StreamOrder' /\ Conservation' /\ BufferUse' /\ WithinLimit'
    BY DEF StreamOrder, Conservation, BufferUse, WithinLimit
  <1>4. NoBufferLeak' /\ RegistryCurrent' /\ LossExplained'
    BY DEF PlaceTypes, Control, NoBufferLeak, RegistryCurrent, LossExplained
  <1> QED BY <1>1, <1>2, <1>3, <1>4

\* WriteBegin preserves the invariant.
LEMMA WriteBeginStep == ASSUME NEW n \in 1..MaxCount, IInv, WriteBegin(n) PROVE IInv'
  <1> USE DEF IInv, WriteBegin, TypeOK
  <1>1. TypeOK'
    BY DEF FlagTypes, PlaceTypes, CountTypes, BufferTypes, FileTypes
  <1>2. Control' /\ Blame'
    BY DEF FlagTypes, PlaceTypes, CountTypes, BufferTypes, FileTypes, Control, Blame
  <1>3. StreamOrder' /\ Conservation' /\ BufferUse' /\ WithinLimit'
    BY DEF StreamOrder, Conservation, BufferUse, WithinLimit
  <1>4. NoBufferLeak' /\ RegistryCurrent' /\ LossExplained'
    BY DEF PlaceTypes, Control, NoBufferLeak, RegistryCurrent, LossExplained
  <1> QED BY <1>1, <1>2, <1>3, <1>4

\* WriteOverflow preserves the invariant.
LEMMA WriteOverflowStep == ASSUME IInv, WriteOverflow PROVE IInv'
  <1> USE DEF IInv, WriteOverflow, TypeOK
  <1>1. TypeOK'
    BY DEF FlagTypes, PlaceTypes, CountTypes, BufferTypes, FileTypes
  <1>2. Control' /\ Blame'
    BY DEF FlagTypes, PlaceTypes, CountTypes, BufferTypes, FileTypes, Control, Blame
  <1>3. StreamOrder' /\ Conservation' /\ BufferUse' /\ WithinLimit'
    BY DEF StreamOrder, Conservation, BufferUse, WithinLimit
  <1>4. NoBufferLeak' /\ RegistryCurrent' /\ LossExplained'
    BY DEF PlaceTypes, Control, NoBufferLeak, RegistryCurrent, LossExplained
  <1> QED BY <1>1, <1>2, <1>3, <1>4

\* WriteBlocked preserves the invariant.
LEMMA WriteBlockedStep == ASSUME IInv, WriteBlocked PROVE IInv'
  <1> USE DEF IInv, WriteBlocked, TypeOK
  <1>1. TypeOK'
    BY DEF FlagTypes, PlaceTypes, CountTypes, BufferTypes, FileTypes
  <1>2. Control' /\ Blame'
    BY DEF FlagTypes, PlaceTypes, CountTypes, BufferTypes, FileTypes, Control, Blame
  <1>3. StreamOrder' /\ Conservation' /\ BufferUse' /\ WithinLimit'
    BY DEF StreamOrder, Conservation, BufferUse, WithinLimit
  <1>4. NoBufferLeak' /\ RegistryCurrent' /\ LossExplained'
    BY DEF PlaceTypes, Control, NoBufferLeak, RegistryCurrent, LossExplained
  <1> QED BY <1>1, <1>2, <1>3, <1>4

\* Call preserves the invariant.
LEMMA CallStep == ASSUME NEW o \in {"Flush","Seek","ReOpen","Dtor"}, IInv, Call(o) PROVE IInv'
  <1> USE DEF IInv, Call, TypeOK
  <1>1. TypeOK'
    BY DEF FlagTypes, PlaceTypes, CountTypes, BufferTypes, FileTypes
  <1>2. Control' /\ Blame'
    BY DEF FlagTypes, PlaceTypes, CountTypes, BufferTypes, FileTypes, Control, Blame
  <1>3. StreamOrder' /\ Conservation' /\ BufferUse' /\ WithinLimit'
    BY DEF StreamOrder, Conservation, BufferUse, WithinLimit
  <1>4. NoBufferLeak' /\ RegistryCurrent' /\ LossExplained'
    BY DEF PlaceTypes, Control, NoBufferLeak, RegistryCurrent, LossExplained
  <1> QED BY <1>1, <1>2, <1>3, <1>4

\* FlushWait preserves the invariant.
LEMMA FlushWaitStep == ASSUME IInv, FlushWait PROVE IInv'
  <1> USE DEF IInv, FlushWait, TypeOK
  <1>1. TypeOK'
    BY DEF FlagTypes, PlaceTypes, CountTypes, BufferTypes, FileTypes, Flushed
  <1>2. Control' /\ Blame'
    BY DEF FlagTypes, PlaceTypes, CountTypes, BufferTypes, FileTypes, Control, Blame, Flushed
  <1>3. StreamOrder' /\ Conservation' /\ BufferUse' /\ WithinLimit'
    BY DEF StreamOrder, Conservation, BufferUse, WithinLimit, Flushed
  <1>4. NoBufferLeak' /\ RegistryCurrent' /\ LossExplained'
    BY DEF PlaceTypes, Control, NoBufferLeak, RegistryCurrent, LossExplained, Flushed
  <1> QED BY <1>1, <1>2, <1>3, <1>4

\* ReOpenClose preserves the invariant.
LEMMA ReOpenCloseStep == ASSUME IInv, ReOpenClose PROVE IInv'
  <1> USE DEF IInv, ReOpenClose, TypeOK
  <1>1. TypeOK'
    BY DEF FlagTypes, PlaceTypes, CountTypes, BufferTypes, FileTypes
  <1>2. Control' /\ Blame'
    BY DEF FlagTypes, PlaceTypes, CountTypes, BufferTypes, FileTypes, Control, Blame
  <1>3. StreamOrder' /\ Conservation' /\ BufferUse' /\ WithinLimit'
    BY DEF StreamOrder, Conservation, BufferUse, WithinLimit
  <1>4. NoBufferLeak' /\ RegistryCurrent' /\ LossExplained'
    BY DEF PlaceTypes, Control, NoBufferLeak, RegistryCurrent, LossExplained
  <1> QED BY <1>1, <1>2, <1>3, <1>4

\* DtorFlag preserves the invariant.
LEMMA DtorFlagStep == ASSUME IInv, DtorFlag PROVE IInv'
  <1> USE DEF IInv, DtorFlag, TypeOK
  <1>1. TypeOK'
    BY DEF FlagTypes, PlaceTypes, CountTypes, BufferTypes, FileTypes
  <1>2. Control' /\ Blame'
    BY DEF FlagTypes, PlaceTypes, CountTypes, BufferTypes, FileTypes, Control, Blame
  <1>3. StreamOrder' /\ Conservation' /\ BufferUse' /\ WithinLimit'
    BY DEF StreamOrder, Conservation, BufferUse, WithinLimit
  <1>4. NoBufferLeak' /\ RegistryCurrent' /\ LossExplained'
    BY DEF PlaceTypes, Control, NoBufferLeak, RegistryCurrent, LossExplained
  <1> QED BY <1>1, <1>2, <1>3, <1>4

\* SetBlocking preserves the invariant.
LEMMA SetBlockingStep == ASSUME IInv, SetBlocking PROVE IInv'
  <1> USE DEF IInv, SetBlocking, TypeOK
  <1>1. TypeOK'
    BY DEF FlagTypes, PlaceTypes, CountTypes, BufferTypes, FileTypes
  <1>2. Control' /\ Blame'
    BY DEF FlagTypes, PlaceTypes, CountTypes, BufferTypes, FileTypes, Control, Blame
  <1>3. StreamOrder' /\ Conservation' /\ BufferUse' /\ WithinLimit'
    BY DEF StreamOrder, Conservation, BufferUse, WithinLimit
  <1>4. NoBufferLeak' /\ RegistryCurrent' /\ LossExplained'
    BY DEF PlaceTypes, Control, NoBufferLeak, RegistryCurrent, LossExplained
  <1> QED BY <1>1, <1>2, <1>3, <1>4

\* SetWriteBufferMinWriteSize preserves the invariant.
LEMMA SetWriteBufferMinWriteSizeStep == ASSUME IInv, SetWriteBufferMinWriteSize PROVE IInv'
  <1> USE DEF IInv, SetWriteBufferMinWriteSize, TypeOK
  <1>1. TypeOK'
    BY DEF FlagTypes, PlaceTypes, CountTypes, BufferTypes, FileTypes
  <1>2. Control' /\ Blame'
    BY DEF FlagTypes, PlaceTypes, CountTypes, BufferTypes, FileTypes, Control, Blame
  <1>3. StreamOrder' /\ Conservation' /\ BufferUse' /\ WithinLimit'
    BY DEF StreamOrder, Conservation, BufferUse, WithinLimit
  <1>4. NoBufferLeak' /\ RegistryCurrent' /\ LossExplained'
    BY DEF PlaceTypes, Control, NoBufferLeak, RegistryCurrent, LossExplained
  <1> QED BY <1>1, <1>2, <1>3, <1>4

\* MinWriteTimer preserves the invariant.
LEMMA MinWriteTimerStep == ASSUME IInv, MinWriteTimer PROVE IInv'
  <1> USE DEF IInv, MinWriteTimer, TypeOK
  <1>1. TypeOK'
    BY DEF FlagTypes, PlaceTypes, CountTypes, BufferTypes, FileTypes
  <1>2. Control' /\ Blame'
    BY DEF FlagTypes, PlaceTypes, CountTypes, BufferTypes, FileTypes, Control, Blame
  <1>3. StreamOrder' /\ Conservation' /\ BufferUse' /\ WithinLimit'
    BY DEF StreamOrder, Conservation, BufferUse, WithinLimit
  <1>4. NoBufferLeak' /\ RegistryCurrent' /\ LossExplained'
    BY DEF PlaceTypes, Control, NoBufferLeak, RegistryCurrent, LossExplained
  <1> QED BY <1>1, <1>2, <1>3, <1>4

\* SyncTop preserves the invariant.
LEMMA SyncTopStep == ASSUME IInv, SyncTop PROVE IInv'
  <1> USE DEF IInv, SyncTop, TypeOK
  <1>1. TypeOK'
    BY DEF FlagTypes, PlaceTypes, CountTypes, BufferTypes, FileTypes
  <1>2. Control' /\ Blame'
    BY DEF FlagTypes, PlaceTypes, CountTypes, BufferTypes, FileTypes, Control, Blame
  <1>3. StreamOrder' /\ Conservation' /\ BufferUse' /\ WithinLimit'
    BY DEF StreamOrder, Conservation, BufferUse, WithinLimit
  <1>4. NoBufferLeak' /\ RegistryCurrent' /\ LossExplained'
    BY DEF PlaceTypes, Control, NoBufferLeak, RegistryCurrent, LossExplained
  <1> QED BY <1>1, <1>2, <1>3, <1>4

\* The limit in blocking mode is no larger than the other.
LEMMA LimitBound ==
  ASSUME m_blocking \in BOOLEAN
  PROVE  Limit \in Nat /\ Limit <= kMaxBufferSize * NonBlockingScale
  <1>1. kMaxBufferSize * 1 <= kMaxBufferSize * NonBlockingScale
    OBVIOUS
  <1> QED BY <1>1 DEF Limit

\* OpenReset preserves the invariant.
LEMMA OpenResetStep == ASSUME IInv, OpenReset PROVE IInv'
  <1> USE DEF IInv, OpenReset, TypeOK
  <1>1. FlagTypes'
    BY Zenon DEF FlagTypes
  <1>2. PlaceTypes' /\ CountTypes' /\ BufferTypes' /\ FileTypes'
    BY DEF PlaceTypes, CountTypes, BufferTypes, FileTypes
  <1>3. Control' /\ Blame'
    BY DEF PlaceTypes, CountTypes, Control, Blame
  <1>4. StreamOrder' /\ Conservation' /\ BufferUse' /\ WithinLimit'
    BY DEF StreamOrder, Conservation, BufferUse, WithinLimit
  <1>5. NoBufferLeak' /\ RegistryCurrent' /\ LossExplained'
    BY DEF NoBufferLeak, RegistryCurrent, LossExplained
  <1> QED BY <1>1, <1>2, <1>3, <1>4, <1>5

\* OpenFile preserves the invariant.
LEMMA OpenFileStep == ASSUME IInv, OpenFile PROVE IInv'
  <1> USE DEF IInv, OpenFile, TypeOK
  <1>1. FlagTypes' /\ PlaceTypes' /\ CountTypes' /\ BufferTypes'
    BY DEF FlagTypes, PlaceTypes, CountTypes, BufferTypes
  <1>2. FileTypes'
    <2>1. <<>> \in Seq(Nat)
      OBVIOUS
    <2>2. file' \in [Files -> Seq(Nat)]
      BY <2>1 DEF FileTypes
    <2> QED BY <2>2 DEF FileTypes
  <1>3. Control' /\ Blame'
    BY DEF PlaceTypes, CountTypes, BufferTypes, FileTypes, Control, Blame
  <1>4. StreamOrder' /\ Conservation' /\ BufferUse' /\ WithinLimit'
    BY DEF StreamOrder, Conservation, BufferUse, WithinLimit
  <1>5. NoBufferLeak' /\ RegistryCurrent' /\ LossExplained'
    BY DEF PlaceTypes, Control, NoBufferLeak, RegistryCurrent, LossExplained
  <1> QED BY <1>1, <1>2, <1>3, <1>4, <1>5

\* FlushDone preserves the invariant.
LEMMA FlushDoneStep == ASSUME IInv, FlushDone PROVE IInv'
  <1> USE DEF IInv, FlushDone, Flushed, TypeOK
  <1>1. FlagTypes'
    BY DEF FlagTypes, BufferTypes
  <1>2. PlaceTypes' /\ CountTypes' /\ BufferTypes' /\ FileTypes'
    BY DEF PlaceTypes, CountTypes, BufferTypes, FileTypes
  <1>3. Control' /\ Blame'
    BY DEF PlaceTypes, CountTypes, BufferTypes, FileTypes, Control, Blame
  <1>4. StreamOrder' /\ Conservation' /\ BufferUse' /\ WithinLimit'
    BY DEF StreamOrder, Conservation, BufferUse, WithinLimit
  <1>5. NoBufferLeak' /\ RegistryCurrent' /\ LossExplained'
    BY DEF PlaceTypes, Control, NoBufferLeak, RegistryCurrent, LossExplained
  <1> QED BY <1>1, <1>2, <1>3, <1>4, <1>5

\* DtorDeleteBuffers preserves the invariant.
LEMMA DtorDeleteBuffersStep == ASSUME IInv, DtorDeleteBuffers PROVE IInv'
  <1> USE DEF IInv, DtorDeleteBuffers, TypeOK
  <1>1. m_writeBuffers' = m_writeBuffers
    BY DEF Control
  <1>2. allocated' = 0
    BY DEF Control, NoBufferLeak, CountTypes
  <1>3. TypeOK'
    BY <1>1, <1>2 DEF FlagTypes, PlaceTypes, CountTypes, BufferTypes, FileTypes
  <1>4. Control' /\ Blame'
    BY <1>1 DEF PlaceTypes, Control, Blame
  <1>5. StreamOrder' /\ Conservation' /\ BufferUse' /\ WithinLimit'
    BY <1>1 DEF StreamOrder, Conservation, BufferUse, WithinLimit
  <1>6. NoBufferLeak' /\ RegistryCurrent' /\ LossExplained'
    BY <1>1, <1>2 DEF Control, NoBufferLeak, RegistryCurrent, LossExplained
  <1> QED BY <1>3, <1>4, <1>5, <1>6

\* DtorClose preserves the invariant.
LEMMA DtorCloseStep == ASSUME IInv, DtorClose PROVE IInv'
  <1> USE DEF IInv, DtorClose, TypeOK
  <1>1. FlagTypes'
    BY Zenon DEF FlagTypes
  <1>2. PlaceTypes' /\ CountTypes' /\ BufferTypes' /\ FileTypes'
    BY DEF PlaceTypes, CountTypes, BufferTypes, FileTypes
  <1>3. registry' = {}
    BY DEF RegistryCurrent
  <1>4. Control' /\ Blame'
    BY <1>3 DEF PlaceTypes, CountTypes, BufferTypes, Control, Blame
  <1>5. StreamOrder' /\ Conservation' /\ BufferUse' /\ WithinLimit'
    BY DEF StreamOrder, Conservation, BufferUse, WithinLimit
  <1>6. NoBufferLeak' /\ RegistryCurrent' /\ LossExplained'
    BY <1>3 DEF PlaceTypes, Control, NoBufferLeak, RegistryCurrent, LossExplained
  <1> QED BY <1>1, <1>2, <1>4, <1>5, <1>6

\* What TrimEmptyBuffers deletes it takes off the count of buffers.
LEMMA TrimCounts ==
  ASSUME IInv, TrimEmptyBuffers
  PROVE  /\ m_emptyBuffers' \in Nat /\ allocated' \in Nat
         /\ allocated' - m_emptyBuffers' = allocated - m_emptyBuffers
         /\ m_emptyBuffers' <= m_emptyBuffers
  BY DEF IInv, TypeOK, CountTypes, BufferTypes, NoBufferLeak

\* DiskExit preserves the invariant.
LEMMA DiskExitStep == ASSUME IInv, DiskExit PROVE IInv'
  <1> USE DEF IInv, DiskExit, TypeOK
  <1>0. /\ m_emptyBuffers' \in Nat /\ allocated' \in Nat
        /\ allocated' - m_emptyBuffers' = allocated - m_emptyBuffers
        /\ m_emptyBuffers' <= m_emptyBuffers
    BY TrimCounts
  <1>1. TypeOK'
    BY <1>0 DEF FlagTypes, PlaceTypes, CountTypes, BufferTypes, FileTypes
  <1>2. Control' /\ Blame'
    BY <1>0 DEF PlaceTypes, CountTypes, BufferTypes, Control, Blame
  <1>3. StreamOrder' /\ Conservation' /\ BufferUse' /\ WithinLimit'
    BY DEF StreamOrder, Conservation, BufferUse, WithinLimit
  <1>4. NoBufferLeak'
    BY <1>0 DEF PlaceTypes, CountTypes, BufferTypes, Control, NoBufferLeak
  <1>5. RegistryCurrent' /\ LossExplained'
    BY DEF RegistryCurrent, LossExplained
  <1> QED BY <1>1, <1>2, <1>3, <1>4, <1>5

\* DiskWait preserves the invariant.
LEMMA DiskWaitStep == ASSUME IInv, DiskWait PROVE IInv'
  <1> USE DEF IInv, DiskWait, TypeOK
  <1>0. /\ m_emptyBuffers' \in Nat /\ allocated' \in Nat
        /\ allocated' - m_emptyBuffers' = allocated - m_emptyBuffers
        /\ m_emptyBuffers' <= m_emptyBuffers
    BY TrimCounts
  <1>1. TypeOK'
    BY <1>0 DEF FlagTypes, PlaceTypes, CountTypes, BufferTypes, FileTypes
  <1>2. Control' /\ Blame'
    BY <1>0 DEF PlaceTypes, CountTypes, BufferTypes, Control, Blame
  <1>3. StreamOrder' /\ Conservation' /\ BufferUse' /\ WithinLimit'
    BY DEF StreamOrder, Conservation, BufferUse, WithinLimit
  <1>4. NoBufferLeak'
    BY <1>0 DEF PlaceTypes, CountTypes, BufferTypes, Control, NoBufferLeak
  <1>5. RegistryCurrent' /\ LossExplained'
    BY DEF RegistryCurrent, LossExplained
  <1> QED BY <1>1, <1>2, <1>3, <1>4, <1>5

\* DiskDiscard preserves the invariant.
LEMMA DiskDiscardStep == ASSUME IInv, DiskDiscard PROVE IInv'
  <1>1. /\ allocated \in Nat /\ m_emptyBuffers \in Nat /\ lost \in Nat
        /\ accepted \in Nat /\ written \in Nat /\ m_totalBufferUse \in Nat
        /\ m_writeBuffers \in Seq(Run) /\ Len(m_writeBuffers) \in Nat
        /\ cur.lo \in Nat /\ cur.hi \in Nat
    BY DEF IInv, TypeOK, CountTypes, BufferTypes
  <1>2. ~InHand /\ cur.lo = cur.hi /\ cur.hi <= accepted
        /\ (Empty => accepted = cur.hi)
    BY DEF DiskDiscard, IInv, Control, StreamOrder, Chain
  <1>3. /\ cur' = [lo |-> accepted, hi |-> accepted] /\ cur' \in Run
        /\ lost' = lost + (accepted - cur.hi) /\ lost' \in Nat
        /\ m_writeBuffers' = <<>> /\ m_emptyBuffers' = 0
        /\ UNCHANGED <<accepted, written, m_totalBufferUse>>
    BY <1>1, <1>2 DEF DiskDiscard
  <1>4. allocated' = 0
    <2>1. allocated = Len(m_writeBuffers) + m_emptyBuffers
      BY <1>1, <1>2 DEF IInv, NoBufferLeak
    <2>2. allocated' = allocated - Len(m_writeBuffers) - m_emptyBuffers
      BY DEF DiskDiscard
    <2> QED BY <1>1, <2>1, <2>2
  <1>5. FlagTypes' /\ PlaceTypes' /\ FileTypes'
    BY DEF DiskDiscard, IInv, TypeOK, FlagTypes, PlaceTypes, FileTypes
  <1>6. CountTypes' /\ BufferTypes'
    BY <1>3, <1>4 DEF DiskDiscard, IInv, TypeOK, CountTypes, BufferTypes
  <1>7. Control' /\ Blame'
    BY <1>3 DEF DiskDiscard, IInv, TypeOK, PlaceTypes, Control, Blame
  <1>8. StreamOrder'
    BY <1>1, <1>3 DEF StreamOrder, Chain
  <1>9. Conservation'
    BY <1>1, <1>2, <1>3 DEF IInv, Conservation
  <1>10. BufferUse'
    <2>1. CASE Empty
      <3>1. dropped' = dropped /\ accepted = cur.hi
        BY <2>1, <1>2 DEF DiskDiscard, IInv, TypeOK, FlagTypes
      <3> QED BY <3>1, <1>1, <1>3 DEF IInv, BufferUse
    <2>2. CASE ~Empty
      <3>1. dropped'
        BY <2>2 DEF DiskDiscard
      <3> QED BY <3>1, <1>1, <1>3 DEF BufferUse
    <2> QED BY <2>1, <2>2
  <1>11. WithinLimit'
    BY <1>3 DEF IInv, WithinLimit
  <1>12. NoBufferLeak'
    BY <1>3, <1>4 DEF DiskDiscard, NoBufferLeak
  <1>13. RegistryCurrent'
    BY DEF DiskDiscard, IInv, RegistryCurrent
  <1>14. LossExplained'
    <2>1. CASE Empty
      <3>1. lost' = lost /\ dropped' = dropped
        BY <2>1, <1>1, <1>2, <1>3 DEF DiskDiscard, IInv, TypeOK, FlagTypes
      <3> QED BY <3>1 DEF DiskDiscard, IInv, LossExplained
    <2>2. CASE ~Empty
      BY <2>2 DEF DiskDiscard, LossExplained
    <2> QED BY <2>1, <2>2
  <1> QED BY <1>5, <1>6, <1>7, <1>8, <1>9, <1>10, <1>11, <1>12, <1>13, <1>14
          DEF IInv, TypeOK

\* WriteFails preserves the invariant.
LEMMA WriteFailsStep == ASSUME IInv, WriteFails PROVE IInv'
  <1> USE DEF IInv, WriteFails, TypeOK
  <1>1. FlagTypes'
    BY DEF FlagTypes
  <1>2. PlaceTypes' /\ CountTypes'
    BY DEF PlaceTypes, CountTypes
  <1>3. BufferTypes' /\ FileTypes'
    BY DEF BufferTypes, FileTypes
  <1>4. Control' /\ Blame'
    BY DEF PlaceTypes, CountTypes, BufferTypes, Control, Blame
  <1>5. StreamOrder' /\ Conservation' /\ BufferUse' /\ WithinLimit'
    BY DEF StreamOrder, Conservation, BufferUse, WithinLimit
  <1>6. NoBufferLeak' /\ RegistryCurrent'
    BY DEF PlaceTypes, Control, NoBufferLeak, RegistryCurrent
  <1>7. LossExplained'
    BY DEF CountTypes, LossExplained
  <1> QED BY <1>1, <1>2, <1>3, <1>4, <1>5, <1>6, <1>7

\* DiskRetry preserves the invariant.
LEMMA DiskRetryStep == ASSUME IInv, DiskRetry PROVE IInv'
  <1> USE DEF IInv, DiskRetry, BufferDone, TypeOK
  <1>1. TypeOK'
    BY DEF FlagTypes, PlaceTypes, CountTypes, BufferTypes, FileTypes
  <1>2. Control' /\ Blame'
    BY DEF PlaceTypes, CountTypes, BufferTypes, Control, Blame, StreamOrder
  <1>3. StreamOrder' /\ Conservation' /\ BufferUse' /\ WithinLimit'
    BY DEF StreamOrder, Conservation, BufferUse, WithinLimit
  <1>4. NoBufferLeak' /\ RegistryCurrent' /\ LossExplained'
    BY DEF PlaceTypes, Control, NoBufferLeak, RegistryCurrent, LossExplained
  <1> QED BY <1>1, <1>2, <1>3, <1>4

\* SyncPass preserves the invariant.
LEMMA SyncPassStep == ASSUME IInv, SyncPass PROVE IInv'
  <1> USE DEF IInv, SyncPass, TypeOK
  <1>1. FlagTypes'
    BY Zenon DEF FlagTypes
  <1>2. PlaceTypes' /\ CountTypes' /\ BufferTypes' /\ FileTypes'
    BY DEF PlaceTypes, CountTypes, BufferTypes, FileTypes
  <1>3. Control' /\ Blame'
    BY DEF PlaceTypes, Control, Blame, RegistryCurrent
  <1>4. StreamOrder' /\ Conservation' /\ BufferUse' /\ WithinLimit'
    BY DEF StreamOrder, Conservation, BufferUse, WithinLimit
  <1>5. NoBufferLeak' /\ RegistryCurrent' /\ LossExplained'
    BY DEF PlaceTypes, Control, NoBufferLeak, RegistryCurrent, LossExplained
  <1> QED BY <1>1, <1>2, <1>3, <1>4, <1>5

\* WriteSome preserves the invariant.
LEMMA WriteSomeStep == ASSUME IInv, WriteSome PROVE IInv'
  <1> USE DEF IInv, WriteSome, Advanced, TypeOK
  <1> PICK n \in 1 .. Size(cur) :
        /\ file' = [file EXCEPT ![m_fd] = Overwrite(@, offset, cur.lo, n)]
        /\ offset' = offset + n
        /\ cur' = [lo |-> cur.lo + n, hi |-> cur.hi]
        /\ written' = written + n
    OBVIOUS
  <1>0. cur' \in Run /\ cur'.lo = cur.lo + n /\ cur'.hi = cur.hi
        /\ cur'.lo <= cur'.hi /\ n \in Nat
    BY DEF BufferTypes
  <1>1. FlagTypes' /\ PlaceTypes'
    BY DEF FlagTypes, PlaceTypes
  <1>2. CountTypes' /\ BufferTypes'
    BY <1>0 DEF CountTypes, BufferTypes
  <1>3. FileTypes'
    <2>1. Overwrite(file[m_fd], offset, cur.lo, n) \in Seq(Nat)
      BY <1>0, OverwriteType DEF FileTypes, BufferTypes
    <2> QED BY <1>0, <2>1 DEF FileTypes
  <1>4. Control' /\ Blame'
    BY <1>0 DEF PlaceTypes, CountTypes, BufferTypes, Control, Blame
  <1>5. StreamOrder'
    BY <1>0 DEF StreamOrder
  <1>6. Conservation'
    BY <1>0 DEF CountTypes, BufferTypes, Conservation
  <1>7. BufferUse' /\ WithinLimit'
    BY <1>0 DEF BufferUse, WithinLimit
  <1>8. NoBufferLeak' /\ RegistryCurrent' /\ LossExplained'
    BY DEF PlaceTypes, Control, NoBufferLeak, RegistryCurrent, LossExplained
  <1> QED BY <1>1, <1>2, <1>3, <1>4, <1>5, <1>6, <1>7, <1>8

\* DiskFinish preserves the invariant.
LEMMA DiskFinishStep == ASSUME IInv, DiskFinish PROVE IInv'
  <1> USE DEF IInv, DiskFinish, BufferDone, TypeOK
  <1>0. cur' \in Run /\ cur'.lo = cur.hi /\ cur'.hi = cur.hi
        /\ cur.lo <= cur.hi /\ Size(cur) \in Nat
    BY DEF BufferTypes, StreamOrder
  <1>1. FlagTypes'
    BY DEF FlagTypes
  <1>2. PlaceTypes'
    BY DEF PlaceTypes
  <1>3. CountTypes' /\ BufferTypes'
    BY <1>0 DEF CountTypes, BufferTypes
  <1>4. FileTypes'
    BY DEF FileTypes
  <1>5. Control'
    BY <1>0 DEF PlaceTypes, Control
  <1>6. Blame'
    BY DEF PlaceTypes, Blame
  <1>7. StreamOrder' /\ Conservation'
    BY <1>0 DEF CountTypes, BufferTypes, StreamOrder, Conservation
  <1>8. BufferUse' /\ WithinLimit'
    BY <1>0 DEF BufferUse, WithinLimit
  <1>9. NoBufferLeak'
    <2>1. allocated = Len(m_writeBuffers) + m_emptyBuffers + 1
      BY DEF NoBufferLeak
    <2>2. pc # "gone"
      BY DEF Control
    <2>3. Len(m_writeBuffers) \in Nat
      BY DEF BufferTypes
    <2> QED BY <2>1, <2>2, <2>3 DEF CountTypes, NoBufferLeak
  <1>10. RegistryCurrent'
    BY DEF Control, RegistryCurrent
  <1>11. LossExplained'
    <2>1. CASE lost' > lost
      <3>1. m_inDtor \/ dpc = "giveUp"
        BY <2>1, <1>0 DEF CountTypes
      <3>2. dpc = "giveUp" => faults > 0 \/ disturbed
        BY DEF Blame, CountTypes
      <3> QED BY <3>1, <3>2 DEF LossExplained
    <2>2. CASE lost' = lost
      BY <2>2 DEF LossExplained
    <2> QED BY <2>1, <2>2, <1>0 DEF CountTypes
  <1> QED BY <1>1, <1>2, <1>3, <1>4, <1>5, <1>6, <1>7, <1>8, <1>9, <1>10,
          <1>11

\* The block Write appends is not empty.
LEMMA TowriteBounds ==
  ASSUME left \in Nat, left > 0
  PROVE  Towrite \in Nat /\ Towrite > 0 /\ Towrite <= left
  BY DEF Towrite

\* Either way Write appends its block to the end of the stream.
LEMMA EnqueuedChain ==
  ASSUME IInv, left > 0
  PROVE  /\ Enqueued \in Seq(Run) /\ Enqueued # <<>>
         /\ Len(Enqueued) = Len(m_writeBuffers) + (IF Extends THEN 0 ELSE 1)
         /\ Chain(Enqueued, cur.hi, accepted + Towrite)
  <1> DEFINE s == m_writeBuffers
             a == cur.hi
             z == accepted
             n == Towrite
             e == Enqueued
  <1>1. /\ s \in Seq(Run) /\ a \in Nat /\ z \in Nat /\ Chain(s, a, z)
        /\ n \in Nat /\ n > 0 /\ Len(s) \in Nat
    BY TowriteBounds
       DEF IInv, TypeOK, CountTypes, BufferTypes, StreamOrder
  <1>2. Extends => /\ s # <<>>
                   /\ e = [s EXCEPT ![Len(s)] = [lo |-> @.lo, hi |-> @.hi + n]]
    BY DEF Enqueued, Extends
  <1>3. ~Extends => e = Append(s, [lo |-> z, hi |-> z + n])
    BY DEF Enqueued
  <1> HIDE DEF Run, s, a, z, n, e
  <1>4. Extends => /\ e \in Seq(Run) /\ e # <<>> /\ Len(e) = Len(s)
                   /\ Chain(e, a, z + n)
    BY <1>1, <1>2, ChainExtend
  <1>5. ~Extends => /\ e \in Seq(Run) /\ e # <<>> /\ Len(e) = Len(s) + 1
                    /\ Chain(e, a, z + n)
    <2> DEFINE t == Append(s, [lo |-> z, hi |-> z + n])
    <2> HIDE SizesAssumption, BoundsAssumption
    <2>1. t \in Seq(Run) /\ t # <<>> /\ Len(t) = Len(s) + 1 /\ Chain(t, a, z + n)
      BY <1>1, ChainAppend
    <2> HIDE DEF t
    <2>2. ~Extends => e = t
      BY <1>3 DEF t
    <2> QED BY <2>1, <2>2
  <1> QED BY <1>1, <1>4, <1>5 DEF s, a, z, n, e

\* WriteBlock preserves the invariant.
LEMMA WriteBlockStep == ASSUME IInv, WriteBlock PROVE IInv'
  <1> USE DEF IInv, WriteBlock, TypeOK
  <1>0. left \in Nat /\ left > 0
    BY DEF InWriteLoop, CountTypes, Control
  <1>1. Towrite \in Nat /\ Towrite > 0 /\ Towrite <= left
    BY <1>0, TowriteBounds
  <1>2. /\ m_writeBuffers' \in Seq(Run) /\ m_writeBuffers' # <<>>
        /\ Len(m_writeBuffers') =
             Len(m_writeBuffers) + (IF Extends THEN 0 ELSE 1)
        /\ Chain(m_writeBuffers', cur.hi, accepted + Towrite)
    BY <1>0, EnqueuedChain
  <1>3. FlagTypes' /\ PlaceTypes'
    BY DEF FlagTypes, PlaceTypes
  <1>4. CountTypes' /\ BufferTypes'
    BY <1>1, <1>2 DEF CountTypes, BufferTypes
  <1>5. FileTypes'
    <2> DEFINE S == [file : Files, pos : Nat]
               t == [i \in 1 .. Towrite |-> [file |-> m_filename, pos |-> cpos + i]]
    <2>1. t \in Seq(S) /\ Len(t) = Towrite
      BY <1>1 DEF FileTypes, CountTypes
    <2>2. want' = want \o t /\ want \in Seq(S)
      BY DEF FileTypes
    <2> HIDE DEF t, S
    <2>3. want' \in Seq(S) /\ Len(want') = Len(want) + Towrite
      BY <2>1, <2>2, ConcatProperties
    <2> QED BY <2>3 DEF FileTypes, S
  <1>6. Control'
    BY <1>1, <1>2 DEF PlaceTypes, CountTypes, Control, InWriteLoop
  <1>7. Blame'
    BY DEF PlaceTypes, Blame
  <1>8. StreamOrder'
    BY <1>2 DEF StreamOrder
  <1>9. Conservation'
    BY DEF Conservation
  <1>10. BufferUse'
    <2>1. /\ accepted' = accepted + Towrite /\ cur' = cur /\ dropped' = dropped
          /\ m_totalBufferUse' = m_totalBufferUse + Towrite
      OBVIOUS
    <2>2. accepted \in Nat /\ cur.hi \in Nat /\ m_totalBufferUse \in Nat
      BY DEF CountTypes, BufferTypes
    <2>3. BufferUse
      OBVIOUS
    <2> HIDE DEF IInv, WriteBlock, TypeOK
    <2> QED BY <1>1, <2>1, <2>2, <2>3 DEF BufferUse
  <1>11. WithinLimit'
    BY <1>1, LimitBound DEF WithinLimit, Overflows, CountTypes, FlagTypes
  <1>12. NoBufferLeak'
    <2>1. Len(m_writeBuffers) \in Nat /\ Len(m_writeBuffers') \in Nat
      BY <1>2 DEF BufferTypes
    <2>2. /\ Extends => /\ Len(m_writeBuffers') = Len(m_writeBuffers)
                        /\ allocated' = allocated
                        /\ m_emptyBuffers' = m_emptyBuffers
          /\ ~Extends => /\ Len(m_writeBuffers') = Len(m_writeBuffers) + 1
                         /\ allocated' - m_emptyBuffers' =
                              allocated - m_emptyBuffers + 1
      BY <1>2, <2>1 DEF CountTypes
    <2>3. (InHand <=> InHand') /\ pc' # "gone"
      BY DEF PlaceTypes
    <2>4. /\ allocated \in Nat /\ allocated' \in Nat
          /\ m_emptyBuffers \in Nat /\ m_emptyBuffers' \in Nat
      BY <1>4 DEF CountTypes
    <2>5. allocated = Len(m_writeBuffers) + m_emptyBuffers
                      + (IF InHand THEN 1 ELSE 0)
      BY DEF NoBufferLeak
    <2>6. allocated' = Len(m_writeBuffers') + m_emptyBuffers'
                       + (IF InHand' THEN 1 ELSE 0)
      <3> HIDE DEF WriteBlock, IInv, TypeOK, InHand
      <3>1. CASE Extends
        BY <3>1, <2>1, <2>2, <2>3, <2>4, <2>5
      <3>2. CASE ~Extends
        BY <3>2, <2>1, <2>2, <2>3, <2>4, <2>5
      <3> QED BY <3>1, <3>2
    <2> QED BY <2>3, <2>6 DEF NoBufferLeak
  <1>13. RegistryCurrent' /\ LossExplained'
    BY DEF RegistryCurrent, LossExplained, InWriteLoop
  <1> QED BY <1>3, <1>4, <1>5, <1>6, <1>7, <1>8, <1>9, <1>10, <1>11, <1>12, <1>13

\* DiskTake preserves the invariant.
LEMMA DiskTakeStep == ASSUME IInv, DiskTake PROVE IInv'
  <1> USE DEF IInv, DiskTake, NoFd, TypeOK
  <1>0. /\ m_emptyBuffers' \in Nat /\ allocated' \in Nat
        /\ allocated' - m_emptyBuffers' = allocated - m_emptyBuffers
        /\ m_emptyBuffers' <= m_emptyBuffers
    BY TrimCounts
  <1>1. /\ m_writeBuffers \in Seq(Run) /\ m_writeBuffers # <<>>
        /\ Len(m_writeBuffers) \in Nat /\ cur.hi \in Nat /\ accepted \in Nat
        /\ Chain(m_writeBuffers, cur.hi, accepted)
        /\ cur' = Head(m_writeBuffers) /\ m_writeBuffers' = Tail(m_writeBuffers)
    BY DEF BufferTypes, CountTypes, StreamOrder
  <1>2. cur.lo = cur.hi
    BY DEF Control
  <1>3. /\ cur' \in Run /\ m_writeBuffers' \in Seq(Run)
        /\ Len(m_writeBuffers') = Len(m_writeBuffers) - 1
        /\ cur'.lo = cur.hi /\ cur'.lo < cur'.hi /\ cur'.hi <= accepted
        /\ Chain(m_writeBuffers', cur'.hi, accepted)
    <2> HIDE DEF Run, DiskTake
    <2> QED BY <1>1, ChainTail, HeadTailProperties
  <1>4. /\ m_totalBufferUse' = m_totalBufferUse - (cur'.hi - cur'.lo)
    BY <1>1 DEF UseAfterTake
  <1>5. m_totalBufferUse' \in Nat /\ m_totalBufferUse' <= m_totalBufferUse
        /\ m_totalBufferUse' >= accepted - cur'.hi
    BY <1>1, <1>3, <1>4 DEF BufferUse, CountTypes, BufferTypes
  <1>6. FlagTypes'
    BY Zenon DEF FlagTypes
  <1>7. PlaceTypes' /\ FileTypes'
    BY DEF PlaceTypes, FileTypes
  <1>8. CountTypes' /\ BufferTypes'
    BY <1>0, <1>3, <1>5 DEF CountTypes, BufferTypes
  <1>9. Control' /\ Blame'
    <2>1. pc \notin Leaving
      BY <1>1 DEF Control
    <2> QED BY <2>1, <1>1, <1>3 DEF PlaceTypes, BufferTypes, Control, Blame
  <1>10. StreamOrder'
    BY <1>3, RunFields DEF StreamOrder
  <1>11. Conservation'
    BY <1>2, <1>3 DEF Conservation
  <1>12. BufferUse'
    BY <1>1, <1>3, <1>4, <1>5 DEF BufferUse, CountTypes, BufferTypes
  <1>13. WithinLimit'
    BY <1>5 DEF WithinLimit, CountTypes
  <1>14. NoBufferLeak'
    <2>1. allocated = Len(m_writeBuffers) + m_emptyBuffers
      <3>1. ~InHand
        OBVIOUS
      <3>2. allocated = Len(m_writeBuffers) + m_emptyBuffers
                        + (IF InHand THEN 1 ELSE 0)
        BY DEF NoBufferLeak
      <3>3. m_emptyBuffers \in Nat
        BY DEF CountTypes
      <3> QED BY <3>1, <3>2, <3>3, <1>1
    <2>2. pc' # "gone"
      BY <1>1 DEF Control
    <2>3. m_emptyBuffers \in Nat /\ allocated \in Nat
      BY DEF CountTypes
    <2>4. allocated' = Len(m_writeBuffers') + m_emptyBuffers' + 1
      BY <1>0, <1>1, <1>3, <2>1, <2>3
    <2> QED BY <2>2, <2>4 DEF NoBufferLeak
  <1>15. RegistryCurrent' /\ LossExplained'
    BY DEF RegistryCurrent, LossExplained
  <1> QED BY <1>6, <1>7, <1>8, <1>9, <1>10, <1>11, <1>12, <1>13, <1>14, <1>15

-----------------------------------------------------------------------------
\* The constructor establishes the invariant.
LEMMA InitHolds == Init => IInv
  <1> SUFFICES ASSUME Init PROVE IInv
    OBVIOUS
  <1> USE DEF Init
  <1>1. FlagTypes
    BY Zenon DEF FlagTypes
  <1>2. PlaceTypes /\ CountTypes /\ BufferTypes
    BY DEF PlaceTypes, CountTypes, BufferTypes
  <1>3. FileTypes
    BY DEF FileTypes
  <1>4. Control /\ Blame
    BY DEF Control, Blame
  <1>5. StreamOrder /\ Conservation /\ BufferUse /\ WithinLimit
    BY DEF StreamOrder, Chain, Conservation, BufferUse, WithinLimit
  <1>6. NoBufferLeak /\ RegistryCurrent /\ LossExplained
    BY DEF NoBufferLeak, RegistryCurrent, LossExplained
  <1> QED BY <1>1, <1>2, <1>3, <1>4, <1>5, <1>6 DEF IInv, TypeOK

\* Every step of any of the three threads preserves it.
LEMMA NextPreserves == IInv /\ [Next]_vars => IInv'
  <1> SUFFICES ASSUME IInv, [Next]_vars PROVE IInv'
    OBVIOUS
  <1>1. CASE ClientCall
    BY <1>1, WriteBeginStep, CallStep, SetBlockingStep,
       SetWriteBufferMinWriteSizeStep DEF ClientCall
  <1>2. CASE ClientStep
    BY <1>2, OpenResetStep, OpenFileStep, OpenRegisterStep, WriteOverflowStep,
       WriteBlockedStep, WriteBlockStep, FlushWaitStep, FlushDoneStep,
       ReOpenCloseStep, DtorFlagStep, DtorDeleteBuffersStep, DtorCloseStep
       DEF ClientStep
  <1>3. CASE DiskStep
    BY <1>3, DiskExitStep, DiskDiscardStep, DiskWaitStep, DiskTakeStep,
       WriteSomeStep, WriteFailsStep, DiskRetryStep, DiskFinishStep DEF DiskStep
  <1>4. CASE MinWriteTimer
    BY <1>4, MinWriteTimerStep
  <1>5. CASE SyncStep
    BY <1>5, SyncTopStep, SyncPassStep DEF SyncStep
  <1>6. CASE UNCHANGED vars
    <2> USE DEF vars, IInv
    <2>1. TypeOK'
      BY <1>6 DEF TypeOK, FlagTypes, PlaceTypes, CountTypes, BufferTypes,
                  FileTypes
    <2>2. Control' /\ Blame'
      BY <1>6 DEF Control, Blame
    <2>3. StreamOrder' /\ Conservation' /\ BufferUse' /\ WithinLimit'
      BY <1>6 DEF StreamOrder, Conservation, BufferUse, WithinLimit
    <2>4. NoBufferLeak' /\ RegistryCurrent' /\ LossExplained'
      BY <1>6 DEF NoBufferLeak, RegistryCurrent, LossExplained
    <2> QED BY <2>1, <2>2, <2>3, <2>4
  <1> QED BY <1>1, <1>2, <1>3, <1>4, <1>5, <1>6 DEF Next

\* The inductive invariant holds throughout.
THEOREM Invariance == Spec => []IInv
  BY InitHolds, NextPreserves, PTL DEF Spec

-----------------------------------------------------------------------------
(* Where the bytes go *)

\* No file holds a byte that DiskLoop has not reached.
OnDisk ==
  \A f \in Files : \A p \in 1 .. Len(file[f]) : file[f][p] <= cur.lo

Unopened == {"open", "openFile"}

\* Nothing is on its way to the old file when a new one is opened, unless close
\* overtook a write.
Opening ==
  /\ m_fd # NoFile => m_fd = m_filename
  /\ pc \in Unopened => m_fd = NoFile /\ (disturbed \/ cur.lo = accepted)
  /\ pc = "reopenClose" => Empty

\* Where byte k of the stream would be put if all before it were written.
Target(k) == [file |-> m_fd, pos |-> offset + (k - cur.lo)]

\* The bytes in hand are meant for where the descriptor stands, and so are those
\* in the list and the next one Write accepts unless they will be discarded.
Aimed ==
  m_fd # NoFile =>
    /\ \A k \in cur.lo + 1 .. cur.hi : want[k] = Target(k)
    /\ ~m_ignoreWrites /\ ~m_inDtor =>
         /\ \A k \in cur.hi + 1 .. accepted : want[k] = Target(k)
         /\ cpos = offset + (accepted - cur.lo)

Placement ==
  /\ OnDisk /\ Opening
  /\ ~disturbed /\ ~skipped => Placed /\ Aimed

\* The numbers the invariant relates.
LEMMA StreamNumbers ==
  ASSUME IInv
  PROVE  /\ cur.lo \in Nat /\ cur.hi \in Nat /\ accepted \in Nat
         /\ offset \in Nat /\ cpos \in Nat
         /\ cur.lo <= cur.hi /\ cur.hi <= accepted
         /\ (Empty => cur.hi = accepted)
  BY DEF IInv, TypeOK, CountTypes, BufferTypes, FileTypes, StreamOrder, Chain

\* A step that touches neither files nor stream keeps every byte in its place.
LEMMA PlacementFrame ==
  ASSUME Placement,
         UNCHANGED <<file, offset, cur, want, accepted, cpos, m_fd, m_filename>>,
         m_ignoreWrites => m_ignoreWrites', m_inDtor => m_inDtor',
         disturbed => disturbed', skipped => skipped',
         pc' \in Unopened => pc \in Unopened,
         pc' = "reopenClose" => Empty'
  PROVE  Placement'
  <1>1. OnDisk'
    BY DEF Placement, OnDisk
  <1>2. Opening'
    BY DEF Placement, Opening
  <1>3. ~disturbed' /\ ~skipped' => Placed'
    BY DEF Placement, Placed
  <1>4. ~disturbed' /\ ~skipped' => Aimed'
    BY DEF Placement, Aimed, Target
  <1> QED BY <1>1, <1>2, <1>3, <1>4 DEF Placement

\* The steps that only move a thread or set a flag.
LEMMA QuietSteps ==
  ASSUME IInv, Placement,
         \/ OpenRegister \/ WriteOverflow \/ WriteBlocked \/ FlushWait
         \/ \E n \in 1 .. MaxCount : WriteBegin(n)
         \/ \E o \in {"Flush", "Seek", "ReOpen", "Dtor"} : Call(o)
         \/ DtorFlag \/ DtorDeleteBuffers \/ SetBlocking
         \/ SetWriteBufferMinWriteSize \/ DiskExit \/ DiskWait \/ WriteFails
         \/ DiskRetry \/ MinWriteTimer \/ SyncTop \/ SyncPass
         \/ UNCHANGED vars
  PROVE  Placement'
  <1>1. UNCHANGED <<file, offset, cur, want, accepted, cpos, m_fd, m_filename,
                    disturbed, skipped>>
    BY DEF OpenRegister, WriteOverflow, WriteBlocked, FlushWait, WriteBegin, Call,
           DtorFlag, DtorDeleteBuffers, SetBlocking, SetWriteBufferMinWriteSize,
           DiskExit, DiskWait, WriteFails, DiskRetry, MinWriteTimer, SyncTop,
           SyncPass, vars
  <1>2. (m_ignoreWrites => m_ignoreWrites') /\ (m_inDtor => m_inDtor')
    BY DEF OpenRegister, WriteOverflow, WriteBlocked, FlushWait, WriteBegin, Call,
           DtorFlag, DtorDeleteBuffers, SetBlocking, SetWriteBufferMinWriteSize,
           DiskExit, DiskWait, WriteFails, DiskRetry, MinWriteTimer, SyncTop,
           SyncPass, vars
  <1>3. /\ pc' \in Unopened => pc \in Unopened
        /\ pc' = "reopenClose" => pc = "reopenClose" /\ m_writeBuffers' = m_writeBuffers
    BY DEF OpenRegister, WriteOverflow, WriteBlocked, FlushWait, WriteBegin, Call,
           DtorFlag, DtorDeleteBuffers, SetBlocking, SetWriteBufferMinWriteSize,
           DiskExit, DiskWait, WriteFails, DiskRetry, MinWriteTimer, SyncTop,
           SyncPass, vars, Unopened
  <1>4. pc' = "reopenClose" => Empty'
    BY <1>3 DEF Placement, Opening
  <1> QED BY <1>1, <1>2, <1>3, <1>4, PlacementFrame

\* Open and the close before it: the new file begins where the client begins.
LEMMA OpeningSteps ==
  ASSUME IInv, Placement, OpenReset \/ OpenFile \/ ReOpenClose \/ DtorClose
  PROVE  Placement'
  <1>0. /\ cur.lo \in Nat /\ cur.hi \in Nat /\ accepted \in Nat
        /\ offset \in Nat /\ cpos \in Nat /\ cur.lo <= cur.hi /\ cur.hi <= accepted
        /\ (Empty => cur.hi = accepted)
    BY StreamNumbers
  <1>1. CASE OpenReset
    <2> USE <1>1 DEF OpenReset, Placement
    <2>1. OnDisk' /\ Opening' /\ m_fd' = NoFile
      BY DEF OnDisk, Opening, Unopened
    <2>2. ~disturbed' /\ ~skipped' => Placed'
      BY DEF Placed
    <2> QED BY <2>1, <2>2 DEF Aimed
  <1>2. CASE OpenFile
    <2>1. CASE m_fd' = m_filename /\ file' = [file EXCEPT ![m_filename] = <<>>]
               /\ offset' = 0 /\ cpos' = 0 /\ pc' = "openRegister"
      <3>1. /\ UNCHANGED <<cur, want, accepted, m_filename, m_writeBuffers,
                           disturbed, skipped, m_ignoreWrites, m_inDtor>>
            /\ pc = "openFile"
        BY <1>2 DEF OpenFile
      <3>2. m_filename \in Files /\ file \in [Files -> Seq(Nat)]
        BY DEF IInv, TypeOK, FileTypes
      <3>3. \A f \in Files : file'[f] = IF f = m_filename THEN <<>> ELSE file[f]
        BY <2>1, <3>2
      <3>4. OnDisk' /\ (Placed => Placed')
        <4>1. Len(<<>>) = 0
          OBVIOUS
        <4> QED BY <3>1, <3>3, <4>1 DEF Placement, OnDisk, Placed
      <3>5. Opening'
        BY <2>1, <3>1 DEF Opening, Unopened
      <3>6. ~disturbed => cur.lo = accepted
        BY <3>1 DEF Placement, Opening, Unopened
      <3>7. ~disturbed => Aimed'
        BY <1>0, <2>1, <3>1, <3>6 DEF Aimed
      <3> QED BY <3>1, <3>4, <3>5, <3>7 DEF Placement
    <2>2. CASE /\ UNCHANGED <<m_fd, file, offset, cpos>>
               /\ pc' \in {"flush", "idle"}
      <3>1. UNCHANGED <<cur, want, accepted, m_filename, disturbed, skipped,
                        m_ignoreWrites, m_inDtor>>
        BY <1>2 DEF OpenFile
      <3> QED BY <2>2, <3>1, PlacementFrame DEF Unopened
    <2> QED BY <1>2, <2>1, <2>2 DEF OpenFile
  <1>3. CASE ReOpenClose
    <2> USE <1>3 DEF ReOpenClose, Placement
    <2>1. cur.hi = accepted
      BY <1>0 DEF Opening
    <2>2. OnDisk' /\ m_fd' = NoFile
      BY DEF OnDisk
    <2>3. disturbed' \/ cur.lo = cur.hi
      <3>1. disturbed' = (disturbed \/ cur.hi - cur.lo > 0)
        OBVIOUS
      <3>2. cur.hi - cur.lo > 0 => disturbed'
        BY <3>1, Zenon
      <3> QED BY <1>0, <3>2
    <2>4. Opening'
      BY <2>1, <2>2, <2>3 DEF Opening
    <2>5. (~disturbed' => ~disturbed) /\ (Placed => Placed')
      BY DEF Placed
    <2> QED BY <2>2, <2>4, <2>5 DEF Aimed
  <1>4. CASE DtorClose
    <2> USE <1>4 DEF DtorClose, Placement
    <2>1. OnDisk' /\ Opening' /\ m_fd' = NoFile
      BY DEF OnDisk, Opening, Unopened
    <2>2. ~disturbed' /\ ~skipped' => Placed'
      BY DEF Placed
    <2> QED BY <2>1, <2>2 DEF Aimed
  <1> QED BY <1>1, <1>2, <1>3, <1>4

\* Seek moves descriptor and client alike.
LEMMA FlushDonePlaces == ASSUME IInv, Placement, FlushDone PROVE Placement'
  <1>0. /\ cur.lo \in Nat /\ cur.hi \in Nat /\ accepted \in Nat
        /\ offset \in Nat /\ cpos \in Nat /\ cur.lo <= cur.hi /\ cur.hi <= accepted
        /\ (Empty => cur.hi = accepted)
    BY StreamNumbers
  <1>1. /\ UNCHANGED <<file, cur, want, accepted, m_fd, m_filename, m_ignoreWrites,
                       m_inDtor, skipped, m_writeBuffers>>
        /\ Empty /\ pc' \in {"reopenClose", "dtorFlag", "idle"}
    BY DEF FlushDone, Flushed
  <1>2. CASE UNCHANGED <<offset, cpos, disturbed>>
    BY <1>1, <1>2, PlacementFrame DEF Unopened
  <1>3. CASE \E p \in SeekTargets : /\ offset' = p /\ cpos' = p
                                    /\ disturbed' = (disturbed \/ Size(cur) > 0)
    <2>1. PICK p \in SeekTargets : /\ offset' = p /\ cpos' = p
                                   /\ disturbed' = (disturbed \/ Size(cur) > 0)
      BY <1>3
    <2>2. OnDisk' /\ Opening' /\ (Placed => Placed')
      BY <1>1, <2>1 DEF Placement, OnDisk, Opening, Unopened, Placed
    <2>3. ~disturbed' => ~disturbed /\ cur.lo = accepted
      <3>1. ~disturbed' => ~disturbed /\ ~(cur.hi - cur.lo > 0)
        BY <2>1, Zenon
      <3> QED BY <1>0, <1>1, <3>1
    <2>4. ~disturbed' => Aimed'
      BY <1>0, <1>1, <2>1, <2>3 DEF Aimed
    <2> QED BY <1>1, <2>2, <2>3, <2>4 DEF Placement
  <1> QED BY <1>2, <1>3 DEF FlushDone

\* Write notes where the client means its block to go.
LEMMA WantGrows ==
  ASSUME IInv, WriteBlock
  PROVE  /\ Towrite \in Nat /\ accepted' = accepted + Towrite
         /\ \A k \in 1 .. accepted : want'[k] = want[k]
         /\ \A k \in accepted + 1 .. accepted + Towrite :
              want'[k] = [file |-> m_filename, pos |-> cpos + (k - accepted)]
  <1> DEFINE n == Towrite
             S == [file : Files, pos : Nat]
             t == [i \in 1 .. n |-> [file |-> m_filename, pos |-> cpos + i]]
  <1>1. n \in Nat
    BY TowriteBounds DEF WriteBlock, IInv, TypeOK, CountTypes, Control
  <1>2. want' = want \o t /\ accepted' = accepted + n
    BY DEF WriteBlock
  <1>3. want \in Seq(S) /\ Len(want) = accepted /\ accepted \in Nat
    BY DEF IInv, TypeOK, FileTypes, CountTypes
  <1> HIDE DEF n, S
  <1>4. \A k \in 1 .. accepted : (want \o t)[k] = want[k]
    BY <1>1, <1>3
  <1>5. \A k \in accepted + 1 .. accepted + n : (want \o t)[k] = t[k - accepted]
    BY <1>1, <1>3
  <1>6. \A k \in accepted + 1 .. accepted + n :
          t[k - accepted] = [file |-> m_filename, pos |-> cpos + (k - accepted)]
    BY <1>1, <1>3
  <1> HIDE DEF t
  <1> QED BY <1>1, <1>2, <1>4, <1>5, <1>6 DEF n

\* What Write accepts is meant for where it will be put.
LEMMA WriteBlockPlaces == ASSUME IInv, Placement, WriteBlock PROVE Placement'
  <1> DEFINE n == Towrite
  <1>0. /\ cur.lo \in Nat /\ cur.hi \in Nat /\ accepted \in Nat
        /\ offset \in Nat /\ cpos \in Nat /\ cur.lo <= cur.hi /\ cur.hi <= accepted
    BY StreamNumbers
  <1>1. /\ n \in Nat /\ accepted' = accepted + n
        /\ \A k \in 1 .. accepted : want'[k] = want[k]
        /\ \A k \in accepted + 1 .. accepted + n :
             want'[k] = [file |-> m_filename, pos |-> cpos + (k - accepted)]
    BY WantGrows
  <1>2. /\ UNCHANGED <<file, offset, cur, m_fd, m_filename, m_ignoreWrites, m_inDtor,
                       disturbed, skipped>>
        /\ cpos' = cpos + n
        /\ pc' \in {"idle", "write"}
    BY DEF WriteBlock
  <1>3. file \in [Files -> Seq(Nat)]
    BY DEF IInv, TypeOK, FileTypes
  <1> HIDE DEF n
  <1>4. OnDisk'
    BY <1>2 DEF Placement, OnDisk
  <1>5. Opening'
    BY <1>2 DEF Placement, Opening, Unopened
  <1>6. Placed => Placed'
    <2> SUFFICES ASSUME Placed, NEW f \in Files, NEW p \in 1 .. Len(file[f]),
                        file[f][p] # 0
                 PROVE  want'[file[f][p]] = [file |-> f, pos |-> p]
      BY <1>2 DEF Placed
    <2>1. file[f][p] \in Nat
      BY <1>3
    <2>2. file[f][p] <= cur.lo
      BY DEF Placement, OnDisk
    <2>3. file[f][p] \in 1 .. accepted
      BY <1>0, <2>1, <2>2
    <2> QED BY <1>1, <2>3 DEF Placed
  <1>7. Aimed => Aimed'
    <2> SUFFICES ASSUME Aimed, m_fd # NoFile PROVE Aimed'
      BY <1>2 DEF Aimed
    <2>1. m_fd = m_filename
      BY DEF Placement, Opening
    <2>2. \A k : Target(k)' = Target(k)
      BY <1>2 DEF Target
    <2>3. \A k \in cur.lo + 1 .. cur.hi : want'[k] = Target(k)
      BY <1>0, <1>1 DEF Aimed
    <2>4. ASSUME ~m_ignoreWrites, ~m_inDtor
          PROVE  /\ \A k \in cur.hi + 1 .. accepted + n : want'[k] = Target(k)
                 /\ cpos' = offset + (accepted' - cur.lo)
      <3>1. /\ \A k \in cur.hi + 1 .. accepted : want[k] = Target(k)
            /\ cpos = offset + (accepted - cur.lo)
        BY <2>4 DEF Aimed
      <3>2. \A k \in cur.hi + 1 .. accepted : want'[k] = Target(k)
        BY <1>0, <1>1, <3>1
      <3>3. \A k \in accepted + 1 .. accepted + n : want'[k] = Target(k)
        <4> SUFFICES ASSUME NEW k \in accepted + 1 .. accepted + n
                     PROVE  want'[k] = Target(k)
          OBVIOUS
        <4>1. cpos + (k - accepted) = offset + (k - cur.lo)
          BY <1>0, <1>1, <3>1
        <4> QED BY <1>1, <2>1, <4>1 DEF Target
      <3>4. cpos' = offset + (accepted' - cur.lo)
        BY <1>0, <1>1, <1>2, <3>1
      <3> QED BY <1>0, <1>1, <3>2, <3>3, <3>4
    <2> QED BY <1>1, <1>2, <2>2, <2>3, <2>4 DEF Aimed
  <1> QED BY <1>2, <1>4, <1>5, <1>6, <1>7 DEF Placement

\* Discarded bytes are on no file, and what follows is discarded too.
LEMMA DiskDiscardPlaces == ASSUME IInv, Placement, DiskDiscard PROVE Placement'
  <1>0. /\ cur.lo \in Nat /\ cur.hi \in Nat /\ accepted \in Nat
        /\ cur.lo <= cur.hi /\ cur.hi <= accepted
    BY StreamNumbers
  <1>1. /\ UNCHANGED <<file, offset, want, accepted, cpos, m_fd, m_filename, pc,
                       m_ignoreWrites, disturbed, skipped>>
        /\ m_ignoreWrites /\ m_writeBuffers' = <<>>
        /\ cur'.lo = accepted /\ cur'.hi = accepted
    BY DEF DiskDiscard
  <1>2. file \in [Files -> Seq(Nat)]
    BY DEF IInv, TypeOK, FileTypes
  <1>3. OnDisk'
    <2> SUFFICES ASSUME NEW f \in Files, NEW p \in 1 .. Len(file[f])
                 PROVE  file[f][p] <= accepted
      BY <1>1 DEF OnDisk
    <2>1. file[f][p] \in Nat /\ file[f][p] <= cur.lo
      BY <1>2 DEF Placement, OnDisk
    <2> QED BY <1>0, <2>1
  <1>4. Opening'
    BY <1>1 DEF Placement, Opening
  <1>5. Placed => Placed'
    BY <1>1 DEF Placed
  <1>6. Aimed'
    BY <1>0, <1>1 DEF Aimed
  <1> QED BY <1>1, <1>3, <1>4, <1>5, <1>6 DEF Placement

\* The buffer DiskLoop takes begins where the last one ended.
LEMMA DiskTakePlaces == ASSUME IInv, Placement, DiskTake PROVE Placement'
  <1>0. /\ cur.lo \in Nat /\ cur.hi \in Nat /\ accepted \in Nat
        /\ cur.lo <= cur.hi /\ cur.hi <= accepted
    BY StreamNumbers
  <1>1. /\ UNCHANGED <<file, offset, want, accepted, cpos, m_fd, m_filename, pc,
                       m_ignoreWrites, m_inDtor, disturbed, skipped>>
        /\ ~m_ignoreWrites /\ ~m_inDtor /\ m_fd # NoFile /\ ~Empty
        /\ cur' = Head(m_writeBuffers) /\ ~InHand
    BY DEF DiskTake, NoFd
  <1>2. cur'.lo = cur.hi /\ cur.lo = cur.hi /\ cur'.hi <= accepted /\ cur'.hi \in Nat
        /\ cur'.lo <= cur'.hi
    <2>1. cur.lo = cur.hi
      BY <1>1 DEF IInv, Control
    <2>2. m_writeBuffers \in Seq(Run) /\ Chain(m_writeBuffers, cur.hi, accepted)
      BY DEF IInv, TypeOK, BufferTypes, StreamOrder
    <2> HIDE DEF Run
    <2>3. /\ Head(m_writeBuffers).lo = cur.hi /\ cur.hi < Head(m_writeBuffers).hi
          /\ Head(m_writeBuffers).hi <= accepted
      BY <1>0, <1>1, <2>2, ChainTail
    <2>4. Head(m_writeBuffers) \in Run
      BY <1>1, <2>2, HeadTailProperties
    <2> QED BY <1>0, <1>1, <2>1, <2>3, <2>4, RunFields
  <1>3. OnDisk' /\ Opening' /\ (Placed => Placed')
    BY <1>1, <1>2 DEF Placement, OnDisk, Opening, Unopened, Placed
  <1>4. Aimed => Aimed'
    <2> SUFFICES ASSUME Aimed PROVE Aimed'
      OBVIOUS
    <2>1. \A k : Target(k)' = Target(k)
      BY <1>1, <1>2 DEF Target
    <2>2. /\ \A k \in cur.hi + 1 .. accepted : want[k] = Target(k)
          /\ cpos = offset + (accepted - cur.lo)
      BY <1>1 DEF Aimed
    <2>3. /\ \A k \in cur'.lo + 1 .. cur'.hi : want[k] = Target(k)
          /\ \A k \in cur'.hi + 1 .. accepted : want[k] = Target(k)
          /\ cpos = offset + (accepted - cur'.lo)
      BY <1>0, <1>2, <2>2
    <2> QED BY <1>1, <2>1, <2>3 DEF Aimed
  <1> QED BY <1>1, <1>3, <1>4 DEF Placement

\* What a file holds after write(2), byte by byte.
LEMMA OverwriteAt ==
  ASSUME NEW c \in Seq(Nat), NEW p \in Nat, NEW lo \in Nat, NEW n \in Nat,
         NEW i \in 1 .. Len(Overwrite(c, p, lo, n))
  PROVE  /\ i \in Nat /\ i > 0
         /\ \/ p < i /\ i <= p + n /\ Overwrite(c, p, lo, n)[i] = lo + (i - p)
            \/ i \in 1 .. Len(c) /\ Overwrite(c, p, lo, n)[i] = c[i]
            \/ Overwrite(c, p, lo, n)[i] = 0
  <1> DEFINE len == IF Len(c) > p + n THEN Len(c) ELSE p + n
             f == [j \in 1 .. len |->
                     IF p < j /\ j <= p + n THEN lo + (j - p)
                     ELSE IF j <= Len(c) THEN c[j] ELSE 0]
  <1>1. Overwrite(c, p, lo, n) = f
    BY DEF Overwrite
  <1>2. len \in Nat
    OBVIOUS
  <1> HIDE DEF len
  <1>3. Len(f) = len
    BY <1>2
  <1>4. i \in 1 .. len
    BY <1>1, <1>3
  <1>5. f[i] = IF p < i /\ i <= p + n THEN lo + (i - p)
               ELSE IF i <= Len(c) THEN c[i] ELSE 0
    BY <1>4
  <1> HIDE DEF f
  <1> QED BY <1>1, <1>2, <1>4, <1>5

\* write(2) puts bytes where they are meant to be.
LEMMA WriteSomePlaces == ASSUME IInv, Placement, WriteSome PROVE Placement'
  <1>0. /\ cur.lo \in Nat /\ cur.hi \in Nat /\ accepted \in Nat
        /\ offset \in Nat /\ cpos \in Nat /\ cur.lo <= cur.hi /\ cur.hi <= accepted
    BY StreamNumbers
  <1>1. PICK n \in 1 .. Size(cur) :
          /\ file' = [file EXCEPT ![m_fd] = Overwrite(@, offset, cur.lo, n)]
          /\ offset' = offset + n
          /\ cur' = [lo |-> cur.lo + n, hi |-> cur.hi]
    BY DEF WriteSome, Advanced
  <1>2. n \in Nat /\ n > 0 /\ cur.lo + n <= cur.hi
    BY <1>0
  <1>3. cur'.lo = cur.lo + n /\ cur'.hi = cur.hi
    BY <1>1
  <1>4. /\ UNCHANGED <<want, accepted, cpos, m_fd, m_filename, pc, m_writeBuffers,
                       m_ignoreWrites, m_inDtor, disturbed, skipped>>
        /\ m_fd # NoFile
    BY DEF WriteSome
  <1>5. m_fd \in Files /\ file \in [Files -> Seq(Nat)]
    BY <1>4 DEF IInv, TypeOK, FileTypes
  <1> DEFINE d == Overwrite(file[m_fd], offset, cur.lo, n)
  <1>6. \A f \in Files : file'[f] = IF f = m_fd THEN d ELSE file[f]
    BY <1>1, <1>5
  <1>7. \A i \in 1 .. Len(d) :
          /\ i \in Nat /\ i > 0
          /\ \/ offset < i /\ i <= offset + n /\ d[i] = cur.lo + (i - offset)
             \/ i \in 1 .. Len(file[m_fd]) /\ d[i] = file[m_fd][i]
             \/ d[i] = 0
    BY <1>0, <1>2, <1>5, OverwriteAt
  <1> HIDE DEF d
  <1>8. OnDisk'
    <2> SUFFICES ASSUME NEW f \in Files, NEW i \in 1 .. Len(file'[f])
                 PROVE  file'[f][i] <= cur.lo + n
      BY <1>3 DEF OnDisk
    <2>1. \A j \in 1 .. Len(file[f]) : file[f][j] \in Nat /\ file[f][j] <= cur.lo
      BY <1>5 DEF Placement, OnDisk
    <2>2. CASE f = m_fd
      <3>1. i \in 1 .. Len(d) /\ d[i] = file'[f][i]
        BY <1>6, <2>2
      <3>2. CASE offset < i /\ i <= offset + n /\ d[i] = cur.lo + (i - offset)
        BY <1>0, <1>2, <1>7, <3>1, <3>2
      <3>3. CASE i \in 1 .. Len(file[m_fd]) /\ d[i] = file[m_fd][i]
        <4>1. file[f][i] \in Nat /\ file[f][i] <= cur.lo
          BY <2>1, <2>2, <3>3
        <4> QED BY <1>0, <1>2, <2>2, <3>1, <3>3, <4>1
      <3>4. CASE d[i] = 0
        BY <1>0, <1>2, <3>1, <3>4
      <3> QED BY <1>7, <3>1, <3>2, <3>3, <3>4
    <2>3. CASE f # m_fd
      BY <1>0, <1>2, <1>6, <2>1, <2>3
    <2> QED BY <2>2, <2>3
  <1>9. Opening'
    BY <1>4 DEF Placement, Opening, Unopened, WriteSome, IInv, Control, Blame
  <1>10. Placed /\ Aimed => Placed'
    <2> SUFFICES ASSUME Placed, Aimed, NEW f \in Files, NEW i \in 1 .. Len(file'[f]),
                        file'[f][i] # 0
                 PROVE  want[file'[f][i]] = [file |-> f, pos |-> i]
      BY <1>4 DEF Placed
    <2>1. CASE f # m_fd
      BY <1>6, <2>1 DEF Placed
    <2>2. CASE f = m_fd
      <3>1. i \in 1 .. Len(d) /\ d[i] = file'[f][i] /\ d[i] # 0
        BY <1>6, <2>2
      <3>2. CASE i \in 1 .. Len(file[m_fd]) /\ d[i] = file[m_fd][i]
        BY <1>5, <2>2, <3>1, <3>2 DEF Placed
      <3>3. CASE offset < i /\ i <= offset + n /\ d[i] = cur.lo + (i - offset)
        <4> DEFINE k == cur.lo + (i - offset)
        <4>1. i \in Nat
          BY <1>7, <3>1
        <4>2. k \in cur.lo + 1 .. cur.hi /\ offset + (k - cur.lo) = i
          BY <1>0, <1>2, <3>3, <4>1
        <4>3. want[k] = Target(k)
          BY <1>4, <4>2 DEF Aimed
        <4>4. Target(k) = [file |-> m_fd, pos |-> i]
          BY <4>2 DEF Target
        <4> QED BY <2>2, <3>1, <3>3, <4>3, <4>4
      <3> QED BY <1>7, <3>1, <3>2, <3>3
    <2> QED BY <2>1, <2>2
  <1>11. Aimed => Aimed'
    <2> SUFFICES ASSUME Aimed PROVE Aimed'
      OBVIOUS
    <2>1. \A k \in Int : Target(k)' = Target(k)
      <3> SUFFICES ASSUME NEW k \in Int PROVE Target(k)' = Target(k)
        OBVIOUS
      <3>1. offset + n + (k - (cur.lo + n)) = offset + (k - cur.lo)
        BY <1>0, <1>2
      <3> QED BY <1>1, <1>3, <1>4, <3>1 DEF Target
    <2>2. \A k \in cur.lo + 1 .. cur.hi : want[k] = Target(k)
      BY <1>4 DEF Aimed
    <2>3. \A k \in cur.lo + n + 1 .. cur.hi : want[k] = Target(k)
      BY <1>0, <1>2, <2>2
    <2>4. ~m_ignoreWrites /\ ~m_inDtor =>
            /\ \A k \in cur.hi + 1 .. accepted : want[k] = Target(k)
            /\ cpos = (offset + n) + (accepted - (cur.lo + n))
      BY <1>0, <1>2, <1>4 DEF Aimed
    <2>5. \A k \in cur'.lo + 1 .. cur'.hi : want'[k] = Target(k)'
      BY <1>0, <1>2, <1>3, <1>4, <2>1, <2>3
    <2>6. ~m_ignoreWrites' /\ ~m_inDtor' =>
            /\ \A k \in cur'.hi + 1 .. accepted' : want'[k] = Target(k)'
            /\ cpos' = offset' + (accepted' - cur'.lo)
      BY <1>0, <1>1, <1>3, <1>4, <2>1, <2>4
    <2> QED BY <2>5, <2>6 DEF Aimed
  <1> QED BY <1>4, <1>8, <1>9, <1>10, <1>11 DEF Placement

\* A buffer that is not finished is given up only with what follows it, unless
\* that is recorded.
LEMMA DiskFinishPlaces == ASSUME IInv, Placement, DiskFinish PROVE Placement'
  <1>0. /\ cur.lo \in Nat /\ cur.hi \in Nat /\ accepted \in Nat
        /\ cur.lo <= cur.hi /\ cur.hi <= accepted
    BY StreamNumbers
  <1>1. /\ UNCHANGED <<file, offset, want, accepted, cpos, m_fd, m_filename, pc,
                       m_writeBuffers, m_inDtor, disturbed>>
        /\ cur'.lo = cur.hi /\ cur'.hi = cur.hi
    BY DEF DiskFinish
  <1>2. /\ m_ignoreWrites => m_ignoreWrites'
        /\ skipped => skipped'
        /\ Size(cur) > 0 => skipped' \/ m_ignoreWrites' \/ m_inDtor
    BY DEF DiskFinish
  <1>3. file \in [Files -> Seq(Nat)]
    BY DEF IInv, TypeOK, FileTypes
  <1>4. OnDisk'
    <2> SUFFICES ASSUME NEW f \in Files, NEW p \in 1 .. Len(file[f])
                 PROVE  file[f][p] <= cur.hi
      BY <1>1 DEF OnDisk
    <2>1. file[f][p] \in Nat /\ file[f][p] <= cur.lo
      BY <1>3 DEF Placement, OnDisk
    <2> QED BY <1>0, <2>1
  <1>5. Opening'
    BY <1>0, <1>1 DEF Placement, Opening, Unopened
  <1>6. Placed => Placed'
    BY <1>1 DEF Placed
  <1>7. ~skipped' /\ Aimed => Aimed'
    <2>1. CASE Size(cur) > 0
      BY <1>0, <1>1, <1>2, <2>1 DEF Aimed
    <2>2. CASE cur.lo = cur.hi
      BY <1>0, <1>1, <1>2, <2>2 DEF Aimed, Target
    <2> QED BY <1>0, <2>1, <2>2
  <1> QED BY <1>1, <1>2, <1>4, <1>5, <1>6, <1>7 DEF Placement

\* Init and every step keep every byte where it belongs.
LEMMA PlacementHolds == Spec => []Placement
  <1>1. Init => Placement
    <2> SUFFICES ASSUME Init PROVE Placement
      OBVIOUS
    <2>1. \A f \in Files : Len(file[f]) = 0
      BY DEF Init
    <2>2. OnDisk /\ Placed
      BY <2>1 DEF OnDisk, Placed
    <2>3. Opening /\ Aimed
      BY DEF Init, Opening, Aimed, Unopened
    <2> QED BY <2>2, <2>3 DEF Placement
  <1>2. IInv /\ Placement /\ [Next]_vars => Placement'
    <2> SUFFICES ASSUME IInv, Placement, [Next]_vars PROVE Placement'
      OBVIOUS
    <2>1. CASE ClientCall
      BY <2>1, QuietSteps DEF ClientCall
    <2>2. CASE ClientStep
      BY <2>2, QuietSteps, OpeningSteps, FlushDonePlaces, WriteBlockPlaces
         DEF ClientStep
    <2>3. CASE DiskStep
      BY <2>3, QuietSteps, DiskDiscardPlaces, DiskTakePlaces, WriteSomePlaces,
         DiskFinishPlaces DEF DiskStep
    <2>4. CASE MinWriteTimer \/ SyncStep \/ UNCHANGED vars
      BY <2>4, QuietSteps DEF SyncStep
    <2> QED BY <2>1, <2>2, <2>3, <2>4 DEF Next
  <1> QED BY <1>1, <1>2, Invariance, PTL DEF Spec

-----------------------------------------------------------------------------
(* The theorems *)

\* Every variable keeps its type; in particular m_totalBufferUse, which is
\* unsigned in the code, never drops below zero when DiskLoop takes a buffer,
\* and no TFWBuffer is deleted twice.
THEOREM TypeCorrect == Spec => []TypeOK
  BY Invariance, PTL DEF IInv

\* The buffers always hold the accepted bytes in order, without gap or
\* repetition, whatever Write, DiskLoop and the discarding of buffers do.
THEOREM StreamIsOrdered == Spec => []StreamOrder
  BY Invariance, PTL DEF IInv

\* Every byte that left the list was written exactly once or thrown away.
THEOREM BytesConserved == Spec => []Conservation
  BY Invariance, PTL DEF IInv

\* m_totalBufferUse is never less than what is buffered, is exactly that until
\* buffers are discarded, and never exceeds Write's limit.
THEOREM BufferUseBounded == Spec => [](BufferUse /\ WithinLimit)
  BY Invariance, PTL DEF IInv

\* Bytes are lost only for one of the four known reasons.
THEOREM LossIsExplained == Spec => []LossExplained
  BY Invariance, PTL DEF IInv

\* No TFWBuffer leaks, and the destructor deletes the last of them.
THEOREM BuffersAccountedFor == Spec => []NoBufferLeak
  BY Invariance, PTL DEF IInv

\* Only the current file is registered as being written, and none once the
\* writer is gone.
THEOREM RegistryIsCurrent == Spec => []RegistryCurrent
  BY Invariance, PTL DEF IInv

\* Every byte on disk is in the file and at the position the client meant it for,
\* unless Seek or ReOpen overtook a write or a buffer was given up and the next
\* one written.
THEOREM BytesInPlace == Spec => []PlacedUnlessDisturbed
  BY PlacementHolds, PTL DEF Placement, PlacedUnlessDisturbed
=============================================================================
