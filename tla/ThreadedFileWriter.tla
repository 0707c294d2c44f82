------------------------- MODULE ThreadedFileWriter -------------------------
(***************************************************************************)
(* libmythbase/threadedfilewriter.cpp: the class through which every       *)
(* recording reaches the disk.                                             *)
(*                                                                         *)
(* Three threads share the buffers under m_bufLock:                        *)
(*   - the client (recorder, transcoder, file transfer) that calls Open,   *)
(*     Write, Flush, Seek, ReOpen, SetBlocking and the destructor;         *)
(*   - the disk thread running DiskLoop, which takes buffers off           *)
(*     m_writeBuffers and calls write(2) with the lock released;           *)
(*   - the sync thread running SyncLoop.                                   *)
(*                                                                         *)
(* The bytes the class accepts are numbered 1, 2, ... in the order Write   *)
(* buffers them.  The data of a TFWBuffer is the run lo+1 .. hi of those   *)
(* numbers.  A section of code that runs with m_bufLock held is one step;  *)
(* QWaitCondition::wait with a timeout may return at any time, and only    *)
(* the one wait without a timeout (the m_ignoreWrites branch of DiskLoop)  *)
(* depends on being woken.                                                 *)
(***************************************************************************)
EXTENDS Integers, Sequences

CONSTANTS
  kMaxBufferSize,    \* bytes buffered before Write blocks (8 MB)
  kMinWriteSize,     \* low watermark of DiskLoop (64 KB)
  kMaxBlockSize,     \* largest block Write appends at once (1 MB)
  NonBlockingScale,  \* the limit is this many times larger when not blocking (8)
  MaxTries,          \* write errors in one buffer before it is given up (3)
  Files, NoFile,     \* the file names ReOpen may be given; a descriptor of -1
  Ops,               \* the operations the client uses besides Write
  SeekTargets,       \* the positions Seek may be given
  MaxBytes,          \* bound: bytes the client writes in all
  MaxCount,          \* bound: largest count of one Write
  MaxFaults,         \* bound: write(2) calls that fail
  OpenMayFail        \* whether open(2) may fail

ASSUME SizesAssumption ==
  /\ kMaxBufferSize \in Nat \ {0}
  /\ kMinWriteSize \in Nat \ {0}
  /\ kMaxBlockSize \in Nat \ {0}
  /\ NonBlockingScale \in Nat \ {0}
  /\ MaxTries \in Nat \ {0}

ASSUME BoundsAssumption ==
  /\ SeekTargets \subseteq Nat
  /\ MaxBytes \in Nat
  /\ MaxCount \in Nat
  /\ MaxFaults \in Nat
  /\ Files # {} /\ NoFile \notin Files
  /\ OpenMayFail \in BOOLEAN
  /\ Ops \subseteq {"Flush", "Seek", "ReOpen", "Dtor", "SetBlocking",
                    "SetWriteBufferMinWriteSize"}

VARIABLES
  bufLock,           \* holder of m_bufLock between steps
  m_flush, m_inDtor, m_ignoreWrites, m_blocking, m_registered,
  m_totalBufferUse,
  m_writeBuffers,    \* sequence of runs [lo, hi]
  m_emptyBuffers,    \* how many recycled TFWBuffers are kept
  m_filename,
  m_fd,              \* the open file, or NoFile for -1
  pc,                \* where the client is
  op,                \* the operation whose Flush the client is in
  left,              \* Write: bytes still to be buffered
  dpc,               \* where the disk thread is
  cur,               \* DiskLoop: what is unwritten of the buffer taken last
  errcnt,            \* DiskLoop: errors met writing it
  fatal,             \* DiskLoop: the last error was ENOSPC or EFBIG
  minWriteDue,       \* minWriteTimer has run for 250 ms
  spc,               \* where the sync thread is
  registry,          \* MythCoreContext: files registered as being written
  file,              \* what each file holds: the number of each byte
  offset,            \* the kernel's offset of m_fd
  \* history
  accepted,          \* bytes buffered so far
  want,              \* where the client meant each accepted byte to go
  cpos,              \* the client's own position in its file
  written,           \* bytes handed to a write(2) that succeeded
  lost,              \* accepted bytes thrown away
  allocated,         \* TFWBuffers allocated and not deleted
  faults,            \* write(2) calls that failed
  dropped,           \* a buffer was discarded because m_ignoreWrites was set
  disturbed,         \* lseek or close ran under an unfinished write
  skipped            \* a buffer was given up and the next ones were written

clientVars == <<pc, op, left>>
diskVars   == <<dpc, cur, errcnt, fatal, minWriteDue>>
fileVars   == <<file, offset>>
flagVars   == <<m_flush, m_inDtor, m_ignoreWrites, m_blocking>>
bufVars    == <<m_totalBufferUse, m_writeBuffers, m_emptyBuffers, allocated>>
regVars    == <<m_registered, registry>>
streamVars == <<accepted, want, cpos>>
lossVars   == <<written, lost, faults, dropped, disturbed, skipped>>
vars == <<bufLock, flagVars, bufVars, regVars, m_filename, m_fd, clientVars,
          diskVars, spc, fileVars, streamVars, lossVars>>

Size(buf) == buf.hi - buf.lo

Empty == m_writeBuffers = <<>>

Last(s) == s[Len(s)]

\* The limit Write compares with: kMaxBufferSize * (m_blocking ? 1 : 8).
Limit == kMaxBufferSize * (IF m_blocking THEN 1 ELSE NonBlockingScale)

\* m_bufferHasData.wakeAll(): only a thread in the untimed wait needs it.
WakeHasData_Lost == UNCHANGED dpc
WakeHasData == dpc' = IF dpc = "waitHasData" THEN "woken" ELSE dpc

\* What a file holds after write(2) put the bytes lo+1 .. lo+n at offset p;
\* 0 is a hole.
Overwrite(content, p, lo, n) ==
  [i \in 1 .. (IF Len(content) > p + n THEN Len(content) ELSE p + n) |->
     IF p < i /\ i <= p + n THEN lo + (i - p)
     ELSE IF i <= Len(content) THEN content[i] ELSE 0]

Init ==
  /\ bufLock = "none"
  /\ m_flush = FALSE /\ m_inDtor = FALSE /\ m_ignoreWrites = FALSE
  /\ m_blocking = FALSE /\ m_registered = FALSE
  /\ m_totalBufferUse = 0 /\ m_writeBuffers = <<>> /\ m_emptyBuffers = 0
  /\ m_filename \in Files /\ m_fd = NoFile
  /\ pc = "open" /\ op = "Open" /\ left = 0
  /\ dpc = "none" /\ cur = [lo |-> 0, hi |-> 0] /\ errcnt = 0 /\ fatal = FALSE
  /\ minWriteDue = FALSE /\ spc = "none"
  /\ registry = {}
  /\ file = [f \in Files |-> <<>>] /\ offset = 0
  /\ accepted = 0 /\ want = <<>> /\ cpos = 0
  /\ written = 0 /\ lost = 0 /\ allocated = 0 /\ faults = 0
  /\ dropped = FALSE /\ disturbed = FALSE /\ skipped = FALSE

-----------------------------------------------------------------------------
(* Open: runs without m_bufLock. *)

OpenReset ==
  /\ pc = "open"
  /\ m_ignoreWrites' = FALSE
  /\ pc' = "openFile"
  /\ UNCHANGED <<bufLock, m_flush, m_inDtor, m_blocking, bufVars, regVars,
                 m_filename, m_fd, op, left, diskVars, spc, fileVars,
                 streamVars, lossVars>>

\* open(2) with O_TRUNC.  The callers delete a writer whose first Open fails
\* and go on using one whose ReOpen failed.
OpenFile ==
  /\ pc = "openFile"
  /\ \/ /\ m_fd' = m_filename
        /\ file' = [file EXCEPT ![m_filename] = <<>>]
        /\ offset' = 0 /\ cpos' = 0
        /\ pc' = "openRegister"
        /\ UNCHANGED op
     \/ /\ OpenMayFail
        /\ pc' = IF op = "Open" THEN "flush" ELSE "idle"
        /\ op' = IF op = "Open" THEN "Dtor" ELSE op
        /\ UNCHANGED <<m_fd, file, offset, cpos>>
  /\ UNCHANGED <<bufLock, flagVars, bufVars, regVars, m_filename, left,
                 diskVars, spc, accepted, want, lossVars>>

OpenRegister ==
  /\ pc = "openRegister"
  /\ registry' = registry \cup {m_filename}
  /\ m_registered' = TRUE
  /\ dpc' = IF dpc = "none" THEN "start" ELSE dpc
  /\ spc' = IF spc = "none" THEN "start" ELSE spc
  /\ pc' = "idle"
  /\ UNCHANGED <<bufLock, flagVars, bufVars, m_filename, m_fd, op, left, cur,
                 errcnt, fatal, minWriteDue, fileVars, streamVars, lossVars>>

-----------------------------------------------------------------------------
(* Write *)

\* Write(data, n) up to its loop.  While m_ignoreWrites is set it returns -1
\* at once, which changes nothing.
WriteBegin(n) ==
  /\ pc = "idle" /\ bufLock = "none"
  /\ ~m_ignoreWrites
  /\ pc' = "write" /\ left' = n /\ bufLock' = "client"
  /\ UNCHANGED <<flagVars, bufVars, regVars, m_filename, m_fd, op, diskVars,
                 spc, fileVars, streamVars, lossVars>>

\* The client is at the head of Write's loop with the lock, which it also
\* gets back when m_bufferWasFreed.wait returns.
InWriteLoop ==
  \/ pc = "write" /\ bufLock = "client"
  \/ pc = "writeWait" /\ bufLock = "none"

Towrite == IF left > kMaxBlockSize THEN kMaxBlockSize ELSE left

Overflows == m_totalBufferUse + Towrite > Limit

WriteOverflow ==
  /\ InWriteLoop
  /\ Overflows
  /\ ~m_blocking
  /\ m_ignoreWrites' = TRUE
  /\ pc' = "idle" /\ left' = 0 /\ bufLock' = "none"
  /\ UNCHANGED <<m_flush, m_inDtor, m_blocking, bufVars, regVars, m_filename,
                 m_fd, op, diskVars, spc, fileVars, streamVars, lossVars>>

WriteBlocked ==
  /\ InWriteLoop
  /\ Overflows
  /\ m_blocking
  /\ pc' = "writeWait" /\ bufLock' = "none"
  /\ UNCHANGED <<flagVars, bufVars, regVars, m_filename, m_fd, op, left,
                 diskVars, spc, fileVars, streamVars, lossVars>>

\* Room for the block: it goes to the last buffer while that stays below
\* kMinWriteSize, and otherwise to a recycled or a new one.
Extends == ~Empty /\ Size(Last(m_writeBuffers)) + Towrite < kMinWriteSize

Enqueued_Front ==
  IF Extends
  THEN [m_writeBuffers EXCEPT ![Len(m_writeBuffers)] =
                                [lo |-> @.lo, hi |-> @.hi + Towrite]]
  ELSE <<[lo |-> accepted, hi |-> accepted + Towrite]>> \o m_writeBuffers
Enqueued ==
  IF Extends
  THEN [m_writeBuffers EXCEPT ![Len(m_writeBuffers)] =
                                [lo |-> @.lo, hi |-> @.hi + Towrite]]
  ELSE Append(m_writeBuffers, [lo |-> accepted, hi |-> accepted + Towrite])

WriteBlock ==
  /\ InWriteLoop
  /\ ~Overflows
  /\ m_writeBuffers' = Enqueued
  /\ m_emptyBuffers' = IF Extends \/ m_emptyBuffers = 0
                       THEN m_emptyBuffers ELSE m_emptyBuffers - 1
  /\ allocated' = IF Extends \/ m_emptyBuffers > 0
                  THEN allocated ELSE allocated + 1
  /\ m_totalBufferUse' = m_totalBufferUse + Towrite
  /\ IF Len(Enqueued) > 1 \/ Size(Last(Enqueued)) >= kMinWriteSize
     THEN WakeHasData
     ELSE UNCHANGED dpc
  /\ accepted' = accepted + Towrite
  /\ want' = want \o [i \in 1 .. Towrite |->
                        [file |-> m_filename, pos |-> cpos + i]]
  /\ cpos' = cpos + Towrite
  /\ left' = left - Towrite
  /\ IF left = Towrite
     THEN pc' = "idle" /\ bufLock' = "none"
     ELSE pc' = "write" /\ bufLock' = "client"
  /\ UNCHANGED <<flagVars, regVars, m_filename, m_fd, op, cur, errcnt, fatal,
                 minWriteDue, spc, fileVars, lossVars>>

-----------------------------------------------------------------------------
(* Flush, and what Seek, ReOpen and the destructor do after it. *)

\* The client calls o.
Call(o) ==
  /\ pc = "idle" /\ o \in Ops
  /\ op' = o /\ pc' = "flush"
  /\ UNCHANGED <<bufLock, flagVars, bufVars, regVars, m_filename, m_fd, left,
                 diskVars, spc, fileVars, streamVars, lossVars>>

\* The loops of Flush and Seek end when m_writeBuffers is empty.
Flushed_NotForSeek == Empty \/ op = "Seek"
Flushed == Empty

\* One turn of the loop "while (!m_writeBuffers.empty())": wake the disk
\* thread and wait up to 2 s for m_bufferEmpty.
FlushWait ==
  /\ pc \in {"flush", "flushWait"} /\ bufLock = "none"
  /\ ~Flushed
  /\ m_flush' = TRUE
  /\ WakeHasData
  /\ pc' = "flushWait"
  /\ UNCHANGED <<bufLock, m_inDtor, m_ignoreWrites, m_blocking, bufVars,
                 regVars, m_filename, m_fd, op, left, cur, errcnt, fatal,
                 minWriteDue, spc, fileVars, streamVars, lossVars>>

\* The loop ends.  Seek calls lseek in the same critical section.
FlushDone ==
  /\ pc \in {"flush", "flushWait"} /\ bufLock = "none"
  /\ Flushed
  /\ m_flush' = FALSE
  /\ pc' = CASE op = "ReOpen" -> "reopenClose"
             [] op = "Dtor" -> "dtorFlag"
             [] OTHER -> "idle"
  /\ IF op = "Seek" /\ m_fd # NoFile
     THEN \E p \in SeekTargets :
            /\ offset' = p /\ cpos' = p
            /\ disturbed' = (disturbed \/ Size(cur) > 0)
     ELSE UNCHANGED <<offset, cpos, disturbed>>
  /\ UNCHANGED <<bufLock, m_inDtor, m_ignoreWrites, m_blocking, bufVars,
                 regVars, m_filename, m_fd, op, left, diskVars, spc, file,
                 accepted, want, written, lost, faults, dropped, skipped>>

\* The critical section of ReOpen; Open follows.
ReOpenClose_UnregistersNew ==
  /\ pc = "reopenClose" /\ bufLock = "none"
  /\ m_fd' = NoFile
  /\ m_filename' \in Files
  /\ registry' = IF m_registered THEN registry \ {m_filename'} ELSE registry
  /\ disturbed' = (disturbed \/ Size(cur) > 0)
  /\ pc' = "open"
  /\ UNCHANGED <<bufLock, flagVars, bufVars, m_registered, op, left, diskVars,
                 spc, fileVars, streamVars, written, lost, faults, dropped,
                 skipped>>
ReOpenClose ==
  /\ pc = "reopenClose" /\ bufLock = "none"
  /\ m_fd' = NoFile
  /\ registry' = IF m_registered THEN registry \ {m_filename} ELSE registry
  /\ m_filename' \in Files
  /\ disturbed' = (disturbed \/ Size(cur) > 0)
  /\ pc' = "open"
  /\ UNCHANGED <<bufLock, flagVars, bufVars, m_registered, op, left, diskVars,
                 spc, fileVars, streamVars, written, lost, faults, dropped,
                 skipped>>

\* The destructor tells the threads to exit ...
DtorFlag ==
  /\ pc = "dtorFlag" /\ bufLock = "none"
  /\ m_inDtor' = TRUE
  /\ WakeHasData
  /\ pc' = "dtorJoin"
  /\ UNCHANGED <<bufLock, m_flush, m_ignoreWrites, m_blocking, bufVars,
                 regVars, m_filename, m_fd, op, left, cur, errcnt, fatal,
                 minWriteDue, spc, fileVars, streamVars, lossVars>>

\* ... waits for the disk thread, deletes the buffers ...
DtorDeleteBuffers ==
  /\ pc = "dtorJoin"
  /\ dpc \in {"none", "done"}
  /\ allocated' = allocated - Len(m_writeBuffers) - m_emptyBuffers
  /\ m_writeBuffers' = <<>> /\ m_emptyBuffers' = 0
  /\ pc' = "dtorJoinSync"
  /\ UNCHANGED <<bufLock, flagVars, m_totalBufferUse, regVars, m_filename,
                 m_fd, op, left, diskVars, spc, fileVars, streamVars, lossVars>>

\* ... waits for the sync thread, closes and unregisters the file.
DtorClose ==
  /\ pc = "dtorJoinSync"
  /\ spc \in {"none", "done"}
  /\ m_fd' = NoFile
  /\ registry' = registry \ {m_filename}
  /\ m_registered' = FALSE
  /\ pc' = "gone"
  /\ UNCHANGED <<bufLock, flagVars, bufVars, m_filename, op, left, diskVars,
                 spc, fileVars, streamVars, lossVars>>

\* SetBlocking takes no lock.
SetBlocking ==
  /\ pc = "idle" /\ "SetBlocking" \in Ops
  /\ m_blocking' = ~m_blocking
  /\ UNCHANGED <<bufLock, m_flush, m_inDtor, m_ignoreWrites, bufVars, regVars,
                 m_filename, m_fd, clientVars, diskVars, spc, fileVars,
                 streamVars, lossVars>>

\* Nothing reads m_tfwMinWriteSize; what is left is the wake-up.
SetWriteBufferMinWriteSize ==
  /\ pc = "idle" /\ bufLock = "none"
  /\ "SetWriteBufferMinWriteSize" \in Ops
  /\ WakeHasData
  /\ UNCHANGED <<bufLock, flagVars, bufVars, regVars, m_filename, m_fd,
                 clientVars, cur, errcnt, fatal, minWriteDue, spc, fileVars,
                 streamVars, lossVars>>

-----------------------------------------------------------------------------
(* DiskLoop *)

\* The disk thread is at the head of DiskLoop with the lock: it never let go
\* of it, or a wait has returned.
AtTop ==
  \/ dpc = "top" /\ bufLock = "disk"
  \/ dpc \in {"start", "wait", "woken"} /\ bufLock = "none"

\* TrimEmptyBuffers, after a timed wait: some recycled buffers, those unused
\* for 60 s or much larger than their data, are deleted.
TrimEmptyBuffers_Leaks ==
  \E n \in 0 .. m_emptyBuffers :
    /\ dpc # "wait" => n = 0
    /\ m_emptyBuffers' = m_emptyBuffers - n
    /\ UNCHANGED allocated
TrimEmptyBuffers ==
  \E n \in 0 .. m_emptyBuffers :
    /\ dpc # "wait" => n = 0
    /\ m_emptyBuffers' = m_emptyBuffers - n
    /\ allocated' = allocated - n

DiskExit ==
  /\ AtTop /\ m_inDtor
  /\ TrimEmptyBuffers
  /\ dpc' = "done" /\ bufLock' = "none"
  /\ UNCHANGED <<flagVars, m_totalBufferUse, m_writeBuffers, regVars,
                 m_filename, m_fd, clientVars, cur, errcnt, fatal, minWriteDue,
                 spc, fileVars, streamVars, lossVars>>

\* m_ignoreWrites: every buffer is deleted (m_totalBufferUse is not touched)
\* and the thread waits for m_bufferHasData without a timeout.
DiskDiscard ==
  /\ AtTop /\ ~m_inDtor /\ m_ignoreWrites
  /\ allocated' = allocated - Len(m_writeBuffers) - m_emptyBuffers
  /\ m_writeBuffers' = <<>> /\ m_emptyBuffers' = 0
  /\ lost' = lost + (accepted - cur.hi)
  /\ dropped' = (dropped \/ ~Empty)
  /\ cur' = [lo |-> accepted, hi |-> accepted]
  /\ dpc' = "waitHasData" /\ bufLock' = "none"
  /\ UNCHANGED <<flagVars, m_totalBufferUse, regVars, m_filename, m_fd,
                 clientVars, errcnt, fatal, minWriteDue, spc, fileVars,
                 streamVars, written, faults, disturbed, skipped>>

\* There is reason to write now: a Flush, 250 ms, or enough data.
Due_NoTimer == m_flush \/ m_totalBufferUse >= kMinWriteSize
Due == m_flush \/ minWriteDue \/ m_totalBufferUse >= kMinWriteSize

NoFd_Unchecked == FALSE
NoFd == m_fd = NoFile

\* Nothing to write, too little to write yet, or no file to write to.
DiskWait ==
  /\ AtTop /\ ~m_inDtor /\ ~m_ignoreWrites
  /\ Empty \/ ~Due \/ NoFd
  /\ TrimEmptyBuffers
  /\ dpc' = "wait" /\ bufLock' = "none"
  /\ UNCHANGED <<flagVars, m_totalBufferUse, m_writeBuffers, regVars,
                 m_filename, m_fd, clientVars, cur, errcnt, fatal, minWriteDue,
                 spc, fileVars, streamVars, lossVars>>

\* 250 ms have passed since minWriteTimer was started.
MinWriteTimer ==
  /\ dpc \notin {"none", "start", "done"} /\ ~minWriteDue
  /\ minWriteDue' = TRUE
  /\ UNCHANGED <<bufLock, flagVars, bufVars, regVars, m_filename, m_fd,
                 clientVars, dpc, cur, errcnt, fatal, spc, fileVars,
                 streamVars, lossVars>>

\* m_totalBufferUse without the buffer that is taken.
UseAfterTake_Forgotten == m_totalBufferUse
UseAfterTake_MinWriteSize == m_totalBufferUse - kMinWriteSize
UseAfterTake == m_totalBufferUse - Size(Head(m_writeBuffers))

DiskTake ==
  /\ AtTop /\ ~m_inDtor /\ ~m_ignoreWrites
  /\ ~Empty /\ Due /\ ~NoFd
  /\ TrimEmptyBuffers
  /\ cur' = Head(m_writeBuffers)
  /\ m_writeBuffers' = Tail(m_writeBuffers)
  /\ m_totalBufferUse' = UseAfterTake
  /\ minWriteDue' = FALSE /\ errcnt' = 0 /\ fatal' = FALSE
  /\ dpc' = "write" /\ bufLock' = "none"
  /\ UNCHANGED <<flagVars, regVars, m_filename, m_fd, clientVars, spc,
                 fileVars, streamVars, lossVars>>

\* What of the buffer is left to write when write(2) has taken n bytes.
Advanced_Not(n) == cur
Advanced(n) == [lo |-> cur.lo + n, hi |-> cur.hi]

\* write(2), without the lock, on whatever m_fd is now.  It may write part of
\* what it is given.
WriteSome ==
  /\ dpc = "write" /\ m_fd # NoFile
  /\ \E n \in 1 .. Size(cur) :
       /\ file' = [file EXCEPT ![m_fd] = Overwrite(@, offset, cur.lo, n)]
       /\ offset' = offset + n
       /\ cur' = Advanced(n)
       /\ written' = written + n
  /\ dpc' = "wrote"
  /\ UNCHANGED <<bufLock, flagVars, bufVars, regVars, m_filename, m_fd,
                 clientVars, errcnt, fatal, minWriteDue, spc, streamVars, lost,
                 faults, dropped, disturbed, skipped>>

\* write(2) fails: EAGAIN is not counted, ENOSPC and EFBIG end the writing,
\* any other error (EBADF, when m_fd is -1, too) does at the third time.
WriteFails ==
  /\ dpc = "write"
  /\ \/ /\ m_fd # NoFile /\ faults < MaxFaults
        /\ faults' = faults + 1
        /\ \/ errcnt' = errcnt /\ fatal' = FALSE
           \/ errcnt' = errcnt + 1 /\ fatal' \in BOOLEAN
     \/ /\ m_fd = NoFile
        /\ errcnt' = errcnt + 1
        /\ UNCHANGED <<faults, fatal>>
  /\ dpc' = IF errcnt' >= MaxTries \/ fatal' THEN "giveUp" ELSE "wrote"
  /\ UNCHANGED <<bufLock, flagVars, bufVars, regVars, m_filename, m_fd,
                 clientVars, cur, minWriteDue, spc, fileVars, streamVars,
                 written, lost, dropped, disturbed, skipped>>

\* The loop over one buffer ends: "(tot < sz) && !m_inDtor" is false.
BufferDone == Size(cur) = 0 \/ m_inDtor

\* Relock after a write that left some of the buffer: wait 50 ms, try again.
DiskRetry ==
  /\ dpc = "wrote" /\ bufLock = "none"
  /\ ~BufferDone
  /\ dpc' = "write"
  /\ UNCHANGED <<bufLock, flagVars, bufVars, regVars, m_filename, m_fd,
                 clientVars, cur, errcnt, fatal, minWriteDue, spc, fileVars,
                 streamVars, lossVars>>

\* Relock after the last write of a buffer.  The file is registered again
\* every 10 s, which may overwrite the errno that is looked at afterwards; the
\* buffer is recycled whether or not all of it was written.
DiskFinish ==
  /\ bufLock = "none"
  /\ \/ dpc = "wrote" /\ BufferDone
     \/ dpc = "giveUp"
  /\ \/ /\ m_ignoreWrites' = (m_ignoreWrites \/ (dpc = "giveUp" /\ fatal))
        /\ UNCHANGED regVars
     \/ /\ m_ignoreWrites' \in {m_ignoreWrites,
                                m_ignoreWrites \/ (dpc = "giveUp" /\ fatal)}
        /\ registry' = registry \cup {m_filename} /\ m_registered' = TRUE
  /\ m_emptyBuffers' = m_emptyBuffers + 1
  /\ lost' = lost + Size(cur)
  /\ skipped' = (skipped \/ (Size(cur) > 0 /\ ~m_ignoreWrites' /\ ~m_inDtor))
  /\ cur' = [lo |-> cur.hi, hi |-> cur.hi]
  /\ dpc' = "top" /\ bufLock' = "disk"
  /\ UNCHANGED <<m_flush, m_inDtor, m_blocking, m_totalBufferUse,
                 m_writeBuffers, allocated, m_filename, m_fd, clientVars,
                 errcnt, fatal, minWriteDue, spc, fileVars, streamVars, written,
                 faults, dropped, disturbed>>

-----------------------------------------------------------------------------
(* SyncLoop *)

\* The head of the loop, with the lock; the wait before it is timed.
SyncTop ==
  /\ spc \in {"start", "wait"} /\ bufLock = "none"
  /\ spc' = IF m_inDtor THEN "done" ELSE "sync"
  /\ UNCHANGED <<bufLock, flagVars, bufVars, regVars, m_filename, m_fd,
                 clientVars, diskVars, fileVars, streamVars, lossVars>>

\* After fdatasync, which ran without the lock: a writer that has given up is
\* unregistered.
SyncPass ==
  /\ spc = "sync" /\ bufLock = "none"
  /\ IF m_ignoreWrites /\ m_registered
     THEN registry' = registry \ {m_filename} /\ m_registered' = FALSE
     ELSE UNCHANGED regVars
  /\ spc' = "wait"
  /\ UNCHANGED <<bufLock, flagVars, bufVars, m_filename, m_fd, clientVars,
                 diskVars, fileVars, streamVars, lossVars>>

-----------------------------------------------------------------------------
\* What the client starts of its own accord.
ClientCall ==
  \/ \E n \in 1 .. MaxCount : accepted + n <= MaxBytes /\ WriteBegin(n)
  \/ \E o \in {"Flush", "Seek", "ReOpen", "Dtor"} : Call(o)
  \/ SetBlocking
  \/ SetWriteBufferMinWriteSize

\* The rest of a call that has started.
ClientStep ==
  \/ OpenReset \/ OpenFile \/ OpenRegister
  \/ WriteOverflow \/ WriteBlocked \/ WriteBlock
  \/ FlushWait \/ FlushDone \/ ReOpenClose
  \/ DtorFlag \/ DtorDeleteBuffers \/ DtorClose

DiskStep ==
  \/ DiskExit \/ DiskDiscard \/ DiskWait \/ DiskTake
  \/ WriteSome \/ WriteFails \/ DiskRetry \/ DiskFinish

SyncStep == SyncTop \/ SyncPass

Next == ClientCall \/ ClientStep \/ DiskStep \/ MinWriteTimer \/ SyncStep

Spec == Init /\ [][Next]_vars

\* Every thread that can go on does, and time passes: the lock is only ever
\* held for a bounded section and every wait but one is timed.  The client need
\* not start a call.
FairSpec ==
  /\ Spec
  /\ WF_vars(ClientStep)
  /\ WF_vars(DiskStep)
  /\ WF_vars(MinWriteTimer)
  /\ WF_vars(SyncStep)

-----------------------------------------------------------------------------
(* Properties *)

\* An operator X_Y is X with one slip in it: what a property would have to
\* notice.  No specification uses them.

Run == [lo : Nat, hi : Nat]

FlagTypes ==
  /\ m_flush \in BOOLEAN /\ m_inDtor \in BOOLEAN /\ m_ignoreWrites \in BOOLEAN
  /\ m_blocking \in BOOLEAN /\ m_registered \in BOOLEAN
  /\ fatal \in BOOLEAN /\ minWriteDue \in BOOLEAN
  /\ dropped \in BOOLEAN /\ disturbed \in BOOLEAN /\ skipped \in BOOLEAN

PlaceTypes ==
  /\ bufLock \in {"none", "client", "disk"}
  /\ pc \in {"open", "openFile", "openRegister", "idle", "write", "writeWait",
             "flush", "flushWait", "reopenClose", "dtorFlag", "dtorJoin",
             "dtorJoinSync", "gone"}
  /\ op \in {"Open", "Flush", "Seek", "ReOpen", "Dtor"}
  /\ dpc \in {"none", "start", "top", "wait", "waitHasData", "woken", "write",
              "wrote", "giveUp", "done"}
  /\ spc \in {"none", "start", "sync", "wait", "done"}

CountTypes ==
  /\ m_totalBufferUse \in Nat /\ m_emptyBuffers \in Nat /\ allocated \in Nat
  /\ left \in Nat /\ errcnt \in Nat /\ faults \in Nat
  /\ accepted \in Nat /\ cpos \in Nat /\ written \in Nat /\ lost \in Nat

BufferTypes == m_writeBuffers \in Seq(Run) /\ cur \in Run

FileTypes ==
  /\ m_filename \in Files /\ m_fd \in Files \cup {NoFile}
  /\ registry \in SUBSET Files
  /\ file \in [Files -> Seq(Nat)] /\ offset \in Nat
  /\ want \in Seq([file : Files, pos : Nat]) /\ Len(want) = accepted

\* Type correctness.
TypeOK ==
  FlagTypes /\ PlaceTypes /\ CountTypes /\ BufferTypes /\ FileTypes

\* The runs of s follow one another from a to z, none of them empty.
Chain(s, a, z) ==
  /\ a <= z
  /\ \A i \in 1 .. Len(s) :
       /\ s[i].lo < s[i].hi /\ s[i].hi <= z
       /\ s[i].lo = IF i = 1 THEN a ELSE s[i - 1].hi
  /\ z = IF s = <<>> THEN a ELSE Last(s).hi

\* The buffers the disk thread and Write exchange hold the accepted stream in
\* order, without a gap and without a repetition: the list starts where the
\* buffer taken last ended and ends with the last byte accepted.
StreamOrder ==
  /\ cur.lo <= cur.hi
  /\ Chain(m_writeBuffers, cur.hi, accepted)

\* Every byte that left the list was written once or is counted as lost.
Conservation == written + lost = cur.lo

\* m_totalBufferUse is what the list holds, until buffers have been thrown
\* away in the m_ignoreWrites branch of DiskLoop.
BufferUse ==
  /\ m_totalBufferUse >= accepted - cur.hi
  /\ ~dropped => m_totalBufferUse = accepted - cur.hi

\* Write never buffers more than its limit.
WithinLimit == m_totalBufferUse <= kMaxBufferSize * NonBlockingScale

\* Bytes are only lost to a write error, to the overflow of the buffers, to a
\* ReOpen that closed the file under a write, or to the destructor.
LossExplained ==
  lost > 0 => faults > 0 \/ dropped \/ disturbed \/ m_inDtor

\* Every byte on disk is in the file and at the position the client meant it
\* for.
Placed ==
  \A f \in Files : \A p \in 1 .. Len(file[f]) :
    file[f][p] # 0 => want[file[f][p]] = [file |-> f, pos |-> p]

\* ... unless lseek or close overtook the write of the buffer taken last, or
\* a buffer was given up after write errors without an end to the writing.
PlacedUnlessDisturbed == ~disturbed /\ ~skipped => Placed

\* Every TFWBuffer is on one of the lists or in the hands of the disk thread,
\* and the destructor deletes all of them.
NoBufferLeak ==
  /\ allocated = Len(m_writeBuffers) + m_emptyBuffers
                 + (IF dpc \in {"write", "wrote", "giveUp"} THEN 1 ELSE 0)
  /\ pc = "gone" => allocated = 0

\* Only the current file is ever registered as being written, and none is
\* once the writer is gone.
RegistryCurrent ==
  /\ registry \subseteq {m_filename}
  /\ pc = "gone" => registry = {}

\* Unless the writer has given up, every accepted byte is eventually handed to
\* write(2), whether or not the client makes another call.
DataReachesDisk ==
  \A k \in 1 .. MaxBytes :
    (accepted >= k) ~> (cur.lo >= k \/ m_ignoreWrites)

\* Every call returns: Flush and the calls that start with it, and Write as long
\* as the writer has not failed.
CallsReturn ==
  /\ pc \in {"flush", "flushWait"} ~> pc \in {"idle", "gone"}
  /\ pc \in {"write", "writeWait"} ~> (pc = "idle" \/ m_ignoreWrites)

-----------------------------------------------------------------------------
(* Two statements that the code does not keep; README.md tells how they fail. *)

\* SetBlocking: a Write that waits for room gets it.
WriteReturns == pc \in {"write", "writeWait"} ~> pc = "idle"

\* The destructor: without any write error or overflow, the file then holds
\* every byte accepted.
DtorCommitsAll ==
  pc = "gone" /\ faults = 0 /\ ~dropped => written = accepted
=============================================================================
