----------------------------- MODULE MThreadPool ----------------------------
(***************************************************************************)
(* libmythbase/mthreadpool.cpp: threads (MPoolThread) that wait for         *)
(* runnables, are handed one, expire and are deleted, and the clients that  *)
(* start runnables, wait for all of them, and shut the pool down.           *)
(*                                                                          *)
(* What is done under the pool's m_lock is one step, except where the code  *)
(* joins a thread (MThread::wait) with the lock held: `holder` is then the  *)
(* client that holds it.  The lock of a thread is only held for short       *)
(* sections, each inside one step.                                          *)
(***************************************************************************)
EXTENDS Naturals, Sequences, SequencesExt, FiniteSets

CONSTANTS
  Threads,        \* bound: MPoolThread objects that exist at a time
  Runnables,
  Clients,        \* threads that use the pool
  None,
  Priorities,     \* queues; a smaller number is served first
  MaxThreadCount, \* setMaxThreadCount
  Ops,            \* what clients do: "start", "tryStart", "startReserved",
                  \* "waitForDone", "Stop", "Delete"
  StartMayFail    \* the system may refuse to create a thread

ASSUME SetsAssumption ==
  /\ None \notin Threads /\ None \notin Runnables /\ None \notin Clients
  /\ IsFiniteSet(Threads) /\ IsFiniteSet(Runnables)
  /\ Priorities \subseteq Nat
  /\ MaxThreadCount \in Nat
  /\ StartMayFail \in BOOLEAN

VARIABLES
  m_running, m_runQueues, m_availThreads, m_runningThreads, m_deleteThreads,
  m_reserveThread,
  holder,     \* client that joins a thread with m_lock held, or None
  tpc,        \* position of a thread
  m_doRun, m_runnable, m_reserved,   \* members of MPoolThread
  rstate,     \* what became of a runnable
  cpc,        \* position of a client
  arg,        \* the call it makes: runnable, reserved, priority (start)
  target,     \* the thread it joins without the lock
  asleep,     \* clients that wait on m_wait in waitForDone
  reservations, \* number of reserved starts so far
  failed      \* the system once refused to run a thread

poolVars == <<m_running, m_runQueues, m_availThreads, m_runningThreads,
              m_deleteThreads, m_reserveThread>>
threadVars == <<tpc, m_doRun, m_runnable, m_reserved>>
clientVars == <<cpc, arg, target, asleep>>
vars == <<poolVars, threadVars, clientVars, holder, rstate, reservations, failed>>

Larger(a, b) == IF a >= b THEN a ELSE b
GetRealMaxThread == Larger(MaxThreadCount, 1) + m_reserveThread

NoArg == [r |-> None, reserved |-> FALSE, priority |-> None]
Args == [r : Runnables \cup {None}, reserved : BOOLEAN, priority : Priorities \cup {None}]

TypeOK ==
  /\ m_running \in BOOLEAN
  /\ m_runQueues \in [Priorities -> Seq(Runnables)]
  /\ m_availThreads \subseteq Threads
  /\ m_runningThreads \subseteq Threads
  /\ m_deleteThreads \in Seq(Threads)
  /\ m_reserveThread \in Nat
  /\ holder \in Clients \cup {None}
  /\ tpc \in [Threads -> {"none", "wait", "run", "release", "finish", "notify",
                          "done", "epilog", "ended"}]
  /\ m_doRun \in [Threads -> BOOLEAN]
  /\ m_runnable \in [Threads -> Runnables \cup {None}]
  /\ m_reserved \in [Threads -> BOOLEAN]
  /\ rstate \in [Runnables -> {"new", "starting", "queued", "given", "done", "refused"}]
  /\ cpc \in [Clients -> {"idle", "try", "offer", "wait", "sleep", "deleteWait",
                          "deleteSleep", "delete", "join", "gone"}]
  /\ arg \in [Clients -> Args]
  /\ target \in [Clients -> Threads \cup {None}]
  /\ asleep \subseteq Clients
  /\ reservations \in Nat
  /\ failed \in BOOLEAN

Init ==
  /\ m_running = TRUE
  /\ m_runQueues = [p \in Priorities |-> <<>>]
  /\ m_availThreads = {} /\ m_runningThreads = {} /\ m_deleteThreads = <<>>
  /\ m_reserveThread = 0
  /\ holder = None
  /\ tpc = [t \in Threads |-> "none"]
  /\ m_doRun = [t \in Threads |-> TRUE]
  /\ m_runnable = [t \in Threads |-> None]
  /\ m_reserved = [t \in Threads |-> FALSE]
  /\ rstate = [r \in Runnables |-> "new"]
  /\ cpc = [c \in Clients |-> "idle"]
  /\ arg = [c \in Clients |-> NoArg]
  /\ target = [c \in Clients |-> None]
  /\ asleep = {}
  /\ reservations = 0
  /\ failed = FALSE

Unlocked == holder = None

\* Slip: sleepers are not woken.
WakeAll_Lost == UNCHANGED asleep

\* m_wait.wakeAll(): those who sleep look again.
WakeAll == asleep' = {}

\* The queue served first, if any is not empty.
NonEmpty == {p \in Priorities : m_runQueues[p] # <<>>}
First == CHOOSE p \in NonEmpty : \A q \in NonEmpty : p <= q

-----------------------------------------------------------------------------
(* The threads: MPoolThread::run *)

ThreadFrame == UNCHANGED <<cpc, arg, target, holder, reservations, failed>>

\* The wait for a runnable ends with one ...
Wake(t) ==
  /\ tpc[t] = "wait"
  /\ m_runnable[t] # None
  /\ tpc' = [tpc EXCEPT ![t] = "run"]
  /\ UNCHANGED <<poolVars, m_doRun, m_runnable, m_reserved, rstate, asleep>>
  /\ ThreadFrame

\* Slip: the thread ends after the wait without a look at m_runnable.
Expire_Blind(t) ==
  /\ tpc[t] = "wait"
  /\ tpc' = [tpc EXCEPT ![t] = "done"]
  /\ m_doRun' = [m_doRun EXCEPT ![t] = FALSE]
  /\ UNCHANGED <<poolVars, m_runnable, m_reserved, rstate, asleep>>
  /\ ThreadFrame

\* ... or, after the expiry time or Shutdown, without: the thread is over.
Expire(t) ==
  /\ tpc[t] = "wait"
  /\ m_runnable[t] = None
  /\ tpc' = [tpc EXCEPT ![t] = "done"]
  /\ m_doRun' = [m_doRun EXCEPT ![t] = FALSE]
  /\ UNCHANGED <<poolVars, m_runnable, m_reserved, rstate, asleep>>
  /\ ThreadFrame

\* The runnable's run() returned.
RunnableEnds(t) ==
  /\ tpc[t] = "run"
  /\ rstate' = [rstate EXCEPT ![m_runnable[t]] = "done"]
  /\ tpc' = [tpc EXCEPT ![t] = IF m_reserved[t] THEN "release" ELSE "finish"]
  /\ UNCHANGED <<poolVars, m_doRun, m_runnable, m_reserved, asleep>>
  /\ ThreadFrame

\* Slip: the count is not lowered.
ReleaseThread_Forgets(t) ==
  /\ tpc[t] = "release"
  /\ tpc' = [tpc EXCEPT ![t] = "finish"]
  /\ UNCHANGED <<poolVars, m_doRun, m_runnable, m_reserved, rstate, asleep>>
  /\ ThreadFrame

ReleaseThread(t) ==
  /\ tpc[t] = "release"
  /\ Unlocked
  /\ m_reserveThread' = IF m_reserveThread > 0 THEN m_reserveThread - 1 ELSE 0
  /\ tpc' = [tpc EXCEPT ![t] = "finish"]
  /\ UNCHANGED <<m_running, m_runQueues, m_availThreads, m_runningThreads,
                 m_deleteThreads, m_doRun, m_runnable, m_reserved, rstate, asleep>>
  /\ ThreadFrame

\* The thread forgets the runnable; if it is to go on it tells the pool.
Finish(t) ==
  /\ tpc[t] = "finish"
  /\ m_runnable' = [m_runnable EXCEPT ![t] = None]
  /\ m_reserved' = [m_reserved EXCEPT ![t] = FALSE]
  /\ tpc' = [tpc EXCEPT ![t] = IF m_doRun[t] THEN "notify" ELSE "done"]
  /\ UNCHANGED <<poolVars, m_doRun, rstate, asleep>>
  /\ ThreadFrame

\* NotifyAvailable, when the pool was stopped meanwhile.
NotifyStopped(t) ==
  /\ tpc[t] = "notify"
  /\ Unlocked
  /\ ~m_running
  /\ m_runningThreads' = m_runningThreads \ {t}
  /\ m_doRun' = [m_doRun EXCEPT ![t] = FALSE]
  /\ m_deleteThreads' = <<t>> \o m_deleteThreads
  /\ WakeAll
  /\ tpc' = [tpc EXCEPT ![t] = "wait"]
  /\ UNCHANGED <<m_running, m_runQueues, m_availThreads, m_reserveThread,
                 m_runnable, m_reserved, rstate>>
  /\ ThreadFrame

\* Slip: the queues are not looked at.
NotifyIdle_Blind(t) ==
  /\ tpc[t] = "notify"
  /\ Unlocked
  /\ m_running
  /\ m_runningThreads' = m_runningThreads \ {t}
  /\ m_availThreads' = m_availThreads \cup {t}
  /\ WakeAll
  /\ tpc' = [tpc EXCEPT ![t] = "wait"]
  /\ UNCHANGED <<m_running, m_runQueues, m_deleteThreads, m_reserveThread,
                 m_doRun, m_runnable, m_reserved, rstate>>
  /\ ThreadFrame

\* NotifyAvailable with nothing queued.
NotifyIdle(t) ==
  /\ tpc[t] = "notify"
  /\ Unlocked
  /\ m_running
  /\ NonEmpty = {}
  /\ m_runningThreads' = m_runningThreads \ {t}
  /\ m_availThreads' = m_availThreads \cup {t}
  /\ WakeAll
  /\ tpc' = [tpc EXCEPT ![t] = "wait"]
  /\ UNCHANGED <<m_running, m_runQueues, m_deleteThreads, m_reserveThread,
                 m_doRun, m_runnable, m_reserved, rstate>>
  /\ ThreadFrame

\* NotifyAvailable hands over the first runnable queued.  HandoverAccepted says
\* that SetRunnable does not refuse it.
NotifyTake(t) ==
  /\ tpc[t] = "notify"
  /\ Unlocked
  /\ m_running
  /\ NonEmpty # {}
  /\ LET r == Head(m_runQueues[First])
     IN  /\ m_runQueues' = [m_runQueues EXCEPT ![First] = Tail(@)]
         /\ m_runnable' = [m_runnable EXCEPT ![t] = r]
         /\ rstate' = [rstate EXCEPT ![r] = "given"]
  /\ tpc' = [tpc EXCEPT ![t] = "wait"]
  /\ UNCHANGED <<m_running, m_availThreads, m_runningThreads, m_deleteThreads,
                 m_reserveThread, m_doRun, m_reserved, asleep>>
  /\ ThreadFrame

\* Slip: the thread may be in the list already.
NotifyDone_Twice(t) ==
  /\ tpc[t] = "done"
  /\ Unlocked
  /\ m_runningThreads' = m_runningThreads \ {t}
  /\ m_availThreads' = m_availThreads \ {t}
  /\ m_deleteThreads' = <<t>> \o m_deleteThreads
  /\ WakeAll
  /\ tpc' = [tpc EXCEPT ![t] = "epilog"]
  /\ UNCHANGED <<m_running, m_runQueues, m_reserveThread, m_doRun, m_runnable,
                 m_reserved, rstate>>
  /\ ThreadFrame

NotifyDone(t) ==
  /\ tpc[t] = "done"
  /\ Unlocked
  /\ m_runningThreads' = m_runningThreads \ {t}
  /\ m_availThreads' = m_availThreads \ {t}
  /\ m_deleteThreads' = IF Contains(m_deleteThreads, t) THEN m_deleteThreads
                                                       ELSE <<t>> \o m_deleteThreads
  /\ WakeAll
  /\ tpc' = [tpc EXCEPT ![t] = "epilog"]
  /\ UNCHANGED <<m_running, m_runQueues, m_reserveThread, m_doRun, m_runnable,
                 m_reserved, rstate>>
  /\ ThreadFrame

\* RunEpilog; run() returns.
End(t) ==
  /\ tpc[t] = "epilog"
  /\ tpc' = [tpc EXCEPT ![t] = "ended"]
  /\ UNCHANGED <<poolVars, m_doRun, m_runnable, m_reserved, rstate, asleep>>
  /\ ThreadFrame

Thread(t) ==
  \/ Wake(t) \/ Expire(t) \/ RunnableEnds(t) \/ ReleaseThread(t) \/ Finish(t)
  \/ NotifyStopped(t) \/ NotifyIdle(t) \/ NotifyTake(t) \/ NotifyDone(t) \/ End(t)

-----------------------------------------------------------------------------
(* start, tryStart, startReserved *)

Give(t, c) ==
  /\ m_runnable' = [m_runnable EXCEPT ![t] = arg[c].r]
  /\ m_reserved' = [m_reserved EXCEPT ![t] = arg[c].reserved]
  /\ rstate' = [rstate EXCEPT ![arg[c].r] = "given"]

Return(c) ==
  /\ cpc' = [cpc EXCEPT ![c] = "idle"]
  /\ arg' = [arg EXCEPT ![c] = NoArg]
  /\ holder' = None

\* The runnable could not be given to a thread: start queues it, the others
\* leave it to the caller.
Refuse(a) ==
  IF a.priority = None
    THEN /\ rstate' = [rstate EXCEPT ![a.r] = "refused"]
         /\ UNCHANGED m_runQueues
    ELSE /\ rstate' = [rstate EXCEPT ![a.r] = "queued"]
         /\ m_runQueues' = [m_runQueues EXCEPT ![a.priority] = Append(@, a.r)]

\* The arguments of the three calls; the wait of startReserved for a free
\* thread has a limit and changes nothing.
Calls(r) ==
     {[r |-> r, reserved |-> FALSE, priority |-> p] :
        p \in IF "start" \in Ops THEN Priorities ELSE {}}
  \cup {[r |-> r, reserved |-> x = "startReserved", priority |-> None] :
        x \in Ops \cap {"tryStart", "startReserved"}}

\* A call on a pool that was stopped.
CallStopped(c, r) ==
  /\ cpc[c] = "idle"
  /\ Unlocked
  /\ ~m_running
  /\ rstate[r] = "new"
  /\ \E a \in Calls(r) : Refuse(a)
  /\ UNCHANGED <<m_running, m_availThreads, m_runningThreads, m_deleteThreads,
                 m_reserveThread, threadVars, clientVars, holder, reservations, failed>>

\* A call begins and takes the lock (bound: there is an object for a new thread).
Call(c, r) ==
  /\ \E t \in Threads : tpc[t] = "none"
  /\ cpc[c] = "idle"
  /\ Unlocked
  /\ m_running
  /\ rstate[r] = "new"
  /\ \E a \in Calls(r) :
       /\ arg' = [arg EXCEPT ![c] = a]
       /\ reservations' = IF a.reserved THEN reservations + 1 ELSE reservations
  /\ rstate' = [rstate EXCEPT ![r] = "starting"]
  /\ holder' = c
  /\ cpc' = [cpc EXCEPT ![c] = "try"]
  /\ UNCHANGED <<poolVars, threadVars, target, asleep, failed>>

\* The thread joined with the lock held: the oldest one to be deleted.
Joined == Last(m_deleteThreads)

\* A thread that ended is deleted; its memory may be that of a new thread later.
DeleteThread(t) ==
  /\ tpc[t] = "ended"
  /\ tpc' = [tpc EXCEPT ![t] = "none"]
  /\ m_doRun' = [m_doRun EXCEPT ![t] = TRUE]
  /\ UNCHANGED <<m_runnable, m_reserved>>

\* The join returns and the thread is deleted.  The same loop stands in waitForDone.
DeleteLast(c) ==
  /\ m_deleteThreads # <<>>
  /\ DeleteThread(Joined)
  /\ m_deleteThreads' = Front(m_deleteThreads)
  /\ UNCHANGED <<m_running, m_runQueues, m_availThreads, m_runningThreads,
                 m_reserveThread, rstate, arg, target, asleep, reservations, failed, holder>>

TryDelete(c) ==
  /\ cpc[c] = "try"
  /\ DeleteLast(c)
  /\ UNCHANGED cpc

\* All joined; now the available threads are offered the runnable.
TryOffer(c) ==
  /\ cpc[c] = "try"
  /\ m_deleteThreads = <<>>
  /\ cpc' = [cpc EXCEPT ![c] = "offer"]
  /\ UNCHANGED <<poolVars, threadVars, rstate, arg, target, asleep, holder, reservations, failed>>

\* SetRunnable accepts.
OfferTaken(c, t) ==
  /\ cpc[c] = "offer"
  /\ t \in m_availThreads
  /\ m_doRun[t] /\ m_runnable[t] = None
  /\ m_availThreads' = m_availThreads \ {t}
  /\ m_runningThreads' = m_runningThreads \cup {t}
  /\ m_reserveThread' = IF arg[c].reserved THEN m_reserveThread + 1 ELSE m_reserveThread
  /\ Give(t, c)
  /\ Return(c)
  /\ UNCHANGED <<m_running, m_runQueues, m_deleteThreads, tpc, m_doRun, target,
                 asleep, reservations, failed>>

\* SetRunnable refuses: the thread has expired and waits to say so.
OfferRefused(c, t) ==
  /\ cpc[c] = "offer"
  /\ t \in m_availThreads
  /\ ~(m_doRun[t] /\ m_runnable[t] = None)
  /\ m_availThreads' = m_availThreads \ {t}
  /\ m_doRun' = [m_doRun EXCEPT ![t] = FALSE]
  /\ m_runningThreads' = m_runningThreads \ {t}
  /\ m_deleteThreads' = <<t>> \o m_deleteThreads
  /\ UNCHANGED <<m_running, m_runQueues, m_reserveThread, tpc, m_runnable, m_reserved,
                 rstate, clientVars, holder, reservations, failed>>

MayCreate(c) ==
  arg[c].reserved \/ Cardinality(m_runningThreads) < GetRealMaxThread

\* A new thread.
Create(c, t) ==
  /\ cpc[c] = "offer"
  /\ m_availThreads = {}
  /\ MayCreate(c)
  /\ tpc[t] = "none"
  /\ m_runningThreads' = m_runningThreads \cup {t}
  /\ m_reserveThread' = IF arg[c].reserved THEN m_reserveThread + 1 ELSE m_reserveThread
  /\ Give(t, c)
  /\ tpc' = [tpc EXCEPT ![t] = "wait"]
  /\ Return(c)
  /\ UNCHANGED <<m_running, m_runQueues, m_availThreads, m_deleteThreads, m_doRun,
                 target, asleep, reservations, failed>>

\* The system refuses to run it.
CreateFails(c, t) ==
  /\ StartMayFail
  /\ failed' = TRUE
  /\ cpc[c] = "offer"
  /\ m_availThreads = {}
  /\ MayCreate(c)
  /\ tpc[t] = "none"
  /\ tpc' = [tpc EXCEPT ![t] = "ended"]
  /\ m_doRun' = [m_doRun EXCEPT ![t] = FALSE]
  /\ m_deleteThreads' = <<t>> \o m_deleteThreads
  /\ Refuse(arg[c])
  /\ Return(c)
  /\ UNCHANGED <<m_running, m_availThreads, m_runningThreads, m_reserveThread,
                 m_runnable, m_reserved, target, asleep, reservations>>

\* Too many threads run.
TryFails(c) ==
  /\ cpc[c] = "offer"
  /\ m_availThreads = {}
  /\ ~MayCreate(c)
  /\ Refuse(arg[c])
  /\ Return(c)
  /\ UNCHANGED <<m_running, m_availThreads, m_runningThreads, m_deleteThreads,
                 m_reserveThread, threadVars, target, asleep, reservations, failed>>

-----------------------------------------------------------------------------
(* waitForDone, Stop, the destructor *)

\* Some client deletes the pool.
Deleting == \E d \in Clients : cpc[d] \in {"deleteWait", "deleteSleep", "delete", "join", "gone"}

\* waitForDone, called for itself or by DeletePoolThreads.
WaitBegin(c) ==
  /\ "waitForDone" \in Ops
  /\ cpc[c] = "idle"
  /\ ~Deleting
  /\ Unlocked
  /\ holder' = c
  /\ cpc' = [cpc EXCEPT ![c] = "wait"]
  /\ UNCHANGED <<poolVars, threadVars, arg, target, asleep, rstate, reservations, failed>>

Waiting(c) == cpc[c] \in {"wait", "deleteWait"}

WaitDelete(c) ==
  /\ Waiting(c)
  /\ holder = c
  /\ DeleteLast(c)
  /\ UNCHANGED cpc

\* Runnables are queued, or threads are not available.
Working == (m_running /\ NonEmpty # {}) \/ m_runningThreads \ m_availThreads # {}

WaitSleep(c) ==
  /\ Waiting(c)
  /\ holder = c
  /\ m_deleteThreads = <<>>
  /\ Working
  /\ asleep' = asleep \cup {c}
  /\ holder' = None
  /\ cpc' = [cpc EXCEPT ![c] = IF cpc[c] = "wait" THEN "sleep" ELSE "deleteSleep"]
  /\ UNCHANGED <<poolVars, threadVars, arg, target, rstate, reservations, failed>>

WaitWoken(c) ==
  /\ cpc[c] \in {"sleep", "deleteSleep"}
  /\ c \notin asleep
  /\ Unlocked
  /\ holder' = c
  /\ cpc' = [cpc EXCEPT ![c] = IF cpc[c] = "sleep" THEN "wait" ELSE "deleteWait"]
  /\ UNCHANGED <<poolVars, threadVars, arg, target, asleep, rstate, reservations, failed>>

WaitEnd(c) ==
  /\ Waiting(c)
  /\ holder = c
  /\ m_deleteThreads = <<>>
  /\ ~Working
  /\ holder' = None
  /\ cpc' = [cpc EXCEPT ![c] = IF cpc[c] = "wait" THEN "idle" ELSE "delete"]
  /\ UNCHANGED <<poolVars, threadVars, arg, target, asleep, rstate, reservations, failed>>

\* Stop: threads are told to end.
StopPool ==
  /\ m_running' = FALSE
  /\ m_doRun' = [t \in Threads |-> m_doRun[t] /\ t \notin m_availThreads \cup m_runningThreads]
  /\ WakeAll

Stop(c) ==
  /\ "Stop" \in Ops
  /\ cpc[c] = "idle"
  /\ Unlocked
  /\ m_running
  /\ StopPool
  /\ UNCHANGED <<m_runQueues, m_availThreads, m_runningThreads, m_deleteThreads,
                 m_reserveThread, tpc, m_runnable, m_reserved, cpc, arg, target,
                 holder, rstate, reservations, failed>>

\* The destructor (or ShutdownAllPools): Stop, then DeletePoolThreads, once and
\* when nobody else is inside a call.
Delete(c) ==
  /\ "Delete" \in Ops
  /\ \A d \in Clients : cpc[d] = "idle"
  /\ Unlocked
  /\ StopPool
  /\ cpc' = [cpc EXCEPT ![c] = "deleteWait"]
  /\ holder' = c
  /\ UNCHANGED <<m_runQueues, m_availThreads, m_runningThreads, m_deleteThreads,
                 m_reserveThread, tpc, m_runnable, m_reserved, arg, target, rstate,
                 reservations, failed>>

\* DeletePoolThreads after waitForDone: what is available is to be deleted; the
\* oldest one is joined with the lock released.
DeleteBegin(c) ==
  /\ cpc[c] = "delete"
  /\ Unlocked
  /\ \E s \in SetToSeqs(m_availThreads) : m_deleteThreads' = s \o m_deleteThreads
  /\ m_availThreads' = {}
  /\ IF m_deleteThreads' = <<>>
       THEN cpc' = [cpc EXCEPT ![c] = "gone"] /\ UNCHANGED target
       ELSE /\ target' = [target EXCEPT ![c] = Last(m_deleteThreads')]
            /\ cpc' = [cpc EXCEPT ![c] = "join"]
  /\ UNCHANGED <<m_running, m_runQueues, m_runningThreads, m_reserveThread,
                 threadVars, arg, asleep, holder, rstate, reservations, failed>>

\* The join returned; the thread is deleted, the next one follows.
DeleteJoined(c) ==
  /\ cpc[c] = "join"
  /\ Unlocked
  /\ DeleteThread(target[c])
  /\ m_deleteThreads' = IF Last(m_deleteThreads) = target[c]
                          THEN Front(m_deleteThreads)
                          ELSE SelectSeq(m_deleteThreads, LAMBDA t : t # target[c])
  /\ IF m_deleteThreads' = <<>>
       THEN /\ cpc' = [cpc EXCEPT ![c] = "gone"]
            /\ target' = [target EXCEPT ![c] = None]
       ELSE target' = [target EXCEPT ![c] = Last(m_deleteThreads')] /\ UNCHANGED cpc
  /\ UNCHANGED <<m_running, m_runQueues, m_availThreads, m_runningThreads,
                 m_reserveThread, arg, asleep, holder, rstate, reservations, failed>>

-----------------------------------------------------------------------------
\* What a client does once it has begun a call.
Continue(c) ==
  \/ TryDelete(c) \/ TryOffer(c) \/ TryFails(c)
  \/ \E t \in Threads : OfferTaken(c, t) \/ OfferRefused(c, t) \/ Create(c, t)
                        \/ CreateFails(c, t)
  \/ WaitDelete(c) \/ WaitSleep(c) \/ WaitWoken(c) \/ WaitEnd(c)
  \/ DeleteBegin(c) \/ DeleteJoined(c)

Client(c) ==
  \/ \E r \in Runnables : CallStopped(c, r) \/ Call(c, r)
  \/ WaitBegin(c) \/ Stop(c) \/ Delete(c)
  \/ Continue(c)

Next == (\E t \in Threads : Thread(t)) \/ (\E c \in Clients : Client(c))

Spec == Init /\ [][Next]_vars

\* Threads are scheduled, runnables end, and calls that began go on.  Strong
\* fairness where a step needs the lock: a QMutex is not kept from one waiting
\* thread for ever by others who take it again and again.
FairSpec ==
  /\ Spec
  /\ \A t \in Threads : SF_vars(Thread(t))
  /\ \A c \in Clients : SF_vars(Continue(c))

-----------------------------------------------------------------------------
(* Properties *)

\* The places <<queue, index>> where a runnable is queued.
Occurrences(r) == {o \in Priorities \X (1 .. Cardinality(Runnables)) :
                     o[2] <= Len(m_runQueues[o[1]]) /\ m_runQueues[o[1]][o[2]] = r}
Holders(r) == {t \in Threads : m_runnable[t] = r}

\* The branch of NotifyAvailable for a thread that refuses the runnable
\* (mthreadpool.cpp:460-471) is never needed: a thread that reports to a
\* running pool can take work.
HandoverAccepted ==
  \A t \in Threads : tpc[t] = "notify" /\ m_running => m_doRun[t] /\ m_runnable[t] = None

\* No runnable is lost and none is run twice: one that start accepted is queued
\* once or held by one thread, which has not run it and will (it is not ended),
\* until it is done; through hand-over, expiry, refusal and shutdown.
RunnablesKept ==
  /\ HandoverAccepted
  /\ \A r \in Runnables :
       /\ Cardinality(Occurrences(r)) = IF rstate[r] = "queued" THEN 1 ELSE 0
       /\ rstate[r] = "given" => /\ Cardinality(Holders(r)) = 1
                                 /\ \A t \in Holders(r) : tpc[t] \in {"wait", "run"}
       /\ rstate[r] \notin {"given", "done"} => Holders(r) = {}
       /\ rstate[r] = "done" => \A t \in Holders(r) : tpc[t] \in {"release", "finish"}

\* When the destructor is through no thread is left.
NoneLeft ==
  (\E c \in Clients : cpc[c] = "gone") => \A t \in Threads : tpc[t] = "none"

\* Every thread that exists is in exactly one of the pool's three lists, once,
\* so that whoever deletes the pool finds all of them, and none survives the pool.
ThreadsAccounted ==
  /\ TypeOK
  /\ NoneLeft
  /\ \A t \in Threads :
       LET available == IF t \in m_availThreads THEN 1 ELSE 0
           runs == IF t \in m_runningThreads THEN 1 ELSE 0
           deletes == Cardinality({i \in DOMAIN m_deleteThreads : m_deleteThreads[i] = t})
       IN  available + runs + deletes = IF tpc[t] = "none" THEN 0 ELSE 1

\* The count of reserved threads, kept by hand in four places, is the number of
\* threads that hold a reserved runnable and have not given the count back;
\* without reserved starts the pool never runs more threads than it may.
ReserveExact ==
  /\ m_reserveThread = Cardinality({t \in Threads : m_reserved[t] /\ tpc[t] \in {"wait", "run", "release"}})
  /\ reservations = 0 => Cardinality(m_runningThreads) <= Larger(MaxThreadCount, 1)

\* A client joins a thread with m_lock held, and the thread needs the lock before
\* it can end: nobody ever goes on.
Jam ==
  /\ \E c \in Clients : holder = c /\ (cpc[c] = "try" \/ Waiting(c))
  /\ m_deleteThreads # <<>>
  /\ tpc[Joined] \notin {"epilog", "ended"}

\* A runnable that is queued or given to a thread is run, unless the pool is
\* stopped or jammed or could not create a thread.
AcceptedRuns ==
  \A r \in Runnables :
    rstate[r] \in {"queued", "given"} ~> rstate[r] = "done" \/ Jam \/ ~m_running \/ failed

\* waitForDone returns when all runnables are done, and the destructor returns,
\* unless the pool is jammed or could not create a thread.
WaitsEnd ==
  \A c \in Clients : cpc[c] # "idle" ~> cpc[c] \in {"idle", "gone"} \/ Jam \/ failed

\* A statement that the code does not keep (README.md tells how it fails): the
\* destructor returns, and all threads have stopped.
DestructorReturns == Deleting ~> \E c \in Clients : cpc[c] = "gone"
=============================================================================
