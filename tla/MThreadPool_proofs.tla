-------------------------- MODULE MThreadPool_proofs --------------------------
(***************************************************************************)
(* Proofs about MThreadPool, for any number of threads, runnables, clients  *)
(* and priorities: no runnable is lost or run twice, every thread is in     *)
(* exactly one list, and the count of reserved threads is exact.            *)
(***************************************************************************)
EXTENDS MThreadPool, SequenceTheorems, FiniteSetTheorems, WellFoundedInduction,
        TLAPS

-----------------------------------------------------------------------------
(* The inductive invariant *)

\* The elements of a sequence, and that none is there twice.
Elems(s) == {s[i] : i \in 1 .. Len(s)}
Uniq(s) == \A i, j \in 1 .. Len(s) : s[i] = s[j] => i = j

\* The threads in the list of those to delete.
ToDelete == Elems(m_deleteThreads)

\* The calls whose client holds m_lock, and the steps of the destructor.
Inside == {"try", "offer", "wait", "deleteWait"}
Destroying == {"deleteWait", "deleteSleep", "delete", "join", "gone"}

\* Who is inside a call holds the lock; who starts a runnable does so in a pool
\* that runs, with a runnable nobody else has.
LockState ==
  \A c \in Clients :
    /\ cpc[c] \in Inside <=> holder = c
    /\ cpc[c] \in {"try", "offer"} =>
         /\ m_running
         /\ arg[c].r \in Runnables /\ rstate[arg[c].r] = "starting"
         /\ arg[c].reserved => reservations > 0

\* The destructor is alone, in a pool that was stopped; after its waitForDone no
\* thread runs, then none is available, and at the end none is to be deleted.
DeleteState ==
  \A c \in Clients :
    /\ cpc[c] \in Destroying =>
         ~m_running /\ \A d \in Clients : d # c => cpc[d] = "idle"
    /\ cpc[c] \in {"delete", "join", "gone"} => m_runningThreads = {}
    /\ cpc[c] \in {"join", "gone"} => m_availThreads = {}
    /\ cpc[c] = "join" => m_deleteThreads # <<>> /\ target[c] = Last(m_deleteThreads)
    /\ cpc[c] = "gone" => m_deleteThreads = <<>>

\* Which list a thread is in follows from where it is.
ThreadListed(t) ==
  /\ tpc[t] = "none" <=> t \notin m_availThreads \cup m_runningThreads \cup ToDelete
  /\ t \in m_availThreads => tpc[t] \in {"wait", "done"} /\ m_runnable[t] = None
  /\ tpc[t] \in {"run", "release", "finish", "notify"} => t \in m_runningThreads
  /\ m_runnable[t] # None => t \in m_runningThreads
  /\ tpc[t] \in {"epilog", "ended"} => t \in ToDelete
  /\ tpc[t] = "none" => m_doRun[t]
  /\ tpc[t] = "done" => ~m_doRun[t]
  /\ tpc[t] = "notify" /\ m_running => m_doRun[t]

\* A thread is in one list at most, and once.
ListState ==
  /\ Uniq(m_deleteThreads)
  /\ m_availThreads \cap m_runningThreads = {}
  /\ m_availThreads \cap ToDelete = {}
  /\ m_runningThreads \cap ToDelete = {}
  /\ \A t \in Threads : ThreadListed(t)

\* A thread that has a runnable is the only one, and is about to run it, or ran it.
HeldState ==
  /\ \A t \in Threads :
       /\ m_runnable[t] # None =>
            \/ rstate[m_runnable[t]] = "given" /\ tpc[t] \in {"wait", "run"}
            \/ rstate[m_runnable[t]] = "done" /\ tpc[t] \in {"release", "finish"}
       /\ tpc[t] \in {"run", "release", "finish"} => m_runnable[t] # None
  /\ \A t, u \in Threads :
       m_runnable[t] = m_runnable[u] /\ m_runnable[t] # None => t = u
  /\ \A r \in Runnables : rstate[r] = "given" => \E t \in Threads : m_runnable[t] = r

\* A runnable that is queued is queued once, and nothing else is.
QueueState ==
  /\ \A p \in Priorities : \A i \in 1 .. Len(m_runQueues[p]) :
       rstate[m_runQueues[p][i]] = "queued"
  /\ \A p, q \in Priorities :
       \A i \in 1 .. Len(m_runQueues[p]), j \in 1 .. Len(m_runQueues[q]) :
         m_runQueues[p][i] = m_runQueues[q][j] => p = q /\ i = j
  /\ \A r \in Runnables :
       rstate[r] = "queued" =>
         \E p \in Priorities : \E i \in 1 .. Len(m_runQueues[p]) : m_runQueues[p][i] = r

\* The threads that hold a reservation.
Reserving ==
  {t \in Threads : m_reserved[t] /\ tpc[t] \in {"wait", "run", "release"}}

ReserveState ==
  /\ \A t \in Threads :
       /\ m_reserved[t] => m_runnable[t] # None
       /\ tpc[t] = "release" => m_reserved[t]
       /\ reservations = 0 => ~m_reserved[t]
  /\ m_reserveThread = Cardinality(Reserving)
  /\ reservations = 0 =>
       Cardinality(m_runningThreads \cup m_availThreads) <= Larger(MaxThreadCount, 1)

IInv ==
  /\ TypeOK /\ LockState /\ DeleteState /\ ListState
  /\ HeldState /\ QueueState /\ ReserveState

-----------------------------------------------------------------------------
(* Sequences without repetition *)

\* push_front of what is not there.
LEMMA Prepended ==
  ASSUME NEW S, NEW s \in Seq(S), NEW x \in S, x \notin Elems(s), Uniq(s)
  PROVE  /\ <<x>> \o s \in Seq(S) /\ Uniq(<<x>> \o s)
         /\ Elems(<<x>> \o s) = Elems(s) \cup {x}
         /\ <<x>> \o s # <<>>
         /\ s # <<>> => Last(<<x>> \o s) = Last(s)
<1> DEFINE u == <<x>> \o s
<1>1. <<x>> \in Seq(S) /\ Len(<<x>>) = 1 /\ Len(s) \in Nat
  BY LenProperties
<1>2. /\ u \in Seq(S) /\ Len(u) = 1 + Len(s)
      /\ \A i \in 1 .. 1 + Len(s) : u[i] = IF i <= 1 THEN x ELSE s[i - 1]
  BY <1>1, ConcatProperties
<1> HIDE DEF u
<1>3. u[1] = x /\ \A i \in 1 .. Len(s) : i + 1 \in 1 .. Len(u) /\ u[i + 1] = s[i]
  BY <1>1, <1>2
<1>4. \A i \in 1 .. Len(u) : i = 1 \/ (i # 1 /\ i - 1 \in 1 .. Len(s) /\ u[i] = s[i - 1])
  BY <1>1, <1>2
<1>5. Uniq(u)
  <2> SUFFICES ASSUME NEW i \in 1 .. Len(u), NEW j \in 1 .. Len(u), u[i] = u[j]
               PROVE  i = j
    BY DEF Uniq
  <2>1. CASE i = 1
    BY <1>3, <1>4, <2>1 DEF Elems
  <2>2. CASE j = 1
    BY <1>3, <1>4, <2>2 DEF Elems
  <2>3. CASE i # 1 /\ j # 1
    <3>1. /\ i - 1 \in 1 .. Len(s) /\ j - 1 \in 1 .. Len(s)
          /\ s[i - 1] = s[j - 1]
      BY <1>4, <2>3
    <3>2. i - 1 = j - 1
      BY <3>1 DEF Uniq
    <3>3. QED  BY <3>2, <1>1, <1>2
  <2>4. QED  BY <2>1, <2>2, <2>3
<1>6. Elems(u) = Elems(s) \cup {x}
  <2>1. ASSUME NEW e \in Elems(u)  PROVE e \in Elems(s) \cup {x}
    BY <1>3, <1>4 DEF Elems
  <2>2. x \in Elems(u)
    BY <1>1, <1>2, <1>3 DEF Elems
  <2>3. ASSUME NEW e \in Elems(s)  PROVE e \in Elems(u)
    BY <1>3 DEF Elems
  <2>4. QED  BY <2>1, <2>2, <2>3
<1>7. u # <<>>
  BY <1>1, <1>2
<1>8. ASSUME s # <<>>  PROVE Last(u) = Last(s)
  <2>1. Len(s) \in 1 .. Len(s)
    BY <1>1, <1>8, EmptySeq
  <2>2. QED  BY <1>1, <1>2, <1>3, <2>1 DEF Last
<1>9. QED  BY <1>2, <1>5, <1>6, <1>7, <1>8 DEF u

\* pop_back.
LEMMA Popped ==
  ASSUME NEW S, NEW s \in Seq(S), s # <<>>, Uniq(s)
  PROVE  /\ Front(s) \in Seq(S) /\ Uniq(Front(s))
         /\ Elems(Front(s)) = Elems(s) \ {Last(s)}
         /\ Last(s) \in S /\ Last(s) \in Elems(s)
<1> DEFINE n == Len(s) - 1
           u == Front(s)
<1>1. n \in Nat /\ Len(s) = n + 1 /\ Len(s) \in 1 .. Len(s)
  BY LenProperties, EmptySeq
<1>2. \A i \in 1 .. n + 1 : s[i] \in S
  BY <1>1, ElementOfSeq
<1> HIDE DEF n
<1>3. /\ SubSeq(s, 1, n) \in Seq(S)
      /\ Len(SubSeq(s, 1, n)) = IF 1 <= n THEN n - 1 + 1 ELSE 0
      /\ \A i \in 1 .. n - 1 + 1 : SubSeq(s, 1, n)[i] = s[1 + i - 1]
  BY <1>1, <1>2, SubSeqProperties
<1>4. u = SubSeq(s, 1, n)
  BY DEF Front, n
<1> HIDE DEF u
<1>5. u \in Seq(S) /\ Len(u) = n
  BY <1>1, <1>3, <1>4
<1>6. ASSUME NEW i \in 1 .. n  PROVE u[i] = s[i] /\ i \in 1 .. Len(s) /\ i # n + 1
  <2>1. i \in 1 .. n - 1 + 1 /\ 1 + i - 1 = i
    BY <1>1
  <2>2. SubSeq(s, 1, n)[i] = s[i]
    BY <1>3, <2>1
  <2>3. i \in 1 .. Len(s) /\ i # n + 1
    BY <1>1
  <2>4. QED  BY <1>4, <2>2, <2>3
<1>7. Last(s) = s[n + 1]
  BY <1>1 DEF Last
<1>8. Uniq(u)
  BY <1>5, <1>6 DEF Uniq
<1>9. Elems(u) = Elems(s) \ {Last(s)}
  <2>1. ASSUME NEW e \in Elems(u)  PROVE e \in Elems(s) /\ e # Last(s)
    BY <1>1, <1>5, <1>6, <1>7 DEF Elems, Uniq
  <2>2. ASSUME NEW e \in Elems(s), e # Last(s)  PROVE e \in Elems(u)
    <3>1. PICK i \in 1 .. Len(s) : e = s[i]
      BY DEF Elems
    <3>2. i \in 1 .. n
      BY <1>1, <1>7, <2>2, <3>1
    <3>3. QED  BY <1>5, <1>6, <3>1, <3>2 DEF Elems
  <2>3. QED  BY <2>1, <2>2
<1>10. Last(s) \in S /\ Last(s) \in Elems(s)
  BY <1>1, <1>2, <1>7 DEF Elems
<1>11. QED  BY <1>5, <1>8, <1>9, <1>10 DEF u

\* A sequence of new elements put before it.
LEMMA PrependedAll ==
  ASSUME NEW S, NEW s \in Seq(S), NEW T \in SUBSET S, IsFiniteSet(T),
         NEW p \in SetToSeqs(T), T \cap Elems(s) = {}, Uniq(s)
  PROVE  /\ p \o s \in Seq(S) /\ Uniq(p \o s)
         /\ Elems(p \o s) = Elems(s) \cup T
<1> DEFINE n == Cardinality(T)
           u == p \o s
<1>1. n \in Nat
  BY FS_CardinalityType
<1>2. p \in [1 .. n -> T] /\ \A i, j \in 1 .. n : i # j => p[i] # p[j]
  BY DEF SetToSeqs
<1> HIDE DEF n
<1>3. p \in Seq(S) /\ Len(p) = n /\ Len(s) \in Nat
  <2>1. p \in [1 .. n -> S]
    BY <1>2
  <2>2. p \in Seq(S)
    BY <1>1, <2>1, SeqDef
  <2>3. QED  BY <1>1, <2>1, <2>2, LenProperties
<1>4. /\ u \in Seq(S) /\ Len(u) = n + Len(s)
      /\ \A i \in 1 .. n + Len(s) : u[i] = IF i <= n THEN p[i] ELSE s[i - n]
  BY <1>3, ConcatProperties
<1> HIDE DEF u
<1>5. \A i \in 1 .. Len(u) : \/ i \in 1 .. n /\ u[i] = p[i] /\ u[i] \in T
                            \/ /\ i \notin 1 .. n /\ i - n \in 1 .. Len(s)
                               /\ u[i] = s[i - n] /\ u[i] \in Elems(s)
  BY <1>1, <1>2, <1>3, <1>4 DEF Elems
<1>6. Uniq(u)
  <2> SUFFICES ASSUME NEW i \in 1 .. Len(u), NEW j \in 1 .. Len(u), u[i] = u[j]
               PROVE  i = j
    BY DEF Uniq
  <2>1. CASE i \in 1 .. n
    <3>1. j \in 1 .. n
      BY <1>5, <2>1
    <3>2. QED  BY <1>2, <1>5, <2>1, <3>1
  <2>2. CASE i \notin 1 .. n
    <3>1. j \notin 1 .. n
      BY <1>5, <2>2
    <3>2. i - n \in 1 .. Len(s) /\ j - n \in 1 .. Len(s) /\ s[i - n] = s[j - n]
      BY <1>5, <2>2, <3>1
    <3>3. i - n = j - n
      BY <3>2 DEF Uniq
    <3>4. QED  BY <1>1, <1>3, <1>4, <3>3
  <2>3. QED  BY <2>1, <2>2
<1>7. T \subseteq {p[i] : i \in 1 .. n}
  <2>1. p \in Injection(1 .. n, T)
    BY <1>2 DEF Injection, IsInjective
  <2>2. Cardinality(1 .. n) = n /\ IsFiniteSet(1 .. n)
    BY <1>1, FS_Interval
  <2>3. p \in Surjection(1 .. n, T)
    BY <2>1, <2>2, FS_SurjSameCardinalityImpliesInj, FS_Injection DEF n
  <2>4. QED  BY <2>3 DEF Surjection
<1>8. Elems(u) = Elems(s) \cup T
  <2>1. ASSUME NEW e \in Elems(u)  PROVE e \in Elems(s) \cup T
    BY <1>5 DEF Elems
  <2>2. ASSUME NEW e \in T  PROVE e \in Elems(u)
    <3>1. PICK i \in 1 .. n : e = p[i]
      BY <1>7
    <3>2. i \in 1 .. Len(u) /\ u[i] = p[i]
      BY <1>1, <1>3, <1>4
    <3>3. QED  BY <3>1, <3>2 DEF Elems
  <2>3. ASSUME NEW e \in Elems(s)  PROVE e \in Elems(u)
    <3>1. PICK i \in 1 .. Len(s) : e = s[i]
      BY DEF Elems
    <3>2. i + n \in 1 .. Len(u) /\ u[i + n] = s[i]
      BY <1>1, <1>3, <1>4
    <3>3. QED  BY <3>1, <3>2 DEF Elems
  <2>4. QED  BY <2>1, <2>2, <2>3
<1>9. QED  BY <1>4, <1>6, <1>8 DEF u

-----------------------------------------------------------------------------
(* The queues *)

\* push_back: what is appended comes after all the others.
LEMMA Appended ==
  ASSUME NEW S, NEW s \in Seq(S), NEW x \in S
  PROVE  /\ Append(s, x) \in Seq(S) /\ Len(s) \in Nat /\ Len(Append(s, x)) = Len(s) + 1
         /\ \A i \in 1 .. Len(s) : Append(s, x)[i] = s[i] /\ s[i] \in S
         /\ Append(s, x)[Len(s) + 1] = x
  BY AppendProperties, LenProperties, ElementOfSeq

\* pop_front: the others move up by one.
LEMMA Taken ==
  ASSUME NEW S, NEW s \in Seq(S), s # <<>>
  PROVE  /\ Tail(s) \in Seq(S) /\ Len(s) \in Nat /\ 1 <= Len(s) /\ Len(Tail(s)) = Len(s) - 1
         /\ \A i \in 1 .. Len(s) - 1 : Tail(s)[i] = s[i + 1]
         /\ Head(s) = s[1] /\ Head(s) \in S
  BY HeadTailProperties, LenProperties, EmptySeq, ElementOfSeq

\* The keys of the queues are numbers, so there is a first one that is not empty.
LEMMA FirstExists ==
  ASSUME NonEmpty # {}
  PROVE  First \in NonEmpty
<1>1. NonEmpty \subseteq Nat
  BY SetsAssumption DEF NonEmpty
<1>2. PICK x \in NonEmpty : \A y \in NonEmpty : ~(<<y, x>> \in OpToRel(<, Nat))
  BY <1>1, NatLessThanWellFounded, WFMin
<1>3. ASSUME NEW y \in NonEmpty, y < x  PROVE FALSE
  <2>1. <<y, x>> \in OpToRel(<, Nat)
    BY <1>1, <1>3 DEF OpToRel
  <2>2. QED  BY <1>2, <2>1
<1>4. \A y \in NonEmpty : x <= y
  BY <1>1, <1>3
<1>5. QED  BY <1>4 DEF First

\* A runnable that is not queued changes its state and is still not queued.
LEMMA QueuesKept ==
  ASSUME TypeOK, QueueState, UNCHANGED m_runQueues, NEW r \in Runnables, NEW v,
         rstate[r] # "queued", v # "queued", rstate' = [rstate EXCEPT ![r] = v]
  PROVE  QueueState'
<1>1. \A q \in Priorities : \A i \in 1 .. Len(m_runQueues[q]) : m_runQueues[q][i] \in Runnables
  BY ElementOfSeq DEF TypeOK
<1>2. \A q \in Priorities : \A i \in 1 .. Len(m_runQueues[q]) : rstate'[m_runQueues[q][i]] = "queued"
  BY <1>1 DEF TypeOK, QueueState
<1>3. QED  BY <1>2 DEF TypeOK, QueueState

\* A runnable is put into a queue.
LEMMA QueuesGrow ==
  ASSUME TypeOK, QueueState, NEW r \in Runnables, NEW p \in Priorities, rstate[r] # "queued",
         rstate' = [rstate EXCEPT ![r] = "queued"],
         m_runQueues' = [m_runQueues EXCEPT ![p] = Append(@, r)]
  PROVE  QueueState' /\ m_runQueues' \in [Priorities -> Seq(Runnables)]
<1> DEFINE Q == m_runQueues
           R == m_runQueues'
<1>1. Q \in [Priorities -> Seq(Runnables)] /\ Q[p] \in Seq(Runnables)
  BY DEF TypeOK
<1>2. /\ R \in [Priorities -> Seq(Runnables)]
      /\ R[p] = Append(Q[p], r) /\ \A q \in Priorities : q # p => R[q] = Q[q]
  BY <1>1, Appended
<1>3. /\ Len(Q[p]) \in Nat /\ Len(R[p]) = Len(Q[p]) + 1 /\ R[p][Len(Q[p]) + 1] = r
      /\ \A i \in 1 .. Len(Q[p]) : R[p][i] = Q[p][i]
  BY <1>1, <1>2, Appended
<1>4. \A q \in Priorities : \A i \in 1 .. Len(Q[q]) :
         Q[q][i] \in Runnables /\ rstate[Q[q][i]] = "queued" /\ Q[q][i] # r
  BY <1>1, ElementOfSeq DEF QueueState
<1>5. \A q \in Priorities, i \in Nat :
         i \in 1 .. Len(R[q]) <=>
           \/ i \in 1 .. Len(Q[q])
           \/ q = p /\ i = Len(Q[p]) + 1
  BY <1>2, <1>3
<1>6. \A q \in Priorities, i \in Nat :
         i \in 1 .. Len(Q[q]) => R[q][i] = Q[q][i] /\ ~(q = p /\ i = Len(Q[p]) + 1)
  BY <1>2, <1>3
<1>7. rstate' \in [Runnables -> {"new", "starting", "queued", "given", "done", "refused"}]
      /\ rstate'[r] = "queued" /\ \A x \in Runnables : x # r => rstate'[x] = rstate[x]
  BY DEF TypeOK
<1>8. ASSUME NEW q \in Priorities, NEW i \in 1 .. Len(R[q])
      PROVE  rstate'[R[q][i]] = "queued"
  <2>1. i \in Nat
    BY <1>2
  <2>2. QED  BY <1>3, <1>4, <1>5, <1>6, <1>7, <2>1
<1>9. ASSUME NEW q \in Priorities, NEW o \in Priorities,
             NEW i \in 1 .. Len(R[q]), NEW j \in 1 .. Len(R[o]), R[q][i] = R[o][j]
      PROVE  q = o /\ i = j
  <2>1. i \in Nat /\ j \in Nat
    BY <1>2
  <2>2. CASE i \in 1 .. Len(Q[q]) /\ j \in 1 .. Len(Q[o])
    BY <1>6, <1>9, <2>1, <2>2 DEF QueueState
  <2>3. CASE ~(i \in 1 .. Len(Q[q]) /\ j \in 1 .. Len(Q[o]))
    BY <1>3, <1>4, <1>5, <1>6, <1>9, <2>1, <2>3
  <2>4. QED  BY <2>2, <2>3
<1>10. ASSUME NEW x \in Runnables, rstate'[x] = "queued"
       PROVE  \E q \in Priorities : \E i \in 1 .. Len(R[q]) : R[q][i] = x
  <2>1. CASE x = r
    <3>1. Len(Q[p]) + 1 \in 1 .. Len(R[p])
      BY <1>3
    <3>2. QED  BY <1>3, <2>1, <3>1
  <2>2. CASE x # r
    <3>1. PICK q \in Priorities : \E i \in 1 .. Len(Q[q]) : Q[q][i] = x
      BY <1>10, <1>7, <2>2 DEF QueueState
    <3>2. PICK i \in 1 .. Len(Q[q]) : Q[q][i] = x
      BY <3>1
    <3>3. i \in Nat
      BY <1>1
    <3>4. QED  BY <1>5, <1>6, <3>2, <3>3
  <2>3. QED  BY <2>1, <2>2
<1>11. QED  BY <1>2, <1>8, <1>9, <1>10 DEF QueueState

\* The head of a queue is taken from it.
LEMMA QueuesShrink ==
  ASSUME TypeOK, QueueState, NEW p \in Priorities, m_runQueues[p] # <<>>, NEW v,
         v # "queued", rstate' = [rstate EXCEPT ![Head(m_runQueues[p])] = v],
         m_runQueues' = [m_runQueues EXCEPT ![p] = Tail(@)]
  PROVE  /\ QueueState' /\ m_runQueues' \in [Priorities -> Seq(Runnables)]
         /\ Head(m_runQueues[p]) \in Runnables /\ rstate[Head(m_runQueues[p])] = "queued"
<1> DEFINE Q == m_runQueues
           R == m_runQueues'
           r == Head(Q[p])
<1>1. Q \in [Priorities -> Seq(Runnables)] /\ Q[p] \in Seq(Runnables)
  BY DEF TypeOK
<1>2. /\ R \in [Priorities -> Seq(Runnables)]
      /\ R[p] = Tail(Q[p]) /\ \A q \in Priorities : q # p => R[q] = Q[q]
  BY <1>1, Taken
<1>3. /\ Len(Q[p]) \in Nat /\ 1 <= Len(Q[p]) /\ Len(R[p]) = Len(Q[p]) - 1
      /\ r = Q[p][1] /\ r \in Runnables
      /\ \A i \in 1 .. Len(Q[p]) - 1 : R[p][i] = Q[p][i + 1]
  BY <1>1, <1>2, Taken
<1>4. 1 \in 1 .. Len(Q[p]) /\ rstate[r] = "queued"
  BY <1>3 DEF QueueState
<1> DEFINE at(q, i) == IF q = p THEN i + 1 ELSE i
<1>5. \A q \in Priorities : \A i \in 1 .. Len(R[q]) :
         at(q, i) \in 1 .. Len(Q[q]) /\ R[q][i] = Q[q][at(q, i)] /\ ~(q = p /\ at(q, i) = 1)
  BY <1>2, <1>3
<1>6. \A q \in Priorities : \A i \in 1 .. Len(Q[q]) :
         ~(q = p /\ i = 1) => Q[q][i] # r
  BY <1>3, <1>4 DEF QueueState
<1>7. rstate'[r] = v /\ \A x \in Runnables : x # r => rstate'[x] = rstate[x]
  BY <1>3 DEF TypeOK
<1> HIDE DEF r
<1>8. ASSUME NEW q \in Priorities, NEW i \in 1 .. Len(R[q])
      PROVE  rstate'[R[q][i]] = "queued"
  <2>1. PICK j \in 1 .. Len(Q[q]) : R[q][i] = Q[q][j] /\ Q[q][j] # r
    BY <1>5, <1>6
  <2>2. Q[q][j] \in Runnables /\ rstate[Q[q][j]] = "queued"
    BY <1>1, ElementOfSeq DEF QueueState
  <2>3. QED  BY <1>7, <2>1, <2>2
<1>9. ASSUME NEW q \in Priorities, NEW o \in Priorities,
             NEW i \in 1 .. Len(R[q]), NEW j \in 1 .. Len(R[o]), R[q][i] = R[o][j]
      PROVE  q = o /\ i = j
  <2>1. q = o /\ at(q, i) = at(o, j)
    <3> HIDE DEF at
    <3> QED  BY <1>5, <1>9 DEF QueueState
  <2>2. QED  BY <2>1, <1>2
<1>10. ASSUME NEW x \in Runnables, rstate'[x] = "queued"
       PROVE  \E q \in Priorities : \E i \in 1 .. Len(R[q]) : R[q][i] = x
  <2>1. x # r /\ rstate[x] = "queued"
    BY <1>7, <1>10
  <2>2. PICK q \in Priorities : \E i \in 1 .. Len(Q[q]) : Q[q][i] = x
    BY <2>1 DEF QueueState
  <2>3. PICK i \in 1 .. Len(Q[q]) : Q[q][i] = x
    BY <2>2
  <2>4. CASE q # p
    BY <1>2, <2>3, <2>4
  <2>5. CASE q = p
    <3>1. i # 1
      BY <1>3, <2>1, <2>3, <2>5
    <3>2. i - 1 \in 1 .. Len(Q[p]) - 1 /\ (i - 1) + 1 = i
      BY <1>3, <2>5, <3>1
    <3>3. i - 1 \in 1 .. Len(R[p]) /\ R[p][i - 1] = x
      BY <1>3, <2>3, <2>5, <3>2
    <3>4. QED  BY <2>5, <3>3
  <2>6. QED  BY <2>4, <2>5
<1>11. QED  BY <1>2, <1>3, <1>4, <1>8, <1>9, <1>10 DEF QueueState, r

\* What a call that found no thread does with its runnable.
LEMMA Refused ==
  ASSUME TypeOK, QueueState, NEW a \in Args, a.r \in Runnables, rstate[a.r] # "queued",
         Refuse(a)
  PROVE  /\ QueueState' /\ m_runQueues' \in [Priorities -> Seq(Runnables)]
         /\ rstate' \in [Runnables -> {"new", "starting", "queued", "given", "done", "refused"}]
         /\ rstate'[a.r] \in {"refused", "queued"}
         /\ \A r \in Runnables : r # a.r => rstate'[r] = rstate[r]
<1>1. CASE a.priority = None
  <2>1. rstate' = [rstate EXCEPT ![a.r] = "refused"] /\ UNCHANGED m_runQueues
    BY <1>1 DEF Refuse
  <2>2. QueueState'
    BY <2>1, QueuesKept
  <2>3. QED  BY <2>1, <2>2 DEF TypeOK
<1>2. CASE a.priority # None
  <2>1. /\ rstate' = [rstate EXCEPT ![a.r] = "queued"]
        /\ m_runQueues' = [m_runQueues EXCEPT ![a.priority] = Append(@, a.r)]
    BY <1>2 DEF Refuse
  <2>2. a.priority \in Priorities
    BY <1>2 DEF Args
  <2>3. QueueState' /\ m_runQueues' \in [Priorities -> Seq(Runnables)]
    BY <2>1, <2>2, QueuesGrow
  <2>4. QED  BY <2>1, <2>3 DEF TypeOK
<1>3. QED  BY <1>1, <1>2

\* The arguments of a call name its runnable.
LEMMA CallArgs ==
  ASSUME NEW r \in Runnables, NEW a \in Calls(r)
  PROVE  a \in Args /\ a.r = r
<1>1. CASE \E p \in Priorities : a = [r |-> r, reserved |-> FALSE, priority |-> p]
  BY <1>1 DEF Args
<1>2. CASE \E x \in Ops : a = [r |-> r, reserved |-> x = "startReserved", priority |-> None]
  BY <1>2 DEF Args
<1>3. QED  BY <1>1, <1>2 DEF Calls

-----------------------------------------------------------------------------
(* Runnables and the threads that hold them *)

\* A thread without a runnable is given one that no thread has.
LEMMA HeldGiven ==
  ASSUME TypeOK, HeldState, NEW t \in Threads, NEW r \in Runnables,
         m_runnable[t] = None, rstate[r] \notin {"given", "done"},
         m_runnable'[t] = r, rstate'[r] = "given", tpc'[t] = "wait",
         \A u \in Threads : u # t => m_runnable'[u] = m_runnable[u] /\ tpc'[u] = tpc[u],
         \A x \in Runnables : x # r => rstate'[x] = rstate[x]
  PROVE  HeldState'
<1>1. ASSUME NEW u \in Threads, m_runnable[u] # None
      PROVE  m_runnable[u] # r /\ m_runnable[u] \in Runnables
  BY <1>1 DEF HeldState, TypeOK
<1>2. ASSUME NEW u \in Threads
      PROVE  /\ m_runnable'[u] # None =>
                  \/ rstate'[m_runnable'[u]] = "given" /\ tpc'[u] \in {"wait", "run"}
                  \/ rstate'[m_runnable'[u]] = "done" /\ tpc'[u] \in {"release", "finish"}
             /\ tpc'[u] \in {"run", "release", "finish"} => m_runnable'[u] # None
  BY <1>1 DEF HeldState
<1>3. ASSUME NEW u \in Threads, NEW w \in Threads,
             m_runnable'[u] = m_runnable'[w], m_runnable'[u] # None
      PROVE  u = w
  BY <1>1, <1>3 DEF HeldState
<1>4. ASSUME NEW x \in Runnables, rstate'[x] = "given"
      PROVE  \E u \in Threads : m_runnable'[u] = x
  <2>1. CASE x # r
    <3>1. PICK u \in Threads : m_runnable[u] = x
      BY <1>4, <2>1 DEF HeldState
    <3>2. u # t
      BY <3>1, SetsAssumption
    <3>3. QED  BY <3>1, <3>2
  <2>2. QED  BY <2>1
<1>5. QED  BY <1>2, <1>3, <1>4 DEF HeldState

-----------------------------------------------------------------------------
(* The count of reserved threads *)

LEMMA Finite ==
  ASSUME TypeOK
  PROVE  /\ IsFiniteSet(Reserving) /\ Cardinality(Reserving) \in Nat
         /\ IsFiniteSet(m_runningThreads) /\ IsFiniteSet(m_availThreads)
         /\ IsFiniteSet(m_runningThreads \cup m_availThreads)
         /\ Cardinality(m_runningThreads \cup m_availThreads) \in Nat
<1>1. /\ Reserving \subseteq Threads /\ m_runningThreads \subseteq Threads
      /\ m_availThreads \subseteq Threads /\ m_runningThreads \cup m_availThreads \subseteq Threads
  BY DEF TypeOK, Reserving
<1>2. QED  BY <1>1, SetsAssumption, FS_Subset, FS_CardinalityType

\* A step that leaves the reservations and brings no thread.
LEMMA ReserveKept ==
  ASSUME TypeOK, ReserveState, UNCHANGED <<m_reserveThread, reservations>>,
         Reserving' = Reserving,
         (m_runningThreads \cup m_availThreads)' \subseteq m_runningThreads \cup m_availThreads,
         \A t \in Threads :
           /\ m_reserved'[t] => m_runnable'[t] # None
           /\ tpc'[t] = "release" => m_reserved'[t]
           /\ reservations' = 0 => ~m_reserved'[t]
  PROVE  ReserveState'
<1>1. Cardinality((m_runningThreads \cup m_availThreads)')
        <= Cardinality(m_runningThreads \cup m_availThreads)
      /\ Cardinality((m_runningThreads \cup m_availThreads)') \in Nat
  BY Finite, FS_Subset, FS_CardinalityType
<1>2. Larger(MaxThreadCount, 1) \in Nat
  BY SetsAssumption DEF Larger
<1>3. m_reserveThread' = Cardinality(Reserving')
  BY DEF ReserveState
<1>4. reservations' = 0 => Cardinality((m_runningThreads \cup m_availThreads)')
                              <= Larger(MaxThreadCount, 1)
  BY <1>1, <1>2, Finite DEF ReserveState
<1>5. QED  BY <1>3, <1>4 DEF ReserveState, Larger

\* A thread takes a runnable; the call may be a reserved one.
LEMMA ReserveGiven ==
  ASSUME IInv, NEW c \in Clients, NEW t \in Threads, cpc[c] = "offer",
         UNCHANGED reservations,
         m_reserveThread' = IF arg[c].reserved THEN m_reserveThread + 1 ELSE m_reserveThread,
         m_runnable[t] = None, m_runnable' = [m_runnable EXCEPT ![t] = arg[c].r],
         m_reserved' = [m_reserved EXCEPT ![t] = arg[c].reserved],
         tpc'[t] = "wait", \A u \in Threads : u # t => tpc'[u] = tpc[u],
         reservations = 0 => Cardinality((m_runningThreads \cup m_availThreads)')
                               <= Larger(MaxThreadCount, 1)
  PROVE  ReserveState'
<1> USE DEF IInv
<1>1. /\ arg[c].r \in Runnables /\ arg[c].r # None /\ arg[c].reserved \in BOOLEAN
      /\ arg[c].reserved => reservations > 0
  BY SetsAssumption DEF LockState, TypeOK, Args
<1>2. ~m_reserved[t] /\ t \notin Reserving
  BY DEF ReserveState, Reserving
<1>3. /\ m_runnable'[t] = arg[c].r /\ m_reserved'[t] = arg[c].reserved
      /\ \A u \in Threads : u # t => m_runnable'[u] = m_runnable[u] /\ m_reserved'[u] = m_reserved[u]
  BY DEF TypeOK
<1>4. m_reserveThread' = Cardinality(Reserving')
  <2>1. CASE arg[c].reserved
    <3>1. Reserving' = Reserving \cup {t}
      BY <1>3, <2>1 DEF Reserving
    <3>2. Cardinality(Reserving') = Cardinality(Reserving) + 1
      BY <1>2, <3>1, Finite, FS_AddElement
    <3>3. QED  BY <2>1, <3>2 DEF ReserveState
  <2>2. CASE ~arg[c].reserved
    <3>1. Reserving' = Reserving
      BY <1>2, <1>3, <2>2 DEF Reserving
    <3>2. QED  BY <2>2, <3>1 DEF ReserveState
  <2>3. QED  BY <1>1, <2>1, <2>2
<1>5. ASSUME NEW u \in Threads
      PROVE  /\ m_reserved'[u] => m_runnable'[u] # None
             /\ tpc'[u] = "release" => m_reserved'[u]
             /\ reservations' = 0 => ~m_reserved'[u]
  BY <1>1, <1>3 DEF ReserveState, TypeOK
<1>6. QED  BY <1>4, <1>5 DEF ReserveState, Larger

-----------------------------------------------------------------------------
(* The steps *)

\* The thread looks at its runnable.
LEMMA WakeKeeps ==
  ASSUME IInv, NEW t \in Threads, Wake(t)
  PROVE  IInv'
<1>1. UNCHANGED <<m_running, m_runQueues, m_availThreads, m_runningThreads,
                   m_deleteThreads, m_reserveThread, m_doRun, m_runnable,
                   m_reserved, cpc, arg, target, asleep, holder, rstate,
                   reservations, failed>>
  BY DEF Wake, poolVars, threadVars, clientVars, ThreadFrame
<1> USE <1>1 DEF IInv
<1>2. TypeOK'
  BY SetsAssumption DEF TypeOK, Args, NoArg, Wake
<1>3. ListState'
  BY SetsAssumption DEF ListState, ThreadListed, ToDelete, TypeOK, Wake, Unlocked
<1>4. HeldState'
  BY SetsAssumption DEF HeldState, TypeOK, Wake, Unlocked
<1>5. ReserveState'
  BY SetsAssumption DEF ReserveState, Reserving, TypeOK, Wake, Unlocked
<1>6. LockState' /\ DeleteState' /\ QueueState'
  BY DEF LockState, DeleteState, QueueState, Inside, Destroying
<1>7. QED  BY <1>2, <1>3, <1>4, <1>5, <1>6

\* The thread gave up waiting.
LEMMA ExpireKeeps ==
  ASSUME IInv, NEW t \in Threads, Expire(t)
  PROVE  IInv'
<1>1. UNCHANGED <<m_running, m_runQueues, m_availThreads, m_runningThreads,
                   m_deleteThreads, m_reserveThread, m_runnable, m_reserved, cpc,
                   arg, target, asleep, holder, rstate, reservations, failed>>
  BY DEF Expire, poolVars, threadVars, clientVars, ThreadFrame
<1> USE <1>1 DEF IInv
<1>2. TypeOK'
  BY SetsAssumption DEF TypeOK, Args, NoArg, Expire
<1>3. ListState'
  BY SetsAssumption DEF ListState, ThreadListed, ToDelete, TypeOK, Expire, Unlocked
<1>4. HeldState'
  BY SetsAssumption DEF HeldState, TypeOK, Expire, Unlocked
<1>5. ReserveState'
  BY SetsAssumption DEF ReserveState, Reserving, TypeOK, Expire, Unlocked
<1>6. LockState' /\ DeleteState' /\ QueueState'
  BY DEF LockState, DeleteState, QueueState, Inside, Destroying
<1>7. QED  BY <1>2, <1>3, <1>4, <1>5, <1>6

\* A runnable is done.
LEMMA RunnableEndsKeeps ==
  ASSUME IInv, NEW t \in Threads, RunnableEnds(t)
  PROVE  IInv'
<1>1. UNCHANGED <<m_running, m_runQueues, m_availThreads, m_runningThreads,
                   m_deleteThreads, m_reserveThread, m_doRun, m_runnable,
                   m_reserved, cpc, arg, target, asleep, holder, reservations,
                   failed>>
  BY DEF RunnableEnds, poolVars, threadVars, clientVars, ThreadFrame
<1> USE <1>1 DEF IInv
<1> DEFINE r == m_runnable[t]
<1>2. r \in Runnables /\ rstate[r] = "given" /\ rstate' = [rstate EXCEPT ![r] = "done"]
  BY DEF RunnableEnds, HeldState, TypeOK
<1>3. TypeOK'
  BY SetsAssumption DEF TypeOK, Args, NoArg, RunnableEnds
<1>4. LockState'
  <2>1. \A d \in Clients : cpc[d] \in {"try", "offer"} => arg[d].r # r
    BY <1>2 DEF LockState
  <2>2. QED  BY <1>2, <2>1 DEF LockState, Inside, TypeOK
<1>5. ListState'
  BY SetsAssumption DEF ListState, ThreadListed, ToDelete, TypeOK, RunnableEnds, Unlocked
<1>6. HeldState'
  BY SetsAssumption DEF HeldState, TypeOK, RunnableEnds, Unlocked
<1>7. QueueState'
  BY <1>2, QueuesKept
<1>8. ReserveState'
  BY SetsAssumption DEF ReserveState, Reserving, TypeOK, RunnableEnds, Unlocked
<1>9. DeleteState'
  BY DEF DeleteState, Destroying
<1>10. QED  BY <1>3, <1>4, <1>5, <1>6, <1>7, <1>8, <1>9

\* The reservation is given back.
LEMMA ReleaseThreadKeeps ==
  ASSUME IInv, NEW t \in Threads, ReleaseThread(t)
  PROVE  IInv'
<1>1. UNCHANGED <<m_running, m_runQueues, m_availThreads, m_runningThreads,
                   m_deleteThreads, m_doRun, m_runnable, m_reserved, cpc, arg,
                   target, asleep, holder, rstate, reservations, failed>>
  BY DEF ReleaseThread, poolVars, threadVars, clientVars, ThreadFrame
<1> USE <1>1 DEF IInv
<1>2. TypeOK'
  BY SetsAssumption DEF TypeOK, Args, NoArg, ReleaseThread
<1>3. ListState'
  BY SetsAssumption DEF ListState, ThreadListed, ToDelete, TypeOK, ReleaseThread, Unlocked
<1>4. HeldState'
  BY SetsAssumption DEF HeldState, TypeOK, ReleaseThread, Unlocked
<1>5. ReserveState'
  <2>1. t \in Reserving /\ m_reserveThread = Cardinality(Reserving)
    BY DEF ReserveState, Reserving, ReleaseThread
  <2>2. Reserving' = Reserving \ {t}
    BY DEF ReleaseThread, Reserving, TypeOK
  <2>3. /\ Cardinality(Reserving') = Cardinality(Reserving) - 1
        /\ Cardinality(Reserving') \in Nat
    BY <2>1, <2>2, Finite, FS_RemoveElement, FS_CardinalityType
  <2>4. m_reserveThread' = Cardinality(Reserving')
    BY <2>1, <2>3, Finite DEF ReleaseThread
  <2>5. \A u \in Threads : tpc'[u] = "release" => tpc[u] = "release"
    BY DEF ReleaseThread, TypeOK
  <2>6. QED  BY <2>4, <2>5 DEF ReserveState, Larger
<1>6. LockState' /\ DeleteState' /\ QueueState'
  BY DEF LockState, DeleteState, QueueState, Inside, Destroying
<1>7. QED  BY <1>2, <1>3, <1>4, <1>5, <1>6

\* The thread forgets its runnable.
LEMMA FinishKeeps ==
  ASSUME IInv, NEW t \in Threads, Finish(t)
  PROVE  IInv'
<1>1. UNCHANGED <<m_running, m_runQueues, m_availThreads, m_runningThreads,
                   m_deleteThreads, m_reserveThread, m_doRun, cpc, arg, target,
                   asleep, holder, rstate, reservations, failed>>
  BY DEF Finish, poolVars, threadVars, clientVars, ThreadFrame
<1> USE <1>1 DEF IInv
<1>2. TypeOK'
  BY SetsAssumption DEF TypeOK, Args, NoArg, Finish
<1>3. ListState'
  BY SetsAssumption DEF ListState, ThreadListed, ToDelete, TypeOK, Finish, Unlocked
<1>4. HeldState'
  BY SetsAssumption DEF HeldState, TypeOK, Finish, Unlocked
<1>5. ReserveState'
  BY SetsAssumption DEF ReserveState, Reserving, TypeOK, Finish, Unlocked
<1>6. LockState' /\ DeleteState' /\ QueueState'
  BY DEF LockState, DeleteState, QueueState, Inside, Destroying
<1>7. QED  BY <1>2, <1>3, <1>4, <1>5, <1>6

\* A thread reports to a stopped pool.
LEMMA NotifyStoppedKeeps ==
  ASSUME IInv, NEW t \in Threads, NotifyStopped(t)
  PROVE  IInv'
<1>1. UNCHANGED <<m_running, m_runQueues, m_availThreads, m_reserveThread,
                   m_runnable, m_reserved, cpc, arg, target, holder, rstate,
                   reservations, failed>>
  BY DEF NotifyStopped, WakeAll, poolVars, threadVars, clientVars, ThreadFrame
<1> USE <1>1 DEF IInv
<1>2. t \in m_runningThreads /\ t \notin ToDelete /\ m_runnable[t] = None /\ ~m_reserved[t]
  BY DEF NotifyStopped, ListState, ThreadListed, HeldState, ReserveState, TypeOK
<1>3. /\ m_deleteThreads' \in Seq(Threads) /\ Uniq(m_deleteThreads')
      /\ ToDelete' = ToDelete \cup {t}
  <2>1. /\ m_deleteThreads' = <<t>> \o m_deleteThreads
        /\ m_deleteThreads \in Seq(Threads) /\ Uniq(m_deleteThreads)
    BY DEF NotifyStopped, ListState, ThreadListed, TypeOK
  <2>2. QED  BY <1>2, <2>1, Prepended DEF ToDelete
<1>4. TypeOK'
  BY <1>3 DEF TypeOK, Args, NoArg, NotifyStopped, WakeAll
<1>5. DeleteState'
  <2>1. \A d \in Clients : cpc[d] \notin {"delete", "join", "gone"}
    BY <1>2 DEF DeleteState
  <2>2. QED  BY <2>1 DEF DeleteState, Destroying
<1>6. ListState'
  <2>1. /\ m_runningThreads' = m_runningThreads \ {t} /\ ~m_running
        /\ tpc'[t] = "wait" /\ \A u \in Threads : u # t => tpc'[u] = tpc[u] /\ m_doRun'[u] = m_doRun[u]
    BY DEF NotifyStopped, TypeOK
  <2>2. /\ m_availThreads' \cap m_runningThreads' = {} /\ m_availThreads' \cap ToDelete' = {}
        /\ m_runningThreads' \cap ToDelete' = {}
    BY <1>2, <1>3, <2>1 DEF ListState, ThreadListed
  <2>3. ASSUME NEW u \in Threads
        PROVE  ThreadListed(u)'
    <3>1. CASE u = t
      BY <1>2, <1>3, <2>1, <3>1 DEF ListState, ThreadListed
    <3>2. CASE u # t
      BY <1>2, <1>3, <2>1, <3>2 DEF ListState, ThreadListed
    <3>3. QED  BY <3>1, <3>2
  <2>4. QED  BY <1>2, <1>3, <2>2, <2>3 DEF ListState
<1>7. HeldState'
  BY SetsAssumption DEF HeldState, TypeOK, NotifyStopped, Unlocked, WakeAll
<1>8. ReserveState'
  <2>1. Reserving' = Reserving
    BY <1>2 DEF NotifyStopped, Reserving, ReserveState, TypeOK
  <2>2. (m_runningThreads \cup m_availThreads)' \subseteq m_runningThreads \cup m_availThreads
    BY DEF NotifyStopped
  <2>3. \A u \in Threads :
          /\ m_reserved'[u] => m_runnable'[u] # None
          /\ tpc'[u] = "release" => m_reserved'[u]
          /\ reservations' = 0 => ~m_reserved'[u]
    BY DEF NotifyStopped, ReserveState, TypeOK
  <2>4. QED  BY <2>1, <2>2, <2>3, ReserveKept
<1>9. LockState' /\ QueueState'
  BY DEF LockState, QueueState, Inside
<1>10. QED  BY <1>4, <1>5, <1>6, <1>7, <1>8, <1>9

\* A thread reports and nothing is queued.
LEMMA NotifyIdleKeeps ==
  ASSUME IInv, NEW t \in Threads, NotifyIdle(t)
  PROVE  IInv'
<1>1. UNCHANGED <<m_running, m_runQueues, m_deleteThreads, m_reserveThread,
                   m_doRun, m_runnable, m_reserved, cpc, arg, target, holder,
                   rstate, reservations, failed>>
  BY DEF NotifyIdle, WakeAll, poolVars, threadVars, clientVars, ThreadFrame
<1> USE <1>1 DEF IInv
<1>2. t \in m_runningThreads /\ m_runnable[t] = None /\ ~m_reserved[t]
  BY DEF NotifyIdle, ListState, ThreadListed, HeldState, ReserveState, TypeOK
<1>3. TypeOK'
  BY SetsAssumption DEF TypeOK, Args, NoArg, NotifyIdle, WakeAll
<1>4. DeleteState'
  BY SetsAssumption DEF DeleteState, Destroying, TypeOK, NotifyIdle, Unlocked,
         WakeAll
<1>5. ListState'
  <2>1. t \notin ToDelete /\ t \notin m_availThreads /\ ToDelete' = ToDelete
    BY <1>2 DEF ListState, ThreadListed, ToDelete
  <2>2. QED  BY <1>2, <2>1 DEF ListState, ThreadListed, TypeOK, NotifyIdle, Uniq
<1>6. HeldState'
  BY SetsAssumption DEF HeldState, TypeOK, NotifyIdle, Unlocked, WakeAll
<1>7. ReserveState'
  <2>1. Reserving' = Reserving
    BY <1>2 DEF NotifyIdle, Reserving, ReserveState, TypeOK
  <2>2. (m_runningThreads \cup m_availThreads)' \subseteq m_runningThreads \cup m_availThreads
    BY <1>2 DEF NotifyIdle
  <2>3. \A u \in Threads :
          /\ m_reserved'[u] => m_runnable'[u] # None
          /\ tpc'[u] = "release" => m_reserved'[u]
          /\ reservations' = 0 => ~m_reserved'[u]
    BY DEF NotifyIdle, ReserveState, TypeOK
  <2>4. QED  BY <2>1, <2>2, <2>3, ReserveKept
<1>8. LockState' /\ QueueState'
  BY DEF LockState, QueueState, Inside
<1>9. QED  BY <1>3, <1>4, <1>5, <1>6, <1>7, <1>8

\* A thread takes the first runnable queued.
LEMMA NotifyTakeKeeps ==
  ASSUME IInv, NEW t \in Threads, NotifyTake(t)
  PROVE  IInv'
<1>1. UNCHANGED <<m_running, m_availThreads, m_runningThreads, m_deleteThreads,
                   m_reserveThread, m_doRun, m_reserved, cpc, arg, target, asleep,
                   holder, reservations, failed>>
  BY DEF NotifyTake, poolVars, threadVars, clientVars, ThreadFrame
<1> USE <1>1 DEF IInv
<1>2. t \in m_runningThreads /\ m_runnable[t] = None /\ ~m_reserved[t]
  BY DEF NotifyTake, ListState, ThreadListed, HeldState, ReserveState, TypeOK
<1> DEFINE p == First
           r == Head(m_runQueues[p])
<1>3. p \in Priorities /\ m_runQueues[p] # <<>>
  BY FirstExists DEF NotifyTake, NonEmpty
<1>4. /\ m_runQueues' = [m_runQueues EXCEPT ![p] = Tail(@)]
      /\ m_runnable' = [m_runnable EXCEPT ![t] = r]
      /\ rstate' = [rstate EXCEPT ![r] = "given"]
      /\ tpc' = [tpc EXCEPT ![t] = "wait"] /\ tpc[t] = "notify" /\ m_running
  BY DEF NotifyTake
<1> HIDE DEF p
<1>5. /\ QueueState' /\ m_runQueues' \in [Priorities -> Seq(Runnables)]
      /\ r \in Runnables /\ rstate[r] = "queued" /\ r # None
  BY <1>3, <1>4, QueuesShrink, SetsAssumption
<1> HIDE DEF r
<1>6. \A u \in Threads : m_runnable[u] # r
  BY <1>5 DEF HeldState
<1>7. TypeOK'
  BY <1>4, <1>5 DEF TypeOK, Args, NoArg
<1>8. LockState'
  <2>1. \A d \in Clients : cpc[d] \in {"try", "offer"} => arg[d].r # r
    BY <1>5 DEF LockState
  <2>2. QED  BY <1>4, <1>5, <2>1 DEF LockState, Inside, TypeOK
<1>9. ListState'
  BY <1>2, <1>4, <1>5 DEF ListState, ThreadListed, ToDelete, TypeOK
<1>10. HeldState'
  <2>1. /\ m_runnable'[t] = r /\ rstate'[r] = "given" /\ tpc'[t] = "wait"
        /\ \A u \in Threads : u # t => m_runnable'[u] = m_runnable[u] /\ tpc'[u] = tpc[u]
        /\ \A x \in Runnables : x # r => rstate'[x] = rstate[x]
    BY <1>2, <1>4, <1>5, <1>6 DEF TypeOK
  <2>2. QED  BY <1>2, <1>5, <2>1, HeldGiven
<1>11. QueueState'
  BY <1>5
<1>12. ReserveState'
  <2>1. Reserving' = Reserving
    BY <1>2, <1>4 DEF Reserving, TypeOK
  <2>2. (m_runningThreads \cup m_availThreads)' \subseteq m_runningThreads \cup m_availThreads
    OBVIOUS
  <2>3. \A u \in Threads :
          /\ m_reserved'[u] => m_runnable'[u] # None
          /\ tpc'[u] = "release" => m_reserved'[u]
          /\ reservations' = 0 => ~m_reserved'[u]
    BY <1>2, <1>4, <1>5 DEF ReserveState, TypeOK
  <2>4. QED  BY <2>1, <2>2, <2>3, ReserveKept
<1>13. DeleteState'
  BY DEF DeleteState, Destroying
<1>14. QED  BY <1>7, <1>8, <1>9, <1>10, <1>11, <1>12, <1>13

\* A thread that is over leaves the lists.
LEMMA NotifyDoneKeeps ==
  ASSUME IInv, NEW t \in Threads, NotifyDone(t)
  PROVE  IInv'
<1>1. UNCHANGED <<m_running, m_runQueues, m_reserveThread, m_doRun, m_runnable,
                   m_reserved, cpc, arg, target, holder, rstate, reservations,
                   failed>>
  BY DEF NotifyDone, WakeAll, poolVars, threadVars, clientVars, ThreadFrame
<1> USE <1>1 DEF IInv
<1>2. /\ tpc[t] = "done" /\ m_runnable[t] = None /\ ~m_reserved[t]
      /\ t \in m_availThreads \cup m_runningThreads \cup ToDelete
  BY DEF NotifyDone, ListState, ThreadListed, HeldState, ReserveState, TypeOK
<1>3. m_deleteThreads \in Seq(Threads) /\ Uniq(m_deleteThreads)
  BY DEF ListState, ThreadListed, TypeOK
<1>4. /\ m_deleteThreads' \in Seq(Threads) /\ Uniq(m_deleteThreads')
      /\ ToDelete' = ToDelete \cup {t}
      /\ m_deleteThreads' # <<>>
      /\ m_deleteThreads # <<>> => Last(m_deleteThreads') = Last(m_deleteThreads)
  <2>1. Contains(m_deleteThreads, t) <=> t \in ToDelete
    BY <1>3 DEF Contains, ToDelete, Elems
  <2>2. CASE t \in ToDelete
    <3>1. UNCHANGED m_deleteThreads
      BY <2>1, <2>2 DEF NotifyDone
    <3>2. m_deleteThreads # <<>>
      BY <1>3, <2>2, EmptySeq DEF ToDelete, Elems
    <3>3. QED  BY <1>3, <2>2, <3>1, <3>2 DEF ToDelete
  <2>3. CASE t \notin ToDelete
    <3>1. m_deleteThreads' = <<t>> \o m_deleteThreads
      BY <2>1, <2>3 DEF NotifyDone
    <3>2. QED  BY <1>3, <2>3, <3>1, Prepended DEF ToDelete
  <2>4. QED  BY <2>2, <2>3
<1>5. /\ m_deleteThreads' \in Seq(Threads) /\ Uniq(m_deleteThreads')
      /\ ToDelete' = ToDelete \cup {t}
  BY <1>4
<1>6. TypeOK'
  BY <1>5 DEF TypeOK, Args, NoArg, NotifyDone, WakeAll
<1>7. DeleteState'
  <2>1. \A d \in Clients : cpc[d] # "gone"
    <3>1. ASSUME NEW d \in Clients, cpc[d] = "gone"  PROVE ToDelete = {}
      BY <3>1 DEF DeleteState, ToDelete, Elems
    <3>2. QED  BY <1>2, <3>1 DEF DeleteState
  <2>2. /\ m_runningThreads' \subseteq m_runningThreads
        /\ m_availThreads' \subseteq m_availThreads
    BY DEF NotifyDone
  <2>3. ASSUME NEW d \in Clients, cpc[d] = "join"
        PROVE  m_deleteThreads' # <<>> /\ target[d] = Last(m_deleteThreads')
    <3>1. m_deleteThreads # <<>> /\ target[d] = Last(m_deleteThreads)
      BY <2>3 DEF DeleteState
    <3>2. QED  BY <1>4, <3>1
  <2>4. QED  BY <2>1, <2>2, <2>3 DEF DeleteState, Destroying
<1>8. ListState'
  <2>1. /\ m_runningThreads' = m_runningThreads \ {t} /\ m_availThreads' = m_availThreads \ {t}
        /\ tpc'[t] = "epilog" /\ \A u \in Threads : u # t => tpc'[u] = tpc[u]
    BY DEF NotifyDone, TypeOK
  <2>2. /\ m_availThreads' \cap m_runningThreads' = {} /\ m_availThreads' \cap ToDelete' = {}
        /\ m_runningThreads' \cap ToDelete' = {}
    BY <1>2, <1>5, <2>1 DEF ListState, ThreadListed
  <2>3. ASSUME NEW u \in Threads
        PROVE  ThreadListed(u)'
    <3>1. CASE u = t
      BY <1>2, <1>5, <2>1, <3>1 DEF ListState, ThreadListed
    <3>2. CASE u # t
      BY <1>2, <1>5, <2>1, <3>2 DEF ListState, ThreadListed
    <3>3. QED  BY <3>1, <3>2
  <2>4. QED  BY <1>2, <1>5, <2>2, <2>3 DEF ListState
<1>9. HeldState'
  BY SetsAssumption DEF HeldState, TypeOK, NotifyDone, Unlocked, WakeAll
<1>10. ReserveState'
  <2>1. Reserving' = Reserving
    BY <1>2 DEF NotifyDone, Reserving, ReserveState, TypeOK
  <2>2. (m_runningThreads \cup m_availThreads)' \subseteq m_runningThreads \cup m_availThreads
    BY DEF NotifyDone
  <2>3. \A u \in Threads :
          /\ m_reserved'[u] => m_runnable'[u] # None
          /\ tpc'[u] = "release" => m_reserved'[u]
          /\ reservations' = 0 => ~m_reserved'[u]
    BY DEF NotifyDone, ReserveState, TypeOK
  <2>4. QED  BY <2>1, <2>2, <2>3, ReserveKept
<1>11. LockState' /\ QueueState'
  BY DEF LockState, QueueState, Inside
<1>12. QED  BY <1>6, <1>7, <1>8, <1>9, <1>10, <1>11

\* A thread ends.
LEMMA EndKeeps ==
  ASSUME IInv, NEW t \in Threads, End(t)
  PROVE  IInv'
<1>1. UNCHANGED <<m_running, m_runQueues, m_availThreads, m_runningThreads,
                   m_deleteThreads, m_reserveThread, m_doRun, m_runnable,
                   m_reserved, cpc, arg, target, asleep, holder, rstate,
                   reservations, failed>>
  BY DEF End, poolVars, threadVars, clientVars, ThreadFrame
<1> USE <1>1 DEF IInv
<1>2. TypeOK'
  BY SetsAssumption DEF TypeOK, Args, NoArg, End
<1>3. ListState'
  BY SetsAssumption DEF ListState, ThreadListed, ToDelete, TypeOK, End, Unlocked
<1>4. HeldState'
  BY SetsAssumption DEF HeldState, TypeOK, End, Unlocked
<1>5. ReserveState'
  BY SetsAssumption DEF ReserveState, Reserving, TypeOK, End, Unlocked
<1>6. LockState' /\ DeleteState' /\ QueueState'
  BY DEF LockState, DeleteState, QueueState, Inside, Destroying
<1>7. QED  BY <1>2, <1>3, <1>4, <1>5, <1>6

\* A call on a stopped pool.
LEMMA CallStoppedKeeps ==
  ASSUME IInv, NEW c \in Clients, NEW r \in Runnables, CallStopped(c, r)
  PROVE  IInv'
<1>1. UNCHANGED <<m_running, m_availThreads, m_runningThreads, m_deleteThreads,
                   m_reserveThread, tpc, m_doRun, m_runnable, m_reserved, cpc, arg,
                   target, asleep, holder, reservations, failed>>
  BY DEF CallStopped, Refuse, poolVars, threadVars, clientVars
<1> USE <1>1 DEF IInv
<1>2. PICK a \in Calls(r) : Refuse(a)
  BY DEF CallStopped
<1>3. a \in Args /\ a.r = r /\ rstate[r] = "new"
  BY CallArgs DEF CallStopped
<1>4. /\ QueueState' /\ m_runQueues' \in [Priorities -> Seq(Runnables)]
      /\ rstate' \in [Runnables -> {"new", "starting", "queued", "given", "done", "refused"}]
      /\ rstate'[r] \in {"refused", "queued"}
      /\ \A x \in Runnables : x # r => rstate'[x] = rstate[x]
  BY <1>2, <1>3, Refused
<1>5. TypeOK'
  BY <1>4 DEF TypeOK, Args, NoArg
<1>6. LockState'
  BY <1>3, <1>4 DEF LockState, Inside
<1>7. HeldState'
  <2>1. \A u \in Threads : m_runnable[u] # None => m_runnable[u] \in Runnables /\ m_runnable[u] # r
    BY <1>3 DEF HeldState, TypeOK
  <2>2. QED  BY <1>4, <2>1 DEF HeldState
<1>8. QueueState'
  BY <1>4
<1>9. DeleteState' /\ ListState' /\ ReserveState'
  BY DEF DeleteState, ListState, ThreadListed, ReserveState, Destroying, ToDelete, Reserving
<1>10. QED  BY <1>5, <1>6, <1>7, <1>8, <1>9

\* A call begins.
LEMMA CallKeeps ==
  ASSUME IInv, NEW c \in Clients, NEW r \in Runnables, Call(c, r)
  PROVE  IInv'
<1>1. UNCHANGED <<m_running, m_runQueues, m_availThreads, m_runningThreads,
                   m_deleteThreads, m_reserveThread, tpc, m_doRun, m_runnable,
                   m_reserved, target, asleep, failed>>
  BY DEF Call, poolVars, threadVars, clientVars
<1> USE <1>1 DEF IInv
<1>2. PICK a \in Calls(r) : /\ arg' = [arg EXCEPT ![c] = a]
                           /\ reservations' = IF a.reserved THEN reservations + 1 ELSE reservations
  BY DEF Call
<1>3. a \in Args /\ a.r = r /\ a.reserved \in BOOLEAN /\ reservations \in Nat
  BY CallArgs DEF Args, TypeOK
<1>4. /\ rstate[r] = "new" /\ rstate' = [rstate EXCEPT ![r] = "starting"] /\ m_running
      /\ holder = None /\ holder' = c /\ cpc[c] = "idle" /\ cpc' = [cpc EXCEPT ![c] = "try"]
  BY DEF Call, Unlocked
<1>5. arg' \in [Clients -> Args] /\ arg'[c] = a /\ \A d \in Clients : d # c => arg'[d] = arg[d]
  BY <1>2, <1>3 DEF TypeOK
<1>6. /\ reservations' \in Nat /\ reservations' >= reservations
      /\ a.reserved => reservations' > 0
  BY <1>2, <1>3
<1>7. /\ cpc'[c] = "try" /\ \A d \in Clients : d # c => cpc'[d] = cpc[d]
      /\ rstate'[r] = "starting" /\ \A x \in Runnables : x # r => rstate'[x] = rstate[x]
  BY <1>4 DEF TypeOK
<1>8. TypeOK'
  <2>1. /\ rstate' \in [Runnables -> {"new", "starting", "queued", "given", "done", "refused"}]
        /\ cpc' \in [Clients -> {"idle", "try", "offer", "wait", "sleep", "deleteWait",
                                 "deleteSleep", "delete", "join", "gone"}]
        /\ holder' \in Clients \cup {None}
    BY <1>4 DEF TypeOK
  <2>2. arg' \in [Clients -> Args] /\ reservations' \in Nat
    BY <1>5, <1>6
  <2>3. QED  BY <2>1, <2>2 DEF TypeOK, Args
<1>9. LockState'
  <2>1. \A d \in Clients : cpc[d] \notin Inside
    BY <1>4, SetsAssumption DEF LockState
  <2>2. \A d \in Clients : d # c => cpc'[d] \notin Inside /\ cpc'[d] \notin {"try", "offer"}
    BY <1>7, <2>1 DEF Inside
  <2>3. /\ cpc'[c] \in Inside /\ holder' = c /\ m_running'
        /\ arg'[c].r \in Runnables /\ rstate'[arg'[c].r] = "starting"
    BY <1>3, <1>4, <1>5, <1>7 DEF Inside
  <2>4. arg'[c].reserved => reservations' > 0
    BY <1>5, <1>6
  <2>5. QED  BY <2>2, <2>3, <2>4 DEF LockState
<1>10. DeleteState'
  BY <1>4, <1>7 DEF DeleteState, Destroying
<1>11. HeldState'
  <2>1. \A u \in Threads : m_runnable[u] # None => m_runnable[u] \in Runnables /\ m_runnable[u] # r
    BY <1>4 DEF HeldState, TypeOK
  <2>2. rstate'[r] # "given" /\ rstate[r] # "given"
    BY <1>4, <1>7
  <2>3. QED  BY <1>7, <2>1, <2>2 DEF HeldState
<1>12. QueueState'
  BY <1>4, QueuesKept
<1>13. ReserveState'
  <2>1. reservations' = 0 => reservations = 0
    BY <1>3, <1>6
  <2>2. Reserving' = Reserving
    BY DEF Reserving
  <2>3. QED  BY <2>1, <2>2 DEF ReserveState, Larger
<1>14. ListState'
  BY DEF ListState, ThreadListed, ToDelete
<1>15. QED  BY <1>8, <1>9, <1>10, <1>11, <1>12, <1>13, <1>14

\* A join under the lock returns.
LEMMA TryDeleteKeeps ==
  ASSUME IInv, NEW c \in Clients, TryDelete(c)
  PROVE  IInv'
<1>1. UNCHANGED <<m_running, m_runQueues, m_availThreads, m_runningThreads,
                   m_reserveThread, m_runnable, m_reserved, cpc, arg, target,
                   asleep, holder, rstate, reservations, failed>>
  BY DEF TryDelete, DeleteLast, DeleteThread, Joined, poolVars, threadVars,
         clientVars
<1> USE <1>1 DEF IInv
<1>2. /\ m_deleteThreads \in Seq(Threads) /\ m_deleteThreads # <<>> /\ Uniq(m_deleteThreads)
      /\ m_deleteThreads' = Front(m_deleteThreads)
  BY DEF TryDelete, DeleteLast, ListState, ThreadListed, TypeOK
<1> DEFINE t == Last(m_deleteThreads)
<1>3. /\ t \in Threads /\ t \in ToDelete /\ m_deleteThreads' \in Seq(Threads)
      /\ Uniq(m_deleteThreads') /\ ToDelete' = ToDelete \ {t}
  BY <1>2, Popped DEF ToDelete
<1>4. /\ tpc[t] = "ended" /\ tpc' = [tpc EXCEPT ![t] = "none"]
      /\ m_doRun' = [m_doRun EXCEPT ![t] = TRUE]
  BY DEF TryDelete, DeleteLast, DeleteThread, Joined
<1>5. cpc[c] \in {"try", "wait", "deleteWait"}
  BY DEF TryDelete, Waiting
<1> HIDE DEF t
<1>6. TypeOK'
  <2>1. /\ tpc' \in [Threads -> {"none", "wait", "run", "release", "finish", "notify",
                                "done", "epilog", "ended"}]
        /\ m_doRun' \in [Threads -> BOOLEAN]
    BY <1>3, <1>4 DEF TypeOK
  <2>2. QED  BY <1>3, <2>1 DEF TypeOK, Args
<1>7. DeleteState'
  <2>1. \A d \in Clients : cpc[d] \notin {"join", "gone"}
    BY <1>5 DEF DeleteState, Destroying
  <2>2. QED  BY <2>1 DEF DeleteState, Destroying
<1>8. ListState'
  <2>1. /\ tpc'[t] = "none" /\ m_doRun'[t]
        /\ \A u \in Threads : u # t => tpc'[u] = tpc[u] /\ m_doRun'[u] = m_doRun[u]
    BY <1>3, <1>4 DEF TypeOK
  <2>2. /\ m_availThreads' \cap m_runningThreads' = {} /\ m_availThreads' \cap ToDelete' = {}
        /\ m_runningThreads' \cap ToDelete' = {}
    BY <1>2, <1>3, <1>4, <2>1 DEF ListState, ThreadListed
  <2>3. ASSUME NEW u \in Threads
        PROVE  ThreadListed(u)'
    <3>1. CASE u = t
      BY <1>2, <1>3, <1>4, <2>1, <3>1 DEF ListState, ThreadListed
    <3>2. CASE u # t
      BY <1>2, <1>3, <1>4, <2>1, <3>2 DEF ListState, ThreadListed
    <3>3. QED  BY <3>1, <3>2
  <2>4. QED  BY <1>2, <1>3, <1>4, <2>2, <2>3 DEF ListState
<1>9. HeldState'
  BY <1>3, <1>4 DEF HeldState, ListState, ThreadListed, TypeOK
<1>10. ReserveState'
  BY <1>3, <1>4 DEF ReserveState, Reserving, TypeOK, Larger
<1>11. LockState' /\ QueueState'
  BY DEF LockState, QueueState, Inside
<1>12. QED  BY <1>6, <1>7, <1>8, <1>9, <1>10, <1>11

\* Every thread that was to be deleted was joined.
LEMMA TryOfferKeeps ==
  ASSUME IInv, NEW c \in Clients, TryOffer(c)
  PROVE  IInv'
<1>1. UNCHANGED <<m_running, m_runQueues, m_availThreads, m_runningThreads,
                   m_deleteThreads, m_reserveThread, tpc, m_doRun, m_runnable,
                   m_reserved, arg, target, asleep, holder, rstate, reservations,
                   failed>>
  BY DEF TryOffer, poolVars, threadVars, clientVars
<1> USE <1>1 DEF IInv
<1>2. TypeOK'
  BY SetsAssumption DEF TypeOK, Args, NoArg, TryOffer
<1>3. LockState'
  BY SetsAssumption DEF LockState, Inside, TypeOK, TryOffer, Unlocked
<1>4. DeleteState'
  BY SetsAssumption DEF DeleteState, Destroying, TypeOK, TryOffer, Unlocked
<1>5. ListState' /\ HeldState' /\ QueueState' /\ ReserveState'
  BY DEF ListState, ThreadListed, HeldState, QueueState, ReserveState, ToDelete, Reserving
<1>6. QED  BY <1>2, <1>3, <1>4, <1>5

\* An available thread takes the runnable.
LEMMA OfferTakenKeeps ==
  ASSUME IInv, NEW c \in Clients, NEW t \in Threads, OfferTaken(c, t)
  PROVE  IInv'
<1>1. UNCHANGED <<m_running, m_runQueues, m_deleteThreads, tpc, m_doRun, target,
                   asleep, reservations, failed>>
  BY DEF OfferTaken, Give, Return, poolVars, threadVars, clientVars
<1> USE <1>1 DEF IInv
<1> DEFINE r == arg[c].r
<1>2. /\ cpc[c] = "offer" /\ holder = c /\ m_running /\ r \in Runnables /\ r # None
      /\ rstate[r] = "starting"
  BY SetsAssumption DEF OfferTaken, LockState, Inside
<1>3. arg[c].reserved \in BOOLEAN
  BY DEF TypeOK, Args
<1>4. /\ m_runnable[t] = None /\ t \in m_availThreads /\ t \notin m_runningThreads /\ tpc[t] = "wait"
  BY DEF OfferTaken, ListState, ThreadListed
<1>5. /\ m_runnable' = [m_runnable EXCEPT ![t] = r]
      /\ m_reserved' = [m_reserved EXCEPT ![t] = arg[c].reserved]
      /\ rstate' = [rstate EXCEPT ![r] = "given"]
      /\ cpc' = [cpc EXCEPT ![c] = "idle"] /\ arg' = [arg EXCEPT ![c] = NoArg]
      /\ holder' = None
  BY DEF OfferTaken, Give, Return
<1>6. m_reserveThread' = IF arg[c].reserved THEN m_reserveThread + 1 ELSE m_reserveThread
  BY DEF OfferTaken
<1>7. m_runningThreads' = m_runningThreads \cup {t}
  BY DEF OfferTaken
<1>8. \A u \in Threads : m_runnable[u] # r
  BY <1>2 DEF HeldState
<1>9. /\ cpc'[c] = "idle" /\ \A d \in Clients : d # c => cpc'[d] = cpc[d] /\ arg'[d] = arg[d]
      /\ rstate'[r] = "given" /\ \A x \in Runnables : x # r => rstate'[x] = rstate[x]
      /\ tpc'[t] = "wait" /\ \A u \in Threads : u # t => tpc'[u] = tpc[u]
      /\ m_runnable'[t] = r /\ \A u \in Threads : u # t => m_runnable'[u] = m_runnable[u]
  BY <1>2, <1>4, <1>5 DEF TypeOK, OfferTaken
<1> HIDE DEF r
<1>10. TypeOK'
  <2>1. NoArg \in Args
    BY DEF NoArg, Args
  <2>2. arg' \in [Clients -> Args]
    BY <1>5, <2>1 DEF TypeOK
  <2>3. m_reserveThread' \in Nat
    BY <1>3, <1>6 DEF TypeOK
  <2>4. m_reserved' \in [Threads -> BOOLEAN]
    BY <1>3, <1>5 DEF TypeOK
  <2>5. QED  BY <1>2, <1>5, <1>7, <2>2, <2>3, <2>4 DEF TypeOK, Args, OfferTaken
<1>11. LockState'
  <2>1. \A d \in Clients : d # c => cpc[d] \notin Inside
    BY <1>2 DEF LockState
  <2>2. QED  BY <1>5, <1>9, <2>1, SetsAssumption DEF LockState, Inside
<1>12. DeleteState'
  <2>1. \A d \in Clients : cpc[d] \notin Destroying
    BY <1>2 DEF DeleteState
  <2>2. QED  BY <1>9, <2>1 DEF DeleteState, Destroying
<1>13. ListState'
  <2>1. /\ m_availThreads' = m_availThreads \ {t} /\ ToDelete' = ToDelete
    BY DEF OfferTaken, ToDelete
  <2>2. /\ m_availThreads' \cap m_runningThreads' = {} /\ m_availThreads' \cap ToDelete' = {}
        /\ m_runningThreads' \cap ToDelete' = {}
    BY <1>2, <1>4, <1>9, <1>7, <2>1 DEF ListState, ThreadListed
  <2>3. ASSUME NEW u \in Threads
        PROVE  ThreadListed(u)'
    <3>1. CASE u = t
      BY <1>2, <1>4, <1>9, <1>7, <2>1, <3>1 DEF ListState, ThreadListed
    <3>2. CASE u # t
      BY <1>2, <1>4, <1>9, <1>7, <2>1, <3>2 DEF ListState, ThreadListed
    <3>3. QED  BY <3>1, <3>2
  <2>4. QED  BY <1>2, <1>4, <1>9, <1>7, <2>2, <2>3 DEF ListState
<1>14. HeldState'
  <2>1. /\ m_runnable'[t] = r /\ rstate'[r] = "given" /\ tpc'[t] = "wait"
        /\ \A u \in Threads : u # t => m_runnable'[u] = m_runnable[u] /\ tpc'[u] = tpc[u]
        /\ \A x \in Runnables : x # r => rstate'[x] = rstate[x]
    BY <1>2, <1>4, <1>8, <1>9 DEF TypeOK
  <2>2. QED  BY <1>2, <1>4, <2>1, HeldGiven
<1>15. QueueState'
  BY <1>2, <1>5, QueuesKept
<1>16. ReserveState'
  <2>1. (m_runningThreads \cup m_availThreads)' = m_runningThreads \cup m_availThreads
    BY <1>4, <1>7 DEF OfferTaken
  <2>2. reservations = 0 => Cardinality((m_runningThreads \cup m_availThreads)')
                              <= Larger(MaxThreadCount, 1)
    BY <2>1 DEF ReserveState
  <2>3. QED  BY <1>2, <1>4, <1>5, <1>6, <1>9, <2>2, ReserveGiven DEF r
<1>17. QED  BY <1>10, <1>11, <1>12, <1>13, <1>14, <1>15, <1>16

\* An available thread refuses it.
LEMMA OfferRefusedKeeps ==
  ASSUME IInv, NEW c \in Clients, NEW t \in Threads, OfferRefused(c, t)
  PROVE  IInv'
<1>1. UNCHANGED <<m_running, m_runQueues, m_reserveThread, tpc, m_runnable,
                   m_reserved, cpc, arg, target, asleep, holder, rstate,
                   reservations, failed>>
  BY DEF OfferRefused, poolVars, threadVars, clientVars
<1> USE <1>1 DEF IInv
<1>2. /\ cpc[c] = "offer" /\ t \in m_availThreads /\ t \notin ToDelete
      /\ tpc[t] \in {"wait", "done"} /\ m_runnable[t] = None /\ t \notin m_runningThreads
      /\ m_deleteThreads' = <<t>> \o m_deleteThreads /\ m_deleteThreads \in Seq(Threads)
      /\ Uniq(m_deleteThreads)
  BY DEF OfferRefused, ListState, ThreadListed, TypeOK
<1>3. /\ m_deleteThreads' \in Seq(Threads) /\ Uniq(m_deleteThreads')
      /\ ToDelete' = ToDelete \cup {t}
  BY <1>2, Prepended DEF ToDelete
<1>4. TypeOK'
  BY <1>3 DEF TypeOK, Args, OfferRefused
<1>5. DeleteState'
  <2>1. \A d \in Clients : cpc[d] \notin Destroying
    BY <1>2 DEF DeleteState, LockState
  <2>2. QED  BY <2>1 DEF DeleteState, Destroying
<1>6. ListState'
  <2>1. /\ m_availThreads' = m_availThreads \ {t} /\ m_runningThreads' = m_runningThreads \ {t}
        /\ ~m_doRun'[t] /\ \A u \in Threads : u # t => m_doRun'[u] = m_doRun[u]
    BY DEF OfferRefused, TypeOK
  <2>2. /\ m_availThreads' \cap m_runningThreads' = {} /\ m_availThreads' \cap ToDelete' = {}
        /\ m_runningThreads' \cap ToDelete' = {}
    BY <1>2, <1>3, <2>1 DEF ListState, ThreadListed
  <2>3. ASSUME NEW u \in Threads
        PROVE  ThreadListed(u)'
    <3>1. CASE u = t
      BY <1>2, <1>3, <2>1, <3>1 DEF ListState, ThreadListed
    <3>2. CASE u # t
      BY <1>2, <1>3, <2>1, <3>2 DEF ListState, ThreadListed
    <3>3. QED  BY <3>1, <3>2
  <2>4. QED  BY <1>2, <1>3, <2>2, <2>3 DEF ListState
<1>7. ReserveState'
  <2>1. Reserving' = Reserving
    BY DEF OfferRefused, Reserving, ReserveState, TypeOK
  <2>2. (m_runningThreads \cup m_availThreads)' \subseteq m_runningThreads \cup m_availThreads
    BY DEF OfferRefused
  <2>3. \A u \in Threads :
          /\ m_reserved'[u] => m_runnable'[u] # None
          /\ tpc'[u] = "release" => m_reserved'[u]
          /\ reservations' = 0 => ~m_reserved'[u]
    BY DEF OfferRefused, ReserveState, TypeOK
  <2>4. QED  BY <2>1, <2>2, <2>3, ReserveKept
<1>8. LockState' /\ HeldState' /\ QueueState'
  BY DEF LockState, HeldState, QueueState, Inside
<1>9. QED  BY <1>4, <1>5, <1>6, <1>7, <1>8

\* A new thread.
LEMMA CreateKeeps ==
  ASSUME IInv, NEW c \in Clients, NEW t \in Threads, Create(c, t)
  PROVE  IInv'
<1>1. UNCHANGED <<m_running, m_runQueues, m_availThreads, m_deleteThreads, m_doRun,
                   target, asleep, reservations, failed>>
  BY DEF Create, Give, Return, poolVars, threadVars, clientVars
<1> USE <1>1 DEF IInv
<1> DEFINE r == arg[c].r
<1>2. /\ cpc[c] = "offer" /\ holder = c /\ m_running /\ r \in Runnables /\ r # None
      /\ rstate[r] = "starting"
  BY SetsAssumption DEF Create, LockState, Inside
<1>3. arg[c].reserved \in BOOLEAN
  BY DEF TypeOK, Args
<1>4. /\ m_runnable[t] = None /\ tpc[t] = "none" /\ m_availThreads = {}
  BY DEF Create, ListState, ThreadListed
<1>5. /\ m_runnable' = [m_runnable EXCEPT ![t] = r]
      /\ m_reserved' = [m_reserved EXCEPT ![t] = arg[c].reserved]
      /\ rstate' = [rstate EXCEPT ![r] = "given"]
      /\ cpc' = [cpc EXCEPT ![c] = "idle"] /\ arg' = [arg EXCEPT ![c] = NoArg]
      /\ holder' = None
  BY DEF Create, Give, Return
<1>6. m_reserveThread' = IF arg[c].reserved THEN m_reserveThread + 1 ELSE m_reserveThread
  BY DEF Create
<1>7. m_runningThreads' = m_runningThreads \cup {t}
  BY DEF Create
<1>8. \A u \in Threads : m_runnable[u] # r
  BY <1>2 DEF HeldState
<1>9. /\ cpc'[c] = "idle" /\ \A d \in Clients : d # c => cpc'[d] = cpc[d] /\ arg'[d] = arg[d]
      /\ rstate'[r] = "given" /\ \A x \in Runnables : x # r => rstate'[x] = rstate[x]
      /\ tpc'[t] = "wait" /\ \A u \in Threads : u # t => tpc'[u] = tpc[u]
      /\ m_runnable'[t] = r /\ \A u \in Threads : u # t => m_runnable'[u] = m_runnable[u]
  BY <1>2, <1>4, <1>5 DEF TypeOK, Create
<1> HIDE DEF r
<1>10. TypeOK'
  <2>1. NoArg \in Args
    BY DEF NoArg, Args
  <2>2. arg' \in [Clients -> Args]
    BY <1>5, <2>1 DEF TypeOK
  <2>3. m_reserveThread' \in Nat
    BY <1>3, <1>6 DEF TypeOK
  <2>4. m_reserved' \in [Threads -> BOOLEAN]
    BY <1>3, <1>5 DEF TypeOK
  <2>5. QED  BY <1>2, <1>5, <1>7, <2>2, <2>3, <2>4 DEF TypeOK, Args, Create
<1>11. LockState'
  <2>1. \A d \in Clients : d # c => cpc[d] \notin Inside
    BY <1>2 DEF LockState
  <2>2. QED  BY <1>5, <1>9, <2>1, SetsAssumption DEF LockState, Inside
<1>12. DeleteState'
  <2>1. \A d \in Clients : cpc[d] \notin Destroying
    BY <1>2 DEF DeleteState
  <2>2. QED  BY <1>9, <2>1 DEF DeleteState, Destroying
<1>13. ListState'
  <2>1. ToDelete' = ToDelete
    BY DEF ToDelete
  <2>2. /\ m_availThreads' \cap m_runningThreads' = {} /\ m_availThreads' \cap ToDelete' = {}
        /\ m_runningThreads' \cap ToDelete' = {}
    BY <1>2, <1>4, <1>9, <1>7, <2>1 DEF ListState, ThreadListed
  <2>3. ASSUME NEW u \in Threads
        PROVE  ThreadListed(u)'
    <3>1. CASE u = t
      BY <1>2, <1>4, <1>9, <1>7, <2>1, <3>1 DEF ListState, ThreadListed
    <3>2. CASE u # t
      BY <1>2, <1>4, <1>9, <1>7, <2>1, <3>2 DEF ListState, ThreadListed
    <3>3. QED  BY <3>1, <3>2
  <2>4. QED  BY <1>2, <1>4, <1>9, <1>7, <2>2, <2>3 DEF ListState
<1>14. HeldState'
  <2>1. /\ m_runnable'[t] = r /\ rstate'[r] = "given" /\ tpc'[t] = "wait"
        /\ \A u \in Threads : u # t => m_runnable'[u] = m_runnable[u] /\ tpc'[u] = tpc[u]
        /\ \A x \in Runnables : x # r => rstate'[x] = rstate[x]
    BY <1>2, <1>4, <1>8, <1>9 DEF TypeOK
  <2>2. QED  BY <1>2, <1>4, <2>1, HeldGiven
<1>15. QueueState'
  BY <1>2, <1>5, QueuesKept
<1>16. ReserveState'
  <2>1. ASSUME reservations = 0
        PROVE  Cardinality((m_runningThreads \cup m_availThreads)') <= Larger(MaxThreadCount, 1)
    <3>1. ~arg[c].reserved
      BY <1>2, <2>1 DEF LockState
    <3>2. Reserving = {}
      BY <2>1 DEF ReserveState, Reserving
    <3>3. m_reserveThread = 0
      BY <3>2, FS_EmptySet DEF ReserveState
    <3>4. Cardinality(m_runningThreads) < Larger(MaxThreadCount, 1)
      BY <3>1, <3>3, SetsAssumption DEF Create, MayCreate, GetRealMaxThread, Larger
    <3>5. t \notin m_runningThreads /\ (m_runningThreads \cup m_availThreads)' = m_runningThreads \cup {t}
      BY <1>4, <1>7 DEF ListState, ThreadListed
    <3>6. /\ Cardinality(m_runningThreads \cup {t}) = Cardinality(m_runningThreads) + 1
          /\ Cardinality(m_runningThreads) \in Nat
      BY <3>5, Finite, FS_AddElement, FS_CardinalityType
    <3>7. Larger(MaxThreadCount, 1) \in Nat
      BY SetsAssumption DEF Larger
    <3>8. QED  BY <3>4, <3>5, <3>6, <3>7
  <2>2. QED  BY <1>2, <1>4, <1>5, <1>6, <1>9, <2>1, ReserveGiven DEF r
<1>17. QED  BY <1>10, <1>11, <1>12, <1>13, <1>14, <1>15, <1>16

\* The system refuses to run a new thread.
LEMMA CreateFailsKeeps ==
  ASSUME IInv, NEW c \in Clients, NEW t \in Threads, CreateFails(c, t)
  PROVE  IInv'
<1>1. UNCHANGED <<m_running, m_availThreads, m_runningThreads, m_reserveThread,
                   m_runnable, m_reserved, target, asleep, reservations>>
  BY DEF CreateFails, Return, Refuse, poolVars, threadVars, clientVars
<1> USE <1>1 DEF IInv
<1> DEFINE r == arg[c].r
<1>2. /\ cpc[c] = "offer" /\ holder = c /\ m_running /\ r \in Runnables
      /\ rstate[r] = "starting"
  BY DEF CreateFails, LockState, Inside
<1>3. arg[c] \in Args
  BY DEF TypeOK
<1>4. /\ QueueState' /\ m_runQueues' \in [Priorities -> Seq(Runnables)]
      /\ rstate' \in [Runnables -> {"new", "starting", "queued", "given", "done", "refused"}]
      /\ rstate'[r] \in {"refused", "queued"}
      /\ \A x \in Runnables : x # r => rstate'[x] = rstate[x]
  BY <1>2, <1>3, Refused DEF CreateFails
<1>5. /\ cpc' = [cpc EXCEPT ![c] = "idle"] /\ arg' = [arg EXCEPT ![c] = NoArg]
      /\ holder' = None
      /\ cpc'[c] = "idle" /\ \A d \in Clients : d # c => cpc'[d] = cpc[d] /\ arg'[d] = arg[d]
  BY DEF CreateFails, Return, TypeOK
<1>6. arg' \in [Clients -> Args] /\ holder' \in Clients \cup {None}
  <2>1. NoArg \in Args
    BY DEF NoArg, Args
  <2>2. QED  BY <1>5, <2>1 DEF TypeOK
<1> HIDE DEF r
<1>7. /\ tpc[t] = "none" /\ m_availThreads = {} /\ tpc'[t] = "ended" /\ t \notin ToDelete
      /\ t \notin m_runningThreads /\ m_runnable[t] = None
      /\ \A u \in Threads : u # t => tpc'[u] = tpc[u] /\ m_doRun'[u] = m_doRun[u]
      /\ tpc' = [tpc EXCEPT ![t] = "ended"] /\ m_doRun' = [m_doRun EXCEPT ![t] = FALSE]
  BY DEF CreateFails, ListState, ThreadListed, TypeOK
<1>8. /\ m_deleteThreads' \in Seq(Threads) /\ Uniq(m_deleteThreads')
      /\ ToDelete' = ToDelete \cup {t}
  <2>1. /\ m_deleteThreads' = <<t>> \o m_deleteThreads /\ m_deleteThreads \in Seq(Threads)
        /\ Uniq(m_deleteThreads)
    BY DEF CreateFails, ListState, ThreadListed, TypeOK
  <2>2. QED  BY <1>7, <2>1, Prepended DEF ToDelete
<1>9. TypeOK'
  <2>1. cpc' \in [Clients -> {"idle", "try", "offer", "wait", "sleep", "deleteWait",
                             "deleteSleep", "delete", "join", "gone"}]
    BY <1>5 DEF TypeOK
  <2>2. /\ tpc' \in [Threads -> {"none", "wait", "run", "release", "finish", "notify",
                                "done", "epilog", "ended"}]
        /\ m_doRun' \in [Threads -> BOOLEAN] /\ failed' \in BOOLEAN
    BY <1>7 DEF TypeOK, CreateFails
  <2>3. QED  BY <1>4, <1>6, <1>8, <2>1, <2>2 DEF TypeOK, Args
<1>10. LockState'
  <2>1. \A d \in Clients : d # c => cpc[d] \notin Inside
    BY <1>2 DEF LockState
  <2>2. QED  BY <1>5, <2>1, SetsAssumption DEF LockState, Inside
<1>11. DeleteState'
  <2>1. \A d \in Clients : cpc[d] \notin Destroying
    BY <1>2 DEF DeleteState
  <2>2. QED  BY <1>5, <2>1 DEF DeleteState, Destroying
<1>12. ListState'
  <2>1. m_running' = m_running
    OBVIOUS
  <2>2. /\ m_availThreads' \cap m_runningThreads' = {} /\ m_availThreads' \cap ToDelete' = {}
        /\ m_runningThreads' \cap ToDelete' = {}
    BY <1>2, <1>7, <1>8, <2>1 DEF ListState, ThreadListed
  <2>3. ASSUME NEW u \in Threads
        PROVE  ThreadListed(u)'
    <3>1. CASE u = t
      BY <1>2, <1>7, <1>8, <2>1, <3>1 DEF ListState, ThreadListed
    <3>2. CASE u # t
      BY <1>2, <1>7, <1>8, <2>1, <3>2 DEF ListState, ThreadListed
    <3>3. QED  BY <3>1, <3>2
  <2>4. QED  BY <1>2, <1>7, <1>8, <2>2, <2>3 DEF ListState
<1>13. HeldState'
  <2>1. \A u \in Threads : m_runnable[u] # None => m_runnable[u] \in Runnables /\ m_runnable[u] # r
    BY <1>2 DEF HeldState, TypeOK
  <2>2. QED  BY <1>4, <1>7, <2>1, SetsAssumption DEF HeldState
<1>14. QueueState'
  BY <1>4
<1>15. ReserveState'
  <2>1. Reserving' = Reserving
    BY <1>7 DEF Reserving, ReserveState
  <2>2. QED  BY <1>7, <2>1, ReserveKept DEF ReserveState
<1>16. QED  BY <1>9, <1>10, <1>11, <1>12, <1>13, <1>14, <1>15

\* Too many threads run.
LEMMA TryFailsKeeps ==
  ASSUME IInv, NEW c \in Clients, TryFails(c)
  PROVE  IInv'
<1>1. UNCHANGED <<m_running, m_availThreads, m_runningThreads, m_deleteThreads,
                   m_reserveThread, tpc, m_doRun, m_runnable, m_reserved, target,
                   asleep, reservations, failed>>
  BY DEF TryFails, Return, Refuse, poolVars, threadVars, clientVars
<1> USE <1>1 DEF IInv
<1> DEFINE r == arg[c].r
<1>2. /\ cpc[c] = "offer" /\ holder = c /\ m_running /\ r \in Runnables
      /\ rstate[r] = "starting"
  BY DEF TryFails, LockState, Inside
<1>3. arg[c] \in Args
  BY DEF TypeOK
<1>4. /\ QueueState' /\ m_runQueues' \in [Priorities -> Seq(Runnables)]
      /\ rstate' \in [Runnables -> {"new", "starting", "queued", "given", "done", "refused"}]
      /\ rstate'[r] \in {"refused", "queued"}
      /\ \A x \in Runnables : x # r => rstate'[x] = rstate[x]
  BY <1>2, <1>3, Refused DEF TryFails
<1>5. /\ cpc' = [cpc EXCEPT ![c] = "idle"] /\ arg' = [arg EXCEPT ![c] = NoArg]
      /\ holder' = None
      /\ cpc'[c] = "idle" /\ \A d \in Clients : d # c => cpc'[d] = cpc[d] /\ arg'[d] = arg[d]
  BY DEF TryFails, Return, TypeOK
<1>6. arg' \in [Clients -> Args] /\ holder' \in Clients \cup {None}
  <2>1. NoArg \in Args
    BY DEF NoArg, Args
  <2>2. QED  BY <1>5, <2>1 DEF TypeOK
<1> HIDE DEF r
<1>7. TypeOK'
  <2>1. cpc' \in [Clients -> {"idle", "try", "offer", "wait", "sleep", "deleteWait",
                             "deleteSleep", "delete", "join", "gone"}]
    BY <1>5 DEF TypeOK
  <2>2. QED  BY <1>4, <1>6, <2>1 DEF TypeOK, Args
<1>8. LockState'
  <2>1. \A d \in Clients : d # c => cpc[d] \notin Inside
    BY <1>2 DEF LockState
  <2>2. QED  BY <1>5, <2>1, SetsAssumption DEF LockState, Inside
<1>9. DeleteState'
  <2>1. \A d \in Clients : cpc[d] \notin Destroying
    BY <1>2 DEF DeleteState
  <2>2. QED  BY <1>5, <2>1 DEF DeleteState, Destroying
<1>10. HeldState'
  <2>1. \A u \in Threads : m_runnable[u] # None => m_runnable[u] \in Runnables /\ m_runnable[u] # r
    BY <1>2 DEF HeldState, TypeOK
  <2>2. QED  BY <1>4, <2>1 DEF HeldState
<1>11. QueueState'
  BY <1>4
<1>12. ListState' /\ ReserveState'
  BY DEF ListState, ThreadListed, ReserveState, ToDelete, Reserving
<1>13. QED  BY <1>7, <1>8, <1>9, <1>10, <1>11, <1>12

\* waitForDone is called.
LEMMA WaitBeginKeeps ==
  ASSUME IInv, NEW c \in Clients, WaitBegin(c)
  PROVE  IInv'
<1>1. UNCHANGED <<m_running, m_runQueues, m_availThreads, m_runningThreads,
                   m_deleteThreads, m_reserveThread, tpc, m_doRun, m_runnable,
                   m_reserved, arg, target, asleep, rstate, reservations, failed>>
  BY DEF WaitBegin, poolVars, threadVars, clientVars
<1> USE <1>1 DEF IInv
<1>2. TypeOK'
  BY SetsAssumption DEF TypeOK, Args, NoArg, WaitBegin
<1>3. LockState'
  BY SetsAssumption DEF LockState, Inside, TypeOK, WaitBegin, Unlocked
<1>4. DeleteState'
  <2>1. \A d \in Clients : cpc'[d] \notin Destroying
    BY DEF WaitBegin, Deleting, Destroying, TypeOK
  <2>2. QED  BY <2>1 DEF DeleteState, Destroying
<1>5. ListState' /\ HeldState' /\ QueueState' /\ ReserveState'
  BY DEF ListState, ThreadListed, HeldState, QueueState, ReserveState, ToDelete, Reserving
<1>6. QED  BY <1>2, <1>3, <1>4, <1>5

\* A join in waitForDone returns.
LEMMA WaitDeleteKeeps ==
  ASSUME IInv, NEW c \in Clients, WaitDelete(c)
  PROVE  IInv'
<1>1. UNCHANGED <<m_running, m_runQueues, m_availThreads, m_runningThreads,
                   m_reserveThread, m_runnable, m_reserved, cpc, arg, target,
                   asleep, holder, rstate, reservations, failed>>
  BY DEF WaitDelete, DeleteLast, DeleteThread, Joined, poolVars, threadVars,
         clientVars
<1> USE <1>1 DEF IInv
<1>2. /\ m_deleteThreads \in Seq(Threads) /\ m_deleteThreads # <<>> /\ Uniq(m_deleteThreads)
      /\ m_deleteThreads' = Front(m_deleteThreads)
  BY DEF WaitDelete, DeleteLast, ListState, ThreadListed, TypeOK
<1> DEFINE t == Last(m_deleteThreads)
<1>3. /\ t \in Threads /\ t \in ToDelete /\ m_deleteThreads' \in Seq(Threads)
      /\ Uniq(m_deleteThreads') /\ ToDelete' = ToDelete \ {t}
  BY <1>2, Popped DEF ToDelete
<1>4. /\ tpc[t] = "ended" /\ tpc' = [tpc EXCEPT ![t] = "none"]
      /\ m_doRun' = [m_doRun EXCEPT ![t] = TRUE]
  BY DEF WaitDelete, DeleteLast, DeleteThread, Joined
<1>5. cpc[c] \in {"try", "wait", "deleteWait"}
  BY DEF WaitDelete, Waiting
<1> HIDE DEF t
<1>6. TypeOK'
  <2>1. /\ tpc' \in [Threads -> {"none", "wait", "run", "release", "finish", "notify",
                                "done", "epilog", "ended"}]
        /\ m_doRun' \in [Threads -> BOOLEAN]
    BY <1>3, <1>4 DEF TypeOK
  <2>2. QED  BY <1>3, <2>1 DEF TypeOK, Args
<1>7. DeleteState'
  <2>1. \A d \in Clients : cpc[d] \notin {"join", "gone"}
    BY <1>5 DEF DeleteState, Destroying
  <2>2. QED  BY <2>1 DEF DeleteState, Destroying
<1>8. ListState'
  <2>1. /\ tpc'[t] = "none" /\ m_doRun'[t]
        /\ \A u \in Threads : u # t => tpc'[u] = tpc[u] /\ m_doRun'[u] = m_doRun[u]
    BY <1>3, <1>4 DEF TypeOK
  <2>2. /\ m_availThreads' \cap m_runningThreads' = {} /\ m_availThreads' \cap ToDelete' = {}
        /\ m_runningThreads' \cap ToDelete' = {}
    BY <1>2, <1>3, <1>4, <2>1 DEF ListState, ThreadListed
  <2>3. ASSUME NEW u \in Threads
        PROVE  ThreadListed(u)'
    <3>1. CASE u = t
      BY <1>2, <1>3, <1>4, <2>1, <3>1 DEF ListState, ThreadListed
    <3>2. CASE u # t
      BY <1>2, <1>3, <1>4, <2>1, <3>2 DEF ListState, ThreadListed
    <3>3. QED  BY <3>1, <3>2
  <2>4. QED  BY <1>2, <1>3, <1>4, <2>2, <2>3 DEF ListState
<1>9. HeldState'
  BY <1>3, <1>4 DEF HeldState, ListState, ThreadListed, TypeOK
<1>10. ReserveState'
  BY <1>3, <1>4 DEF ReserveState, Reserving, TypeOK, Larger
<1>11. LockState' /\ QueueState'
  BY DEF LockState, QueueState, Inside
<1>12. QED  BY <1>6, <1>7, <1>8, <1>9, <1>10, <1>11

\* waitForDone sleeps.
LEMMA WaitSleepKeeps ==
  ASSUME IInv, NEW c \in Clients, WaitSleep(c)
  PROVE  IInv'
<1>1. UNCHANGED <<m_running, m_runQueues, m_availThreads, m_runningThreads,
                   m_deleteThreads, m_reserveThread, tpc, m_doRun, m_runnable,
                   m_reserved, arg, target, rstate, reservations, failed>>
  BY DEF WaitSleep, poolVars, threadVars, clientVars
<1> USE <1>1 DEF IInv
<1>2. TypeOK'
  BY SetsAssumption DEF TypeOK, Args, NoArg, WaitSleep
<1>3. LockState'
  BY SetsAssumption DEF LockState, Inside, TypeOK, WaitSleep, Unlocked
<1>4. DeleteState'
  <2>1. /\ \/ cpc[c] = "wait" /\ cpc'[c] = "sleep"
           \/ cpc[c] = "deleteWait" /\ cpc'[c] = "deleteSleep"
        /\ \A d \in Clients : d # c => cpc'[d] = cpc[d]
    BY DEF WaitSleep, Waiting, TypeOK
  <2>2. QED  BY <2>1 DEF DeleteState, Destroying
<1>5. ListState' /\ HeldState' /\ QueueState' /\ ReserveState'
  BY DEF ListState, ThreadListed, HeldState, QueueState, ReserveState, ToDelete, Reserving
<1>6. QED  BY <1>2, <1>3, <1>4, <1>5

\* waitForDone wakes up.
LEMMA WaitWokenKeeps ==
  ASSUME IInv, NEW c \in Clients, WaitWoken(c)
  PROVE  IInv'
<1>1. UNCHANGED <<m_running, m_runQueues, m_availThreads, m_runningThreads,
                   m_deleteThreads, m_reserveThread, tpc, m_doRun, m_runnable,
                   m_reserved, arg, target, asleep, rstate, reservations, failed>>
  BY DEF WaitWoken, poolVars, threadVars, clientVars
<1> USE <1>1 DEF IInv
<1>2. TypeOK'
  BY SetsAssumption DEF TypeOK, Args, NoArg, WaitWoken
<1>3. LockState'
  BY SetsAssumption DEF LockState, Inside, TypeOK, WaitWoken, Unlocked
<1>4. DeleteState'
  BY SetsAssumption DEF DeleteState, Destroying, TypeOK, WaitWoken, Unlocked
<1>5. ListState' /\ HeldState' /\ QueueState' /\ ReserveState'
  BY DEF ListState, ThreadListed, HeldState, QueueState, ReserveState, ToDelete, Reserving
<1>6. QED  BY <1>2, <1>3, <1>4, <1>5

\* waitForDone is over.
LEMMA WaitEndKeeps ==
  ASSUME IInv, NEW c \in Clients, WaitEnd(c)
  PROVE  IInv'
<1>1. UNCHANGED <<m_running, m_runQueues, m_availThreads, m_runningThreads,
                   m_deleteThreads, m_reserveThread, tpc, m_doRun, m_runnable,
                   m_reserved, arg, target, asleep, rstate, reservations, failed>>
  BY DEF WaitEnd, poolVars, threadVars, clientVars
<1> USE <1>1 DEF IInv
<1>2. TypeOK'
  BY SetsAssumption DEF TypeOK, Args, NoArg, WaitEnd
<1>3. LockState'
  BY SetsAssumption DEF LockState, Inside, TypeOK, WaitEnd, Unlocked
<1>4. DeleteState'
  <2>1. /\ \/ cpc[c] = "wait" /\ cpc'[c] = "idle"
           \/ cpc[c] = "deleteWait" /\ cpc'[c] = "delete"
        /\ \A d \in Clients : d # c => cpc'[d] = cpc[d]
    BY DEF WaitEnd, Waiting, TypeOK
  <2>2. m_runningThreads = {}
    BY DEF WaitEnd, Working, ListState, ThreadListed
  <2>3. QED  BY <2>1, <2>2 DEF DeleteState, Destroying
<1>5. ListState' /\ HeldState' /\ QueueState' /\ ReserveState'
  BY DEF ListState, ThreadListed, HeldState, QueueState, ReserveState, ToDelete, Reserving
<1>6. QED  BY <1>2, <1>3, <1>4, <1>5

\* The pool is stopped.
LEMMA StopKeeps ==
  ASSUME IInv, NEW c \in Clients, Stop(c)
  PROVE  IInv'
<1>1. UNCHANGED <<m_runQueues, m_availThreads, m_runningThreads, m_deleteThreads,
                   m_reserveThread, tpc, m_runnable, m_reserved, cpc, arg, target,
                   holder, rstate, reservations, failed>>
  BY DEF Stop, StopPool, WakeAll, poolVars, threadVars, clientVars
<1> USE <1>1 DEF IInv
<1>2. TypeOK'
  BY SetsAssumption DEF TypeOK, Args, NoArg, Stop, StopPool, WakeAll
<1>3. LockState'
  BY SetsAssumption DEF LockState, Inside, TypeOK, Stop, Unlocked, StopPool, WakeAll
<1>4. DeleteState'
  BY SetsAssumption DEF DeleteState, Destroying, TypeOK, Stop, Unlocked, StopPool,
         WakeAll
<1>5. ListState'
  BY SetsAssumption DEF ListState, ThreadListed, ToDelete, TypeOK, Stop, Unlocked, StopPool,
         WakeAll
<1>6. HeldState' /\ QueueState' /\ ReserveState'
  BY DEF HeldState, QueueState, ReserveState, Reserving
<1>7. QED  BY <1>2, <1>3, <1>4, <1>5, <1>6

\* The destructor begins.
LEMMA DeleteKeeps ==
  ASSUME IInv, NEW c \in Clients, Delete(c)
  PROVE  IInv'
<1>1. UNCHANGED <<m_runQueues, m_availThreads, m_runningThreads, m_deleteThreads,
                   m_reserveThread, tpc, m_runnable, m_reserved, arg, target,
                   rstate, reservations, failed>>
  BY DEF Delete, StopPool, WakeAll, poolVars, threadVars, clientVars
<1> USE <1>1 DEF IInv
<1>2. TypeOK'
  <2>1. m_doRun' \in [Threads -> BOOLEAN]
    BY DEF Delete, StopPool
  <2>2. cpc' \in [Clients -> {"idle", "try", "offer", "wait", "sleep", "deleteWait",
                             "deleteSleep", "delete", "join", "gone"}]
    BY DEF Delete, TypeOK
  <2>3. m_running' \in BOOLEAN /\ holder' \in Clients \cup {None} /\ asleep' \subseteq Clients
    BY DEF Delete, StopPool, WakeAll
  <2>4. QED  BY <2>1, <2>2, <2>3 DEF TypeOK, Args
<1>3. LockState'
  BY SetsAssumption DEF LockState, Inside, TypeOK, Delete, Unlocked, StopPool,
         WakeAll
<1>4. DeleteState'
  BY SetsAssumption DEF DeleteState, Destroying, TypeOK, Delete, Unlocked,
         StopPool, WakeAll
<1>5. ListState'
  BY SetsAssumption DEF ListState, ThreadListed, ToDelete, TypeOK, Delete, Unlocked, StopPool,
         WakeAll
<1>6. HeldState' /\ QueueState' /\ ReserveState'
  BY DEF HeldState, QueueState, ReserveState, Reserving
<1>7. QED  BY <1>2, <1>3, <1>4, <1>5, <1>6

\* The destructor takes the available threads.
LEMMA DeleteBeginKeeps ==
  ASSUME IInv, NEW c \in Clients, DeleteBegin(c)
  PROVE  IInv'
<1>1. UNCHANGED <<m_running, m_runQueues, m_runningThreads, m_reserveThread, tpc,
                   m_doRun, m_runnable, m_reserved, arg, asleep, holder, rstate,
                   reservations, failed>>
  BY DEF DeleteBegin, poolVars, threadVars, clientVars
<1> USE <1>1 DEF IInv
<1>2. /\ cpc[c] = "delete" /\ m_availThreads' = {} /\ m_runningThreads = {} /\ ~m_running
      /\ \A d \in Clients : d # c => cpc[d] = "idle"
  BY DEF DeleteBegin, DeleteState, Destroying
<1>3. /\ m_deleteThreads' \in Seq(Threads) /\ Uniq(m_deleteThreads')
      /\ ToDelete' = ToDelete \cup m_availThreads
  <2>1. PICK s \in SetToSeqs(m_availThreads) : m_deleteThreads' = s \o m_deleteThreads
    BY DEF DeleteBegin
  <2>2. /\ m_deleteThreads \in Seq(Threads) /\ m_availThreads \in SUBSET Threads
        /\ Uniq(m_deleteThreads) /\ m_availThreads \cap ToDelete = {}
    BY DEF ListState, ThreadListed, TypeOK
  <2>3. QED  BY <2>1, <2>2, Finite, PrependedAll DEF ToDelete
<1>4. m_deleteThreads' # <<>> => Last(m_deleteThreads') \in Threads
  BY <1>3, Popped
<1>5. /\ \/ m_deleteThreads' = <<>> /\ cpc' = [cpc EXCEPT ![c] = "gone"] /\ target' = target
         \/ /\ m_deleteThreads' # <<>> /\ cpc' = [cpc EXCEPT ![c] = "join"]
            /\ target' = [target EXCEPT ![c] = Last(m_deleteThreads')]
  BY DEF DeleteBegin
<1>6. TypeOK'
  <2>1. target' \in [Clients -> Threads \cup {None}]
    BY <1>4, <1>5 DEF TypeOK
  <2>2. cpc' \in [Clients -> {"idle", "try", "offer", "wait", "sleep", "deleteWait",
                             "deleteSleep", "delete", "join", "gone"}]
    BY <1>5 DEF TypeOK
  <2>3. m_availThreads' \subseteq Threads
    BY <1>2
  <2>4. QED  BY <1>3, <2>1, <2>2, <2>3 DEF TypeOK, Args
<1>7. LockState'
  <2>1. /\ cpc'[c] \in {"join", "gone"} /\ \A d \in Clients : d # c => cpc'[d] = cpc[d]
    BY <1>5 DEF TypeOK
  <2>2. QED  BY <1>2, <2>1 DEF LockState, Inside
<1>8. DeleteState'
  <2>1. /\ cpc'[c] \in {"join", "gone"} /\ \A d \in Clients : d # c => cpc'[d] = cpc[d]
        /\ cpc'[c] = "join" => m_deleteThreads' # <<>> /\ target'[c] = Last(m_deleteThreads')
        /\ cpc'[c] = "gone" => m_deleteThreads' = <<>>
    BY <1>2, <1>5 DEF TypeOK
  <2>2. QED  BY <1>2, <2>1 DEF DeleteState, Destroying
<1>9. ListState'
  <2>1. ASSUME NEW u \in Threads
        PROVE  u \in m_availThreads' \cup m_runningThreads' \cup ToDelete'
                 <=> u \in m_availThreads \cup m_runningThreads \cup ToDelete
    BY <1>2, <1>3
  <2>2. QED  BY <1>2, <1>3, <2>1 DEF ListState, ThreadListed
<1>10. ReserveState'
  <2>1. Reserving' = Reserving
    BY DEF Reserving
  <2>2. (m_runningThreads \cup m_availThreads)' \subseteq m_runningThreads \cup m_availThreads
    BY <1>2
  <2>3. QED  BY <2>1, <2>2, ReserveKept DEF ReserveState
<1>11. HeldState' /\ QueueState'
  BY DEF HeldState, QueueState
<1>12. QED  BY <1>6, <1>7, <1>8, <1>9, <1>10, <1>11

\* The destructor joined a thread.
LEMMA DeleteJoinedKeeps ==
  ASSUME IInv, NEW c \in Clients, DeleteJoined(c)
  PROVE  IInv'
<1>1. UNCHANGED <<m_running, m_runQueues, m_availThreads, m_runningThreads,
                   m_reserveThread, m_runnable, m_reserved, arg, asleep, holder,
                   rstate, reservations, failed>>
  BY DEF DeleteJoined, DeleteThread, poolVars, threadVars, clientVars
<1> USE <1>1 DEF IInv
<1> DEFINE t == Last(m_deleteThreads)
<1>2. /\ cpc[c] = "join" /\ m_runningThreads = {} /\ m_availThreads = {} /\ ~m_running
      /\ \A d \in Clients : d # c => cpc[d] = "idle"
      /\ m_deleteThreads # <<>> /\ target[c] = t /\ m_deleteThreads \in Seq(Threads)
      /\ Uniq(m_deleteThreads)
  BY DEF DeleteJoined, DeleteState, Destroying, ListState, ThreadListed, TypeOK
<1>3. /\ tpc[t] = "ended" /\ tpc' = [tpc EXCEPT ![t] = "none"]
      /\ m_doRun' = [m_doRun EXCEPT ![t] = TRUE] /\ m_deleteThreads' = Front(m_deleteThreads)
  BY <1>2 DEF DeleteJoined, DeleteThread
<1>4. /\ t \in Threads /\ t \in ToDelete /\ m_deleteThreads' \in Seq(Threads)
      /\ Uniq(m_deleteThreads') /\ ToDelete' = ToDelete \ {t}
  BY <1>2, <1>3, Popped DEF ToDelete
<1>5. m_deleteThreads' # <<>> => Last(m_deleteThreads') \in Threads
  BY <1>4, Popped
<1>6. \/ /\ m_deleteThreads' = <<>> /\ cpc' = [cpc EXCEPT ![c] = "gone"]
         /\ target' = [target EXCEPT ![c] = None]
      \/ /\ m_deleteThreads' # <<>> /\ cpc' = cpc
         /\ target' = [target EXCEPT ![c] = Last(m_deleteThreads')]
  BY DEF DeleteJoined
<1> HIDE DEF t
<1>7. TypeOK'
  <2>1. target' \in [Clients -> Threads \cup {None}]
    BY <1>5, <1>6 DEF TypeOK
  <2>2. cpc' \in [Clients -> {"idle", "try", "offer", "wait", "sleep", "deleteWait",
                             "deleteSleep", "delete", "join", "gone"}]
    BY <1>6 DEF TypeOK
  <2>3. /\ tpc' \in [Threads -> {"none", "wait", "run", "release", "finish", "notify",
                                "done", "epilog", "ended"}]
        /\ m_doRun' \in [Threads -> BOOLEAN]
    BY <1>4, <1>3 DEF TypeOK
  <2>4. QED  BY <1>4, <2>1, <2>2, <2>3 DEF TypeOK, Args
<1>8. LockState'
  <2>1. /\ cpc'[c] \in {"join", "gone"} /\ \A d \in Clients : d # c => cpc'[d] = cpc[d]
    BY <1>2, <1>6 DEF TypeOK
  <2>2. QED  BY <1>2, <2>1 DEF LockState, Inside
<1>9. DeleteState'
  <2>1. /\ cpc'[c] \in {"join", "gone"} /\ \A d \in Clients : d # c => cpc'[d] = cpc[d]
        /\ cpc'[c] = "join" => m_deleteThreads' # <<>> /\ target'[c] = Last(m_deleteThreads')
        /\ cpc'[c] = "gone" => m_deleteThreads' = <<>>
    BY <1>2, <1>6 DEF TypeOK
  <2>2. QED  BY <1>2, <2>1 DEF DeleteState, Destroying
<1>10. ListState'
  <2>1. /\ tpc'[t] = "none" /\ m_doRun'[t]
        /\ \A u \in Threads : u # t => tpc'[u] = tpc[u] /\ m_doRun'[u] = m_doRun[u]
    BY <1>4, <1>3 DEF TypeOK
  <2>2. /\ m_availThreads' \cap m_runningThreads' = {} /\ m_availThreads' \cap ToDelete' = {}
        /\ m_runningThreads' \cap ToDelete' = {}
    BY <1>2, <1>4, <1>3, <2>1 DEF ListState, ThreadListed
  <2>3. ASSUME NEW u \in Threads
        PROVE  ThreadListed(u)'
    <3>1. CASE u = t
      BY <1>2, <1>4, <1>3, <2>1, <3>1 DEF ListState, ThreadListed
    <3>2. CASE u # t
      BY <1>2, <1>4, <1>3, <2>1, <3>2 DEF ListState, ThreadListed
    <3>3. QED  BY <3>1, <3>2
  <2>4. QED  BY <1>2, <1>4, <1>3, <2>2, <2>3 DEF ListState
<1>11. HeldState'
  BY <1>4, <1>3 DEF HeldState, ListState, ThreadListed, TypeOK
<1>12. ReserveState'
  BY <1>4, <1>3 DEF ReserveState, Reserving, TypeOK, Larger
<1>13. QueueState'
  BY DEF QueueState
<1>14. QED  BY <1>7, <1>8, <1>9, <1>10, <1>11, <1>12, <1>13

-----------------------------------------------------------------------------
(* The theorems *)

\* A new pool.
LEMMA InitIInv == Init => IInv
<1> SUFFICES ASSUME Init  PROVE IInv
  OBVIOUS
<1> USE SetsAssumption DEF Init
<1>1. <<>> \in Seq(Runnables) /\ <<>> \in Seq(Threads) /\ NoArg \in Args /\ Elems(<<>>) = {}
  BY DEF NoArg, Args, Elems
<1>2. TypeOK
  BY <1>1 DEF TypeOK
<1>3. LockState /\ DeleteState
  BY DEF LockState, DeleteState, Inside, Destroying
<1>4. ListState
  BY <1>1 DEF ListState, ThreadListed, ToDelete, Uniq
<1>5. HeldState
  BY DEF HeldState
<1>6. QueueState
  BY DEF QueueState
<1>7. ReserveState
  <2>1. Reserving = {} /\ m_runningThreads \cup m_availThreads = {}
    BY DEF Reserving
  <2>2. Larger(MaxThreadCount, 1) \in Nat
    BY DEF Larger
  <2>3. QED  BY <2>1, <2>2, FS_EmptySet DEF ReserveState
<1>8. QED  BY <1>2, <1>3, <1>4, <1>5, <1>6, <1>7 DEF IInv

\* Every step keeps the invariant.
LEMMA NextIInv == IInv /\ [Next]_vars => IInv'
<1> SUFFICES ASSUME IInv, [Next]_vars  PROVE IInv'
  OBVIOUS
<1>1. ASSUME NEW t \in Threads, Thread(t)  PROVE IInv'
  BY <1>1, WakeKeeps, ExpireKeeps, RunnableEndsKeeps, ReleaseThreadKeeps, FinishKeeps,
     NotifyStoppedKeeps, NotifyIdleKeeps, NotifyTakeKeeps, NotifyDoneKeeps, EndKeeps DEF Thread
<1>2. ASSUME NEW c \in Clients, NEW r \in Runnables, CallStopped(c, r) \/ Call(c, r)  PROVE IInv'
  BY <1>2, CallStoppedKeeps, CallKeeps
<1>3. ASSUME NEW c \in Clients, NEW t \in Threads,
             OfferTaken(c, t) \/ OfferRefused(c, t) \/ Create(c, t) \/ CreateFails(c, t)
      PROVE  IInv'
  BY <1>3, OfferTakenKeeps, OfferRefusedKeeps, CreateKeeps, CreateFailsKeeps
<1>4. ASSUME NEW c \in Clients, TryDelete(c) \/ TryOffer(c) \/ TryFails(c)  PROVE IInv'
  BY <1>4, TryDeleteKeeps, TryOfferKeeps, TryFailsKeeps
<1>5. ASSUME NEW c \in Clients, WaitBegin(c) \/ WaitDelete(c) \/ WaitSleep(c) \/ WaitWoken(c) \/ WaitEnd(c)
      PROVE  IInv'
  BY <1>5, WaitBeginKeeps, WaitDeleteKeeps, WaitSleepKeeps, WaitWokenKeeps, WaitEndKeeps
<1>6. ASSUME NEW c \in Clients, Stop(c) \/ Delete(c) \/ DeleteBegin(c) \/ DeleteJoined(c)
      PROVE  IInv'
  BY <1>6, StopKeeps, DeleteKeeps, DeleteBeginKeeps, DeleteJoinedKeeps
<1>7. ASSUME NEW c \in Clients, Client(c)  PROVE IInv'
  BY <1>2, <1>3, <1>4, <1>5, <1>6, <1>7 DEF Client, Continue
<1>8. CASE UNCHANGED vars
  <2> USE <1>8 DEF IInv, vars, poolVars, threadVars, clientVars
  <2>1. TypeOK'
    BY DEF TypeOK, Args
  <2>2. LockState' /\ DeleteState' /\ ListState'
    BY DEF LockState, Inside, DeleteState, Destroying, ListState, ThreadListed, ToDelete
  <2>3. HeldState' /\ QueueState' /\ ReserveState'
    BY DEF HeldState, QueueState, ReserveState, Reserving
  <2>4. QED  BY <2>1, <2>2, <2>3
<1>9. QED  BY <1>1, <1>7, <1>8 DEF Next

\* The inductive invariant holds in every reachable state of the pool
\* (libmythbase/mthreadpool.cpp), for any number of threads and clients.
THEOREM Invariant == Spec => []IInv
  BY InitIInv, NextIInv, PTL DEF Spec

\* A sequence that repeats nothing is no longer than what it is taken from.
LEMMA UniqIsShort ==
  ASSUME NEW S, IsFiniteSet(S), NEW s \in Seq(S), Uniq(s)
  PROVE  Len(s) <= Cardinality(S)
<1> DEFINE n == Len(s)
<1>1. n \in Nat /\ s \in [1 .. n -> S]
  BY LenProperties
<1>2. s \in Injection(1 .. n, S)
  BY <1>1 DEF Uniq, Injection, IsInjective
<1>3. Cardinality(1 .. n) = n /\ IsFiniteSet(1 .. n)
  BY <1>1, FS_Interval
<1>4. QED  BY <1>2, <1>3, FS_Injection

\* What the invariant says of the runnables.
LEMMA KeptByIInv == IInv => RunnablesKept
<1> SUFFICES ASSUME IInv  PROVE RunnablesKept
  OBVIOUS
<1> USE DEF IInv
<1>1. HandoverAccepted
  BY DEF HandoverAccepted, ListState, ThreadListed, HeldState, TypeOK
<1>2. ASSUME NEW r \in Runnables
      PROVE  Cardinality(Occurrences(r)) = IF rstate[r] = "queued" THEN 1 ELSE 0
  <2>1. \A p \in Priorities : Len(m_runQueues[p]) \in Nat /\ Len(m_runQueues[p]) <= Cardinality(Runnables)
    <3> TAKE p \in Priorities
    <3>1. m_runQueues[p] \in Seq(Runnables)
      BY DEF TypeOK
    <3>2. Uniq(m_runQueues[p])
      BY DEF Uniq, QueueState
    <3>3. QED  BY <3>1, <3>2, UniqIsShort, SetsAssumption, LenProperties
  <2>2. Cardinality(Runnables) \in Nat
    BY SetsAssumption, FS_CardinalityType
  <2>3. ASSUME NEW o \in Occurrences(r)
        PROVE  /\ o = <<o[1], o[2]>> /\ o[1] \in Priorities
               /\ o[2] \in 1 .. Len(m_runQueues[o[1]]) /\ m_runQueues[o[1]][o[2]] = r
    BY <2>1, <2>2 DEF Occurrences
  <2>4. CASE rstate[r] = "queued"
    <3>1. PICK p \in Priorities : \E i \in 1 .. Len(m_runQueues[p]) : m_runQueues[p][i] = r
      BY <2>4 DEF QueueState
    <3>2. PICK i \in 1 .. Len(m_runQueues[p]) : m_runQueues[p][i] = r
      BY <3>1
    <3>3. <<p, i>> \in Occurrences(r)
      BY <2>1, <2>2, <3>2 DEF Occurrences
    <3>4. ASSUME NEW o \in Occurrences(r)  PROVE o = <<p, i>>
      <4>1. o[1] = p /\ o[2] = i
        BY <2>3, <3>2 DEF QueueState
      <4>2. QED  BY <2>3, <4>1
    <3>5. Occurrences(r) = {<<p, i>>}
      BY <3>3, <3>4
    <3>6. QED  BY <2>4, <3>5, FS_Singleton
  <2>5. CASE rstate[r] # "queued"
    <3>1. Occurrences(r) = {}
      BY <2>3, <2>5 DEF QueueState
    <3>2. QED  BY <2>5, <3>1, FS_EmptySet
  <2>6. QED  BY <2>4, <2>5
<1>3. ASSUME NEW r \in Runnables
      PROVE  /\ rstate[r] = "given" => /\ Cardinality(Holders(r)) = 1
                                       /\ \A t \in Holders(r) : tpc[t] \in {"wait", "run"}
             /\ rstate[r] \notin {"given", "done"} => Holders(r) = {}
             /\ rstate[r] = "done" => \A t \in Holders(r) : tpc[t] \in {"release", "finish"}
  <2>1. r # None /\ \A t \in Holders(r) : t \in Threads /\ m_runnable[t] = r
    BY SetsAssumption DEF Holders
  <2>2. ASSUME rstate[r] = "given"  PROVE Cardinality(Holders(r)) = 1
    <3>1. PICK t \in Threads : m_runnable[t] = r
      BY <2>2 DEF HeldState
    <3>2. Holders(r) = {t}
      BY <2>1, <3>1 DEF Holders, HeldState
    <3>3. QED  BY <3>2, FS_Singleton
  <2>3. QED  BY <2>1, <2>2 DEF HeldState
<1>4. QED  BY <1>1, <1>2, <1>3 DEF RunnablesKept

\* No runnable that the pool accepted is lost or run twice, in tryStartInternal,
\* NotifyAvailable and MPoolThread::run, however many threads and clients there are.
THEOREM RunnablesAlwaysKept == Spec => []RunnablesKept
  BY Invariant, KeptByIInv, PTL

\* What the invariant says of the lists.
LEMMA AccountedByIInv == IInv => ThreadsAccounted
<1> SUFFICES ASSUME IInv  PROVE ThreadsAccounted
  OBVIOUS
<1> USE DEF IInv
<1>1. NoneLeft
  <2> SUFFICES ASSUME NEW c \in Clients, cpc[c] = "gone", NEW t \in Threads  PROVE tpc[t] = "none"
    BY DEF NoneLeft
  <2>1. ToDelete = {}
    BY DEF DeleteState, ToDelete, Elems
  <2>2. QED  BY <2>1 DEF DeleteState, ListState, ThreadListed
<1>2. ASSUME NEW t \in Threads
      PROVE  (IF t \in m_availThreads THEN 1 ELSE 0) + (IF t \in m_runningThreads THEN 1 ELSE 0)
               + Cardinality({i \in DOMAIN m_deleteThreads : m_deleteThreads[i] = t})
             = IF tpc[t] = "none" THEN 0 ELSE 1
  <2> DEFINE at == {i \in DOMAIN m_deleteThreads : m_deleteThreads[i] = t}
  <2>1. DOMAIN m_deleteThreads = 1 .. Len(m_deleteThreads)
    BY LenProperties DEF TypeOK
  <2>2. Cardinality(at) = IF t \in ToDelete THEN 1 ELSE 0
    <3>1. CASE t \in ToDelete
      <4>1. PICK i \in 1 .. Len(m_deleteThreads) : m_deleteThreads[i] = t
        BY <3>1 DEF ToDelete, Elems
      <4>2. at = {i}
        BY <2>1, <4>1 DEF ListState, ThreadListed, Uniq
      <4>3. QED  BY <3>1, <4>2, FS_Singleton
    <3>2. CASE t \notin ToDelete
      <4>1. at = {}
        BY <2>1, <3>2 DEF ToDelete, Elems
      <4>2. QED  BY <3>2, <4>1, FS_EmptySet
    <3>3. QED  BY <3>1, <3>2
  <2> HIDE DEF at
  <2>3. (IF t \in m_availThreads THEN 1 ELSE 0) + (IF t \in m_runningThreads THEN 1 ELSE 0)
          + (IF t \in ToDelete THEN 1 ELSE 0) = IF tpc[t] = "none" THEN 0 ELSE 1
    BY DEF ListState, ThreadListed
  <2>4. QED  BY <2>2, <2>3 DEF at
<1>3. QED  BY <1>1, <1>2 DEF ThreadsAccounted

\* Every thread is in exactly one of the pool's lists, once, and when the destructor is
\* through (DeletePoolThreads) none is left.
THEOREM ThreadsAlwaysAccounted == Spec => []ThreadsAccounted
  BY Invariant, AccountedByIInv, PTL

\* What the invariant says of the count.
LEMMA ExactByIInv == IInv => ReserveExact
<1> SUFFICES ASSUME IInv  PROVE ReserveExact
  OBVIOUS
<1> USE DEF IInv
<1>1. m_reserveThread = Cardinality({t \in Threads : m_reserved[t] /\ tpc[t] \in {"wait", "run", "release"}})
  BY DEF ReserveState, Reserving
<1>2. ASSUME reservations = 0  PROVE Cardinality(m_runningThreads) <= Larger(MaxThreadCount, 1)
  <2>1. /\ Cardinality(m_runningThreads) <= Cardinality(m_runningThreads \cup m_availThreads)
        /\ Cardinality(m_runningThreads) \in Nat
    BY Finite, FS_Subset, FS_CardinalityType
  <2>2. Larger(MaxThreadCount, 1) \in Nat
    BY SetsAssumption DEF Larger
  <2>3. Cardinality(m_runningThreads \cup m_availThreads) <= Larger(MaxThreadCount, 1)
    BY <1>2 DEF ReserveState
  <2>4. QED  BY <2>1, <2>2, <2>3, Finite
<1>3. QED  BY <1>1, <1>2 DEF ReserveExact

\* m_reserveThread, raised in tryStartInternal and StartThread and lowered in
\* ReleaseThread, is exact, and without reserved starts no more threads run than may.
THEOREM ReserveAlwaysExact == Spec => []ReserveExact
  BY Invariant, ExactByIInv, PTL
=============================================================================
