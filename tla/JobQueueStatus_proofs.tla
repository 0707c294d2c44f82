------------------------ MODULE JobQueueStatus_proofs ------------------------
(***************************************************************************)
(* What the status of a row says about the threads of its job: theorems    *)
(* about JobQueue for every set of hosts, clients, recordings and jobs.    *)
(*                                                                         *)
(* They need that nobody but the queue itself puts a job back: without     *)
(* RecoverOldJobsInQueue and without users who requeue a job whose thread  *)
(* has not ended.                                                          *)
(***************************************************************************)
EXTENDS JobQueue_proofs, FiniteSetTheorems

OnlyTheQueueRequeues == "RecoverOld" \notin Ops /\ "Requeue" \notin Ops

\* What DeleteAllJobs, which claims nothing, may do to a job that waits.
Killed == IF "DeleteAllJobs" \in Ops THEN Done ELSE {}

\* The statuses of a job that nobody works on.
Waiting == {"QUEUED"} \cup Killed

Claiming == {"cancel", "process", "launch"}

\* The host has no thread for the job.
Idle(h, j) == \A t \in Threads : t[1] = h /\ t[2] = j => cpc[t] = "none"

\* A row without a host waits.
RowsWait ==
  /\ \A j \in rows : hostname[j] = NoHost => status[j] \in Waiting
  /\ \A c \in Clients : upc[c] # "requeue"

\* A snapshot has one entry per job.  A job that it shows as queued for the host
\* itself still waits.
Snaps ==
  \A h \in Hosts :
    /\ \A e, f \in todo[h] : e.id = f.id => e = f
    /\ \A e \in todo[h] : e.host = NoHost => e.status = "QUEUED"
    /\ \A e \in todo[h] :
         e.host = h /\ e.status = "QUEUED" =>
           Idle(h, e.id) /\ (e.id \in rows => status[e.id] \in Waiting)

\* A job that a host has claimed has no thread and is not met again in the pass.
Claims ==
  \A h \in Hosts :
    /\ hpc[h] \in Claiming => /\ \A e \in todo[h] : e.id # job[h].id
                              /\ Idle(h, job[h].id)
    /\ hpc[h] = "process" /\ job[h].id \in rows => status[job[h].id] \in Waiting
    /\ hpc[h] = "launch" /\ job[h].id \in rows => status[job[h].id] = "PENDING"

\* What the place of a thread says about the row of its job.
BusyAt(t) ==
  LET s == status[t[2]] IN
  /\ s # "QUEUED"
  /\ cpc[t] \in {"init", "prog", "work"} => s \in Counted
  /\ cpc[t] \in {"start", "complete"} => s \notin Done
  /\ cpc[t] = "complete" /\ result[t] = "RESTART" => s = "RETRY"
  /\ cpc[t] = "exit" /\ result[t] = "RESTART" => s \notin Done

\* A job has one thread on a host, which has a valid pginfo.
Threaded(t) ==
  /\ t[2] \in running[t[1]] \ freed[t[1]]
  /\ t[2] \in rows => BusyAt(t)
  /\ cpc[t] \in {"start", "complete"} => jtype[t[2]] = "transcode"

Busy ==
  /\ \A t, u \in Threads :
       cpc[t] # "none" /\ cpc[u] # "none" /\ t[1] = u[1] /\ t[2] = u[2] => t = u
  /\ \A t \in Threads : cpc[t] # "none" => Threaded(t)

\* RecoverQueue works on jobs that are not done, and frees those that wait.
Recs ==
  \A h \in Hosts :
    /\ hpc[h] # "recover" => rtodo[h] = {}
    /\ \A j \in rtodo[h] \cap rows : status[j] \notin Done \ Killed
    /\ rpc[h] \in {"cmds", "host"} =>
         \A j \in rtodo[h] \cap rows : Recovered(h, j) => status[j] \in Waiting

Life == RowsWait /\ Snaps /\ Claims /\ Busy /\ Recs

\* What Killed may be.
LEMMA KilledDone == Killed \subseteq Done /\ "QUEUED" \notin Done
  BY DEF Killed, Done

\* The entries of a snapshot and of a claim name jobs.
LEMMA EntryIds ==
  ASSUME TypeOK, NEW h \in Hosts
  PROVE  /\ \A e \in todo[h] : e.id \in Ids /\ e.host \in Hosts \cup {NoHost}
         /\ hpc[h] \in Claiming => job[h].id \in Ids
         /\ \A j \in rtodo[h] : j \in Ids
  BY DEF TypeOK, HostOK, RecoverOK, Recoverers, Entries, Claiming

-----------------------------------------------------------------------------
(* Users and housekeeping *)

\* Steps that change neither hosts nor threads, and at most delete rows.
LEMMA LifeFrame ==
  ASSUME Life, rows' \subseteq rows,
         UNCHANGED <<status, hostname, sched, jtype, hpc, todo, job, running,
                     freed, cpc, result, rpc, rtodo>>,
         \A c \in Clients : upc'[c] # "requeue"
  PROVE  Life'
  <1>1. RowsWait'
    BY DEF Life, RowsWait
  <1>2. Snaps'
    BY DEF Life, Snaps, Idle
  <1>3. Claims'
    BY DEF Life, Claims, Idle
  <1>4. Busy'
    BY DEF Life, Busy, Threaded, BusyAt
  <1>5. Recs'
    BY DEF Life, Recs, Recovered, Before
  <1> QED BY <1>1, <1>2, <1>3, <1>4, <1>5 DEF Life

\* A new row waits and concerns nobody yet.
LEMMA InsertedLife ==
  ASSUME TypeOK, Owned, Life, NEW c \in Clients, QueueJobInsert(c), Inserted(c)
  PROVE  Life'
  <1> DEFINE n == nextId
  <1>1. n \in Ids /\ n \notin rows /\ hostname[n] = NoHost
    BY DEF Inserted, Owned, Fresh, TypeOK, TableOK, Ids
  <1>2. /\ rows' = rows \cup {n} /\ status'[n] = "QUEUED"
        /\ \A k \in Ids : k # n => /\ status'[k] = status[k] /\ hostname'[k] = hostname[k]
                                   /\ sched'[k] = sched[k] /\ jtype'[k] = jtype[k]
    BY <1>1 DEF Inserted, TypeOK, TableOK
  <1>3. UNCHANGED <<hpc, todo, job, running, freed, cpc, result, rpc, rtodo>>
    BY DEF QueueJobInsert, hostVars, childVars, recVars
  <1>4. upc' = [upc EXCEPT ![c] = "idle"]
    BY DEF QueueJobInsert
  <1>5. rows \subseteq Ids
    BY DEF TypeOK, TableOK
  <1> HIDE DEF n
  <1>6. /\ \A t \in Threads : t[2] = n => cpc[t] = "none"
        /\ \A h \in Hosts : /\ hpc[h] \in Claiming => job[h].id # n
                            /\ \A e \in todo[h] : e.host = h => e.id # n
                            /\ n \notin rtodo[h]
    BY <1>1, FreeRow DEF Claiming
  <1>7. RowsWait'
    <2>1. \A k \in rows' : hostname'[k] = NoHost => status'[k] \in Waiting
      BY <1>2, <1>5 DEF Life, RowsWait, Waiting
    <2>2. \A d \in Clients : upc'[d] # "requeue"
      BY <1>4 DEF Life, RowsWait, TypeOK, ClientOK
    <2> QED BY <2>1, <2>2 DEF RowsWait
  <1>8. Snaps'
    BY <1>2, <1>3, <1>6, EntryIds DEF Life, Snaps, Idle
  <1>9. Claims'
    BY <1>2, <1>3, <1>6, EntryIds DEF Life, Claims, Idle, Claiming
  <1>10. Busy'
    BY <1>2, <1>3, <1>6, ThreadParts DEF Life, Busy, Threaded, BusyAt
  <1>11. Recs'
    <2>1. \A h \in Hosts : \A j \in rtodo[h] : Recovered(h, j)' <=> Recovered(h, j)
      BY <1>2, <1>3, <1>6, EntryIds DEF Recovered, Before
    <2> QED BY <1>2, <1>3, <1>6, <2>1, EntryIds DEF Life, Recs
  <1> QED BY <1>7, <1>8, <1>9, <1>10, <1>11 DEF Life

\* DeleteAllJobs changes only the status of jobs that wait.
LEMMA DeleteAllJobsLife ==
  ASSUME TypeOK, Life, NEW c \in Clients, DeleteAllJobs(c)
  PROVE  Life'
  <1>1. "DeleteAllJobs" \in Ops /\ Killed = Done
    BY DEF DeleteAllJobs, Killed
  <1>2. \A j \in Ids : \/ status'[j] = status[j]
                       \/ status[j] = "QUEUED" /\ status'[j] = "CANCELLED"
    BY DEF DeleteAllJobs, TypeOK, TableOK
  <1>3. UNCHANGED <<rows, hostname, sched, jtype, hpc, todo, job, running, freed,
                    cpc, result, rpc, rtodo>>
    BY DEF DeleteAllJobs, hostVars, childVars, recVars
  <1>4. upc' = [upc EXCEPT ![c] = "stopAll"]
    BY DEF DeleteAllJobs
  <1>5. rows \subseteq Ids
    BY DEF TypeOK, TableOK
  <1>6. \A j \in Ids : status[j] \in Waiting => status'[j] \in Waiting
    BY <1>1, <1>2 DEF Waiting, Done
  <1>7. RowsWait'
    BY <1>3, <1>4, <1>5, <1>6 DEF Life, RowsWait, TypeOK, ClientOK
  <1>8. Snaps'
    BY <1>3, <1>6, EntryIds DEF Life, Snaps, Idle
  <1>9. Claims'
    BY <1>2, <1>3, <1>6, EntryIds DEF Life, Claims, Idle, Claiming
  <1>10. Busy'
    <2>1. \A t \in Threads : cpc[t] # "none" /\ t[2] \in rows => status'[t[2]] = status[t[2]]
      BY <1>2, ThreadParts DEF Life, Busy, Threaded, BusyAt
    <2> QED BY <1>3, <2>1 DEF Life, Busy, Threaded, BusyAt
  <1>11. Recs'
    <2>1. \A h \in Hosts, j \in Ids : Recovered(h, j)' <=> Recovered(h, j)
      BY <1>3 DEF Recovered, Before
    <2> QED BY <1>1, <1>3, <1>6, <2>1, EntryIds DEF Life, Recs
  <1> QED BY <1>7, <1>8, <1>9, <1>10, <1>11 DEF Life

\* Users and housekeeping keep the invariant.
LEMMA ClientLife ==
  ASSUME TypeOK, Owned, Life, OnlyTheQueueRequeues,
         \/ \E c \in Clients :
              \/ QueueJobSelect(c) \/ Offer(c) \/ Requeue(c)
              \/ DeleteAllJobs(c) \/ WaitAll(c, FALSE) \/ ClientStep(c)
         \/ RecoverOld \/ UserCommand \/ CleanupOldJobsInQueue \/ Tick
  PROVE  Life'
  <1> USE DEF tableVars, hostVars, childVars, recVars, clientVars
  <1>1. ASSUME NEW c \in Clients, NEW s, s # "requeue", upc' = [upc EXCEPT ![c] = s]
        PROVE  \A d \in Clients : upc'[d] # "requeue"
    BY <1>1 DEF Life, RowsWait, TypeOK, ClientOK
  <1>2. ASSUME NEW c \in Clients, QueueJobSelect(c) PROVE Life'
    <2>1. PICK s \in {"insert", "delete", "replace"} : upc' = [upc EXCEPT ![c] = s]
      BY <1>2 DEF QueueJobSelect
    <2>2. UNCHANGED <<rows, status, hostname, sched, jtype, hpc, todo, job, running,
                      freed, cpc, result, rpc, rtodo>>
      BY <1>2 DEF QueueJobSelect
    <2> QED BY <1>1, <2>1, <2>2, LifeFrame
  <1>3. ASSUME NEW c \in Clients, Offer(c) PROVE Life'
    <2>1. upc' = [upc EXCEPT ![c] = "delete"]
      BY <1>3 DEF Offer, OnlyTheQueueRequeues
    <2>2. UNCHANGED <<rows, status, hostname, sched, jtype, hpc, todo, job, running,
                      freed, cpc, result, rpc, rtodo>>
      BY <1>3 DEF Offer
    <2> QED BY <1>1, <2>1, <2>2, LifeFrame
  <1>4. ASSUME NEW c \in Clients, Requeue(c) PROVE Life'
    BY <1>4 DEF Requeue, Life, RowsWait
  <1>5. ASSUME NEW c \in Clients, DeleteJob(c) PROVE Life'
    <2>1. PICK s \in {"insert", "idle"} : upc' = [upc EXCEPT ![c] = s]
      BY <1>5 DEF DeleteJob
    <2>2. /\ UNCHANGED <<status, hostname, sched, jtype, hpc, todo, job, running,
                         freed, cpc, result, rpc, rtodo>>
          /\ rows' \subseteq rows
      BY <1>5 DEF DeleteJob
    <2> QED BY <1>1, <2>1, <2>2, LifeFrame
  <1>6. ASSUME NEW c \in Clients, QueueJobInsert(c) PROVE Life'
    <2>1. CASE UNCHANGED tableVars
      <3>1. upc' = [upc EXCEPT ![c] = "idle"]
        BY <1>6 DEF QueueJobInsert
      <3>2. /\ UNCHANGED <<status, hostname, sched, jtype, hpc, todo, job, running,
                           freed, cpc, result, rpc, rtodo>>
            /\ rows' \subseteq rows
        BY <1>6, <2>1 DEF QueueJobInsert
      <3> QED BY <1>1, <3>1, <3>2, LifeFrame
    <2> QED BY <1>6, <2>1, InsertedLife DEF QueueJobInsert
  <1>7. ASSUME NEW c \in Clients, StopAll(c) \/ DeleteAll(c) PROVE Life'
    <2>1. PICK s \in {"wait", "idle"} : upc' = [upc EXCEPT ![c] = s]
      BY <1>7 DEF StopAll, DeleteAll
    <2>2. /\ UNCHANGED <<status, hostname, sched, jtype, hpc, todo, job, running,
                         freed, cpc, result, rpc, rtodo>>
          /\ rows' \subseteq rows
      BY <1>7 DEF StopAll, DeleteAll
    <2> QED BY <1>1, <2>1, <2>2, LifeFrame
  <1>8. ASSUME NEW c \in Clients, WaitAll(c, TRUE) \/ WaitAll(c, FALSE) PROVE Life'
    <2>1. /\ upc' = [upc EXCEPT ![c] = "deleteAll"]
          /\ UNCHANGED <<tableVars, day, hostVars, childVars, recVars>>
      BY <1>8, Zenon DEF WaitAll
    <2>2. /\ UNCHANGED <<status, hostname, sched, jtype, hpc, todo, job, running,
                         freed, cpc, result, rpc, rtodo>>
          /\ rows' \subseteq rows
      BY <2>1
    <2> QED BY <1>1, <2>1, <2>2, LifeFrame
  <1>9. CASE RecoverOld
    BY <1>9 DEF RecoverOld, OnlyTheQueueRequeues
  <1>10. CASE UserCommand \/ CleanupOldJobsInQueue \/ Tick
    <2>1. /\ UNCHANGED <<status, hostname, sched, jtype, hpc, todo, job, running,
                         freed, cpc, result, rpc, rtodo, upc>>
          /\ rows' \subseteq rows
      BY <1>10 DEF UserCommand, CleanupOldJobsInQueue, Tick
    <2>2. \A c \in Clients : upc'[c] # "requeue"
      BY <2>1 DEF Life, RowsWait
    <2> QED BY <2>1, <2>2, LifeFrame
  <1> HIDE DEF tableVars, hostVars, childVars, recVars, clientVars
  <1> QED BY <1>2, <1>3, <1>4, <1>5, <1>6, <1>7, <1>8, <1>9, <1>10, DeleteAllJobsLife
          DEF ClientStep

-----------------------------------------------------------------------------
(* Threads *)

\* A thread changes nothing that another thread, a claim, a snapshot or a
\* recovery relies on.
LEMMA ThreadFrame ==
  ASSUME TypeOK, Owned, Life, NEW t \in Threads, cpc[t] # "none",
         UNCHANGED <<rows, hostname, sched, jtype, hpc, todo, job, rpc, rtodo, upc>>,
         \A k \in Ids : k # t[2] => status'[k] = status[k],
         \A u \in Threads : u # t => cpc'[u] = cpc[u] /\ result'[u] = result[u],
         \A h \in Hosts, k \in Ids :
           (h # t[1] \/ k # t[2]) /\ k \in running[h] \ freed[h]
             => k \in running'[h] \ freed'[h],
         cpc'[t] # "none" => Threaded(t)'
  PROVE  Life'
  <1>1. /\ t[1] \in Hosts /\ t[2] \in Ids /\ hostname[t[2]] = t[1] /\ t[1] # NoHost
        /\ rows \subseteq Ids
    BY ThreadParts, HostsAssumption
       DEF Owned, Ownership, ThreadsOwned, TypeOK, TableOK
  <1>2. hpc[t[1]] \notin {"down", "recover"}
    BY <1>1 DEF Owned, Ownership, RecoveryOwned
  <1>3. \A h \in Hosts : \A e \in todo[h] :
          e.host = h /\ e.status = "QUEUED" => e.id # t[2]
    BY <1>1 DEF Life, Snaps, Idle, Owned, Ownership, SnapshotsOwned
  <1>4. \A h \in Hosts : hpc[h] \in Claiming => job[h].id # t[2]
    BY <1>1 DEF Life, Claims, Idle, Claiming, Owned, Ownership, ClaimsOwned
  <1>5. \A u \in Threads : u # t /\ cpc[u] # "none" => u[2] # t[2]
    BY <1>1 DEF Life, Busy, Owned, Ownership, ThreadsOwned
  <1>6. \A h \in Hosts : t[2] \notin rtodo[h]
    BY <1>1, <1>2 DEF Life, Recs, Owned, Ownership, RecoveryOwned
  <1>7. RowsWait'
    BY <1>1 DEF Life, RowsWait
  <1>8. Snaps'
    <2>1. ASSUME NEW h \in Hosts, NEW e \in todo[h], e.host = h, e.status = "QUEUED"
          PROVE  /\ \A u \in Threads : u[1] = h /\ u[2] = e.id => cpc'[u] = "none"
                 /\ e.id \in rows => status'[e.id] \in Waiting
      <3>1. e.id # t[2] /\ e.id \in Ids
        BY <2>1, <1>3, EntryIds
      <3> QED BY <2>1, <3>1 DEF Life, Snaps, Idle
    <2> QED BY <2>1 DEF Life, Snaps, Idle
  <1>9. Claims'
    <2>1. ASSUME NEW h \in Hosts, hpc[h] \in Claiming
          PROVE  /\ \A u \in Threads : u[1] = h /\ u[2] = job[h].id => cpc'[u] = "none"
                 /\ status'[job[h].id] = status[job[h].id]
      <3>1. job[h].id # t[2] /\ job[h].id \in Ids
        BY <2>1, <1>4, EntryIds
      <3> QED BY <2>1, <3>1 DEF Life, Claims, Idle
    <2> QED BY <2>1 DEF Life, Claims, Idle, Claiming
  <1>10. Busy'
    <2>1. ASSUME NEW u \in Threads, u # t, cpc'[u] # "none"
          PROVE  cpc[u] # "none" /\ u[2] # t[2] /\ Threaded(u)'
      <3>1. cpc[u] # "none" /\ cpc'[u] = cpc[u] /\ result'[u] = result[u]
        BY <2>1
      <3>2. u[2] # t[2] /\ u[1] \in Hosts /\ u[2] \in Ids
        BY <2>1, <3>1, <1>5, ThreadParts
      <3>3. Threaded(u)
        BY <3>1 DEF Life, Busy
      <3>4. u[2] \in running'[u[1]] \ freed'[u[1]]
        BY <3>2, <3>3 DEF Threaded
      <3>5. status'[u[2]] = status[u[2]]
        BY <3>2
      <3>6. u[2] \in rows => BusyAt(u)'
        BY <3>1, <3>3, <3>5 DEF Threaded, BusyAt
      <3> QED BY <3>1, <3>2, <3>3, <3>4, <3>6 DEF Threaded
    <2>2. \A u, v \in Threads :
            cpc'[u] # "none" /\ cpc'[v] # "none" /\ u[1] = v[1] /\ u[2] = v[2] => u = v
      BY <2>1 DEF Life, Busy
    <2> QED BY <2>1, <2>2 DEF Busy
  <1>11. Recs'
    <2>1. \A h \in Hosts, j \in Ids : Recovered(h, j)' <=> Recovered(h, j)
      BY DEF Recovered, Before
    <2>2. \A h \in Hosts : \A j \in rtodo[h] : status'[j] = status[j] /\ j \in Ids
      BY <1>6, EntryIds
    <2> QED BY <2>1, <2>2 DEF Life, Recs
  <1> QED BY <1>7, <1>8, <1>9, <1>10, <1>11 DEF Life

\* What the two kinds of steps of a thread leave alone.
LEMMA ChildFrame ==
  ASSUME TypeOK, NEW t \in Threads, NEW from, NEW pc \in ThreadPcs, NEW s \in Statuses,
         QuietStep(t, from, pc) \/ ChildStep(t, from, s, pc)
  PROVE  /\ UNCHANGED <<rows, hostname, sched, jtype, hpc, todo, job, rpc, rtodo, upc>>
         /\ \A k \in Ids : k # t[2] => status'[k] = status[k]
         /\ \A u \in Threads : u # t => cpc'[u] = cpc[u]
         /\ cpc[t] = from /\ cpc'[t] = pc
         /\ QuietStep(t, from, pc) => status' = status
         /\ ChildStep(t, from, s, pc) /\ t[2] \in rows => status'[t[2]] = s
  BY ThreadParts
     DEF QuietStep, ChildStep, ChangeJobStatus, tableVars, hostVars, recVars,
         clientVars, TypeOK, TableOK, ChildOK

\* The thread goes on, and its m_runningJobs entry stays as it is.
LEMMA ThreadGoesOn ==
  ASSUME TypeOK, Owned, Life, NEW t \in Threads, NEW from, from # "none",
         NEW pc \in ThreadPcs, NEW s \in Statuses, NEW r,
         QuietStep(t, from, pc) \/ ChildStep(t, from, s, pc),
         result' = [result EXCEPT ![t] = r], UNCHANGED <<running, freed>>,
         pc \in {"start", "complete"} => jtype[t[2]] = "transcode",
         t[2] \in rows /\ Threaded(t) => BusyAt(t)'
  PROVE  Life'
  <1>1. /\ UNCHANGED <<rows, hostname, sched, jtype, hpc, todo, job, rpc, rtodo, upc>>
        /\ \A k \in Ids : k # t[2] => status'[k] = status[k]
        /\ \A u \in Threads : u # t => cpc'[u] = cpc[u]
        /\ cpc[t] = from /\ cpc'[t] = pc
    BY ChildFrame
  <1>2. \A u \in Threads : u # t => result'[u] = result[u]
    BY DEF TypeOK, ChildOK
  <1>3. Threaded(t)
    BY <1>1 DEF Life, Busy
  <1>4. Threaded(t)'
    BY <1>1, <1>3 DEF Threaded
  <1> QED BY <1>1, <1>2, <1>4, ThreadFrame

\* The thread ends, and with it the entry of m_runningJobs or its pginfo.
LEMMA ThreadEnds ==
  ASSUME TypeOK, Owned, Life, NEW t \in Threads, NEW from, from # "none",
         NEW s \in Statuses,
         QuietStep(t, from, "none") \/ ChildStep(t, from, s, "none"),
         \/ Removed(t)
         \/ /\ freed' = [freed EXCEPT ![t[1]] = @ \cup {t[2]}]
            /\ UNCHANGED <<running, result>>
  PROVE  Life'
  <1>0. "none" \in ThreadPcs /\ t[1] \in Hosts /\ t[2] \in Ids
    BY ThreadParts DEF ThreadPcs
  <1>1. /\ UNCHANGED <<rows, hostname, sched, jtype, hpc, todo, job, rpc, rtodo, upc>>
        /\ \A k \in Ids : k # t[2] => status'[k] = status[k]
        /\ \A u \in Threads : u # t => cpc'[u] = cpc[u]
        /\ cpc[t] = from /\ cpc'[t] = "none"
    BY <1>0, ChildFrame
  <1>2. \A u \in Threads : u # t => result'[u] = result[u]
    BY DEF Removed, TypeOK, ChildOK
  <1>3. \A h \in Hosts, k \in Ids :
          (h # t[1] \/ k # t[2]) /\ k \in running[h] \ freed[h]
            => k \in running'[h] \ freed'[h]
    BY <1>0 DEF Removed, TypeOK, ChildOK
  <1> QED BY <1>1, <1>2, <1>3, ThreadFrame

\* Every step of a thread or its program keeps the invariant.
LEMMA ThreadLife ==
  ASSUME TypeOK, Owned, Life, NEW t \in Threads, ThreadStep(t)
  PROVE  Life'
  <1> DEFINE j == t[2]
  <1>0. j \in Ids /\ t[1] \in Hosts /\ result = [result EXCEPT ![t] = result[t]]
    BY ThreadParts DEF TypeOK, ChildOK
  <1>1. \A p \in ThreadPcs : cpc[t] = p /\ p # "none" => Threaded(t)
    BY DEF Life, Busy
  <1> USE DEF ThreadPcs, Statuses, Done
  <1>2. CASE ThreadRunning(t)
    <2>1. t[2] \in running[t[1]]
      <3>1. cpc[t] = "init"
        BY <1>2 DEF ThreadRunning, ChildStep
      <3> QED BY <1>1, <3>1 DEF Threaded
    <2>2. UNCHANGED <<running, freed>> /\ result' = [result EXCEPT ![t] = result[t]]
      BY <1>0, <1>2, <2>1 DEF ThreadRunning, TypeOK, ChildOK
    <2>3. CASE jtype[j] = "transcode" /\ ChildStep(t, "init", "RUNNING", "start")
      <3>1. cpc'[t] = "start" /\ (j \in rows => status'[j] = "RUNNING")
        BY <2>3, ChildFrame
      <3>2. j \in rows => BusyAt(t)'
        BY <3>1 DEF BusyAt
      <3> QED BY <2>2, <2>3, <3>2, ThreadGoesOn
    <2>4. CASE ChildStep(t, "init", "RUNNING", "prog")
      <3>1. cpc'[t] = "prog" /\ (j \in rows => status'[j] = "RUNNING")
        BY <2>4, ChildFrame
      <3>2. j \in rows => BusyAt(t)'
        BY <3>1 DEF BusyAt, Counted
      <3> QED BY <2>2, <2>4, <3>2, ThreadGoesOn
    <2> QED BY <1>2, <2>3, <2>4 DEF ThreadRunning
  <1>3. CASE NoPginfo(t)
    BY <1>1, <1>3 DEF NoPginfo, ChildStep, Threaded
  <1>4. CASE TranscodeStarting(t)
    <2>1. /\ ChildStep(t, "start", "STARTING", "prog") /\ UNCHANGED <<running, freed>>
          /\ result' = [result EXCEPT ![t] = result[t]]
      BY <1>0, <1>4 DEF TranscodeStarting
    <2>2. cpc'[t] = "prog" /\ (j \in rows => status'[j] = "STARTING")
      BY <2>1, ChildFrame
    <2>3. j \in rows => BusyAt(t)'
      BY <2>2 DEF BusyAt, Counted
    <2> QED BY <2>1, <2>3, ThreadGoesOn
  <1>5. CASE FlagStarting(t)
    <2>1. /\ QuietStep(t, "init", "prog") /\ UNCHANGED <<running, freed>>
          /\ result' = [result EXCEPT ![t] = result[t]]
      BY <1>0, <1>5 DEF FlagStarting
    <2>2. cpc[t] = "init" /\ cpc'[t] = "prog" /\ status' = status
      BY <2>1, ChildFrame
    <2>3. j \in rows /\ Threaded(t) => BusyAt(t)'
      BY <2>2 DEF Threaded, BusyAt, Counted
    <2> QED BY <2>1, <2>3, ThreadGoesOn
  <1>6. CASE FlagNoDb(t)
    BY <1>6, ThreadEnds DEF FlagNoDb
  <1>7. CASE ProgramFails(t) \/ UserProgram(t)
    <2>1. PICK r \in {"NOTFOUND", "ERROR", "OK"} : result' = [result EXCEPT ![t] = r]
      BY <1>7 DEF ProgramFails, UserProgram
    <2>2. QuietStep(t, "prog", "exit") /\ UNCHANGED <<running, freed>>
      BY <1>7 DEF ProgramFails, UserProgram
    <2>3. cpc[t] = "prog" /\ cpc'[t] = "exit" /\ status' = status
      BY <2>2, ChildFrame
    <2>4. result'[t] # "RESTART"
      BY <2>1 DEF TypeOK, ChildOK
    <2>5. j \in rows /\ Threaded(t) => BusyAt(t)'
      BY <2>3, <2>4 DEF Threaded, BusyAt
    <2> QED BY <2>1, <2>2, <2>5, ThreadGoesOn
  <1>8. CASE ProgramRunning(t)
    <2>1. /\ ChildStep(t, "prog", "RUNNING", "work") /\ UNCHANGED <<running, freed>>
          /\ result' = [result EXCEPT ![t] = result[t]]
      BY <1>0, <1>8 DEF ProgramRunning
    <2>2. cpc'[t] = "work" /\ (j \in rows => status'[j] = "RUNNING")
      BY <2>1, ChildFrame
    <2>3. j \in rows => BusyAt(t)'
      BY <2>2 DEF BusyAt, Counted
    <2> QED BY <2>1, <2>3, ThreadGoesOn
  <1>9. CASE ProgramBreathe(t)
    <2>1. UNCHANGED <<running, freed>> /\ result' = [result EXCEPT ![t] = result[t]]
      BY <1>0, <1>9 DEF ProgramBreathe
    <2>2. PICK s \in {"PAUSED", "RUNNING"} : ChildStep(t, "work", s, "work")
      BY <1>9 DEF ProgramBreathe
    <2>3. cpc'[t] = "work" /\ (j \in rows => status'[j] = s)
      BY <2>2, ChildFrame
    <2>4. j \in rows => BusyAt(t)'
      BY <2>3 DEF BusyAt, Counted
    <2> QED BY <2>1, <2>2, <2>4, ThreadGoesOn
  <1>10. CASE FlagProgramEnds(t)
    <2>1. PICK r \in Results \cap {"OK", "ERROR"} :
            /\ ChildStep(t, "work", IF r = "OK" THEN "FINISHED" ELSE "ERRORED", "exit")
            /\ result' = [result EXCEPT ![t] = r]
      BY <1>10 DEF FlagProgramEnds
    <2>2. PICK s \in {"FINISHED", "ERRORED"} : ChildStep(t, "work", s, "exit")
      BY <2>1
    <2>3. cpc'[t] = "exit" /\ (j \in rows => status'[j] = s)
      BY <2>2, ChildFrame
    <2>4. result'[t] # "RESTART" /\ UNCHANGED <<running, freed>>
      BY <1>10, <2>1 DEF FlagProgramEnds, TypeOK, ChildOK
    <2>5. j \in rows => BusyAt(t)'
      BY <2>3, <2>4 DEF BusyAt
    <2> QED BY <2>1, <2>2, <2>4, <2>5, ThreadGoesOn
  <1>11. CASE TranscodeResult(t)
    <2>1. PICK o \in {<<"OK", "STOPPING">>, <<"RESTART", "RETRY">>,
                      <<"STOPPED", "ABORTING">>, <<"ERROR", "ERRORING">>} :
            /\ ChildStep(t, "work", o[2], "complete")
            /\ result' = [result EXCEPT ![t] = o[1]]
      BY <1>11 DEF TranscodeResult
    <2>2. /\ o[2] \in {"STOPPING", "RETRY", "ABORTING", "ERRORING"}
          /\ o[1] = "RESTART" => o[2] = "RETRY"
      BY <2>1
    <2>3. cpc'[t] = "complete" /\ (j \in rows => status'[j] = o[2])
      BY <2>1, <2>2, ChildFrame
    <2>4. result'[t] = o[1] /\ UNCHANGED <<running, freed>> /\ jtype[j] = "transcode"
      BY <1>11, <2>1 DEF TranscodeResult, TypeOK, ChildOK
    <2>5. j \in rows => BusyAt(t)'
      BY <2>2, <2>3, <2>4 DEF BusyAt
    <2> QED BY <2>1, <2>2, <2>4, <2>5, ThreadGoesOn
  <1>12. CASE CompleteJob(t)
    <2>0. UNCHANGED <<running, freed>>
      BY <1>12 DEF CompleteJob
    <2>1. CASE /\ result[t] = "OK" /\ UNCHANGED result
               /\ ChildStep(t, "complete", "FINISHED", "exit")
      <3>1. cpc'[t] = "exit" /\ (j \in rows => status'[j] = "FINISHED")
        BY <2>1, ChildFrame
      <3>2. j \in rows => BusyAt(t)'
        BY <2>1, <3>1 DEF BusyAt
      <3> QED BY <1>0, <2>0, <2>1, <3>2, ThreadGoesOn
    <2>2. CASE \E s \in {"ABORTED", "ERRORED"} :
                 /\ GetJobStatus(j) \in {"ABORTING", "ERRORING"} /\ UNCHANGED result
                 /\ ChildStep(t, "complete", s, "exit")
      <3>1. PICK s \in {"ABORTED", "ERRORED"} : ChildStep(t, "complete", s, "exit")
        BY <2>2
      <3>2. /\ cpc[t] = "complete" /\ cpc'[t] = "exit"
            /\ (j \in rows => status'[j] = s)
        BY <3>1, ChildFrame
      <3>3. j \in rows /\ Threaded(t) => result[t] # "RESTART"
        BY <2>2, <3>2 DEF Threaded, BusyAt, GetJobStatus
      <3>4. j \in rows /\ Threaded(t) => BusyAt(t)'
        BY <2>2, <3>2, <3>3 DEF BusyAt
      <3> QED BY <1>0, <2>0, <2>2, <3>1, <3>4, ThreadGoesOn
    <2>3. CASE /\ QuietStep(t, "complete", "exit")
               /\ result' = [result EXCEPT ![t] = "RESTART"]
      <3>1. cpc[t] = "complete" /\ cpc'[t] = "exit" /\ status' = status
        BY <2>3, ChildFrame
      <3>2. j \in rows /\ Threaded(t) => BusyAt(t)'
        BY <3>1 DEF Threaded, BusyAt
      <3> QED BY <2>0, <2>3, <3>2, ThreadGoesOn
    <2> QED BY <1>12, <2>1, <2>2, <2>3 DEF CompleteJob
  <1>13. CASE TranscodeRetry(t)
    <2>1. /\ QuietStep(t, "exit", "start") /\ UNCHANGED <<running, freed>>
          /\ result' = [result EXCEPT ![t] = result[t]]
          /\ result[t] = "RESTART" /\ jtype[j] = "transcode"
      BY <1>0, <1>13 DEF TranscodeRetry, MayRetry
    <2>2. cpc[t] = "exit" /\ cpc'[t] = "start" /\ status' = status
      BY <2>1, ChildFrame
    <2>3. j \in rows /\ Threaded(t) => BusyAt(t)'
      BY <2>1, <2>2 DEF Threaded, BusyAt
    <2> QED BY <2>1, <2>3, ThreadGoesOn
  <1>14. CASE TranscodeExit(t) \/ TranscodeLimit(t) \/ UserExit(t)
    <2>1. UNCHANGED <<running, freed>> /\ result' = [result EXCEPT ![t] = result[t]]
      BY <1>0, <1>14 DEF TranscodeExit, TranscodeLimit, UserExit
    <2>2. PICK s \in {"FINISHED", "ERRORED"}, from \in {"exit", "limit"},
               pc \in {"limit", "remove"} : ChildStep(t, from, s, pc)
      BY <1>14 DEF TranscodeExit, TranscodeLimit, UserExit
    <2>3. cpc'[t] = pc /\ (j \in rows => status'[j] = s)
      BY <2>2, ChildFrame
    <2>4. j \in rows => BusyAt(t)'
      BY <2>3 DEF BusyAt
    <2> QED BY <2>1, <2>2, <2>4, ThreadGoesOn
  <1>15. CASE FlagExit(t)
    <2>1. PICK s \in {"ERRORED", "ABORTED", "FINISHED"} : ChildStep(t, "exit", s, "none")
      BY <1>15 DEF FlagExit
    <2> QED BY <1>15, <2>1, ThreadEnds DEF FlagExit
  <1>16. CASE RemoveRunningJob(t)
    BY <1>16, ThreadEnds DEF RemoveRunningJob
  <1> QED BY <1>2, <1>3, <1>4, <1>5, <1>6, <1>7, <1>8, <1>9, <1>10, <1>11, <1>12,
             <1>13, <1>14, <1>15, <1>16 DEF ThreadStep

-----------------------------------------------------------------------------
(* JobQueue threads *)

\* h takes nothing up and changes no row.
PassesOver(h) ==
  /\ hpc[h] # "recover" /\ hpc'[h] \notin Claiming \cup {"recover"}
  /\ todo'[h] \subseteq todo[h]
  /\ \A g \in Hosts : g # h => UNCHANGED <<hpc[g], todo[g], job[g]>>
  /\ UNCHANGED <<rows, status, hostname, sched, jtype, running, freed, cpc,
                  result, rpc, rtodo, upc>>

\* h goes on in its pass without a claim and leaves every row alone.
LEMMA HostQuiet ==
  ASSUME Life, NEW h \in Hosts, PassesOver(h)
  PROVE  Life'
  <1> USE DEF PassesOver
  <1>1. \A g \in Hosts : IF g = h THEN /\ hpc'[g] \notin Claiming \cup {"recover"}
                                       /\ todo'[g] \subseteq todo[g]
                         ELSE UNCHANGED <<hpc[g], todo[g], job[g]>>
    OBVIOUS
  <1>2. RowsWait'
    BY DEF Life, RowsWait
  <1>3. Snaps'
    BY <1>1 DEF Life, Snaps, Idle
  <1>4. Claims'
    BY <1>1 DEF Life, Claims, Idle, Claiming
  <1>5. Busy'
    BY DEF Life, Busy, Threaded, BusyAt
  <1>6. Recs'
    BY <1>1 DEF Life, Recs, Recovered, Before
  <1> QED BY <1>2, <1>3, <1>4, <1>5, <1>6 DEF Life

\* h changes the row of the job j, which is nobody else's, which has no thread and
\* which h does not meet again in its pass.
Touches(h, j) ==
  /\ {hpc[h], hpc'[h]} \cap {"down", "recover"} = {}
  /\ \A g \in Hosts : g # h =>
       UNCHANGED <<hpc[g], todo[g], job[g], running[g], freed[g]>>
  /\ todo'[h] \subseteq todo[h] /\ \A e \in todo'[h] : e.id # j
  /\ hostname[j] \in {h, NoHost} /\ hostname'[j] = h /\ Idle(h, j)
  /\ UNCHANGED <<rows, sched, jtype, cpc, result, rpc, rtodo, upc>>
  /\ \A k \in Ids : k # j => hostname'[k] = hostname[k] /\ status'[k] = status[k]
  /\ \A k \in running[h] \ freed[h] : k # j => k \in running'[h] \ freed'[h]
  /\ hpc'[h] \in Claiming => job'[h].id = j
  /\ hpc'[h] = "process" /\ j \in rows => status'[j] \in Waiting
  /\ hpc'[h] = "launch" /\ j \in rows => status'[j] = "PENDING"

\* Such a step keeps the invariant.
LEMMA HostTouches ==
  ASSUME TypeOK, Owned, Life, NEW h \in Hosts, NEW j \in Ids, Touches(h, j)
  PROVE  Life'
  <1> USE DEF Touches
  <1>1. \A g \in Hosts : g # h => UNCHANGED <<hpc[g], todo[g], job[g]>>
    OBVIOUS
  <1>2. h # NoHost /\ rows \subseteq Ids
    BY HostsAssumption DEF TypeOK, TableOK
  <1>3. \A t \in Threads : cpc[t] # "none" => t[2] # j
    BY <1>2, ThreadParts, HostsAssumption DEF Owned, Ownership, ThreadsOwned, Idle
  <1>4. \A g \in Hosts : g # h /\ hpc[g] \in Claiming => job[g].id # j
    BY HostsAssumption DEF Owned, Ownership, ClaimsOwned, Claiming
  <1>5. \A g \in Hosts : g # h => \A e \in todo[g] : e.host = g => e.id # j
    BY HostsAssumption DEF Owned, Ownership, SnapshotsOwned
  <1>6. \A g \in Hosts : j \notin rtodo[g]
    <2>1. rtodo[h] = {}
      BY DEF Life, Recs
    <2>2. \A g \in Hosts : j \in rtodo[g] => hostname[j] = g
      BY DEF Owned, Ownership, RecoveryOwned
    <2> QED BY <2>1, <2>2, HostsAssumption
  <1>7. RowsWait'
    BY <1>2 DEF Life, RowsWait
  <1>8. Snaps'
    <2>1. ASSUME NEW g \in Hosts, NEW e \in todo'[g]
          PROVE  /\ e \in todo[g] /\ e.id \in Ids
                 /\ e.host = g => e.id # j
      BY <1>1, <1>5, EntryIds
    <2>2. ASSUME NEW g \in Hosts, NEW e \in todo'[g], e.host = g, e.status = "QUEUED"
          PROVE  Idle(g, e.id)' /\ (e.id \in rows' => status'[e.id] \in Waiting)
      <3>1. e \in todo[g] /\ e.id \in Ids /\ e.id # j
        BY <2>1, <2>2
      <3>2. Idle(g, e.id) /\ (e.id \in rows => status[e.id] \in Waiting)
        BY <2>2, <3>1 DEF Life, Snaps
      <3> QED BY <3>1, <3>2 DEF Idle
    <2> QED BY <2>1, <2>2 DEF Life, Snaps
  <1>9. Claims'
    <2>1. ASSUME NEW g \in Hosts, g # h
          PROVE  /\ hpc'[g] \in Claiming => /\ \A e \in todo'[g] : e.id # job'[g].id
                                            /\ Idle(g, job[g].id)'
                 /\ hpc'[g] = "process" /\ job'[g].id \in rows'
                      => status'[job'[g].id] \in Waiting
                 /\ hpc'[g] = "launch" /\ job'[g].id \in rows'
                      => status'[job'[g].id] = "PENDING"
      <3>1. UNCHANGED <<hpc[g], todo[g], job[g]>>
        BY <1>1, <2>1
      <3>2. hpc[g] \in Claiming => job[g].id # j /\ job[g].id \in Ids
        BY <1>4, <2>1, EntryIds
      <3> QED BY <3>1, <3>2 DEF Life, Claims, Claiming, Idle
    <2>2. /\ hpc'[h] \in Claiming => /\ \A e \in todo'[h] : e.id # job'[h].id
                                     /\ Idle(h, job[h].id)'
          /\ hpc'[h] = "process" /\ job'[h].id \in rows'
               => status'[job'[h].id] \in Waiting
          /\ hpc'[h] = "launch" /\ job'[h].id \in rows'
               => status'[job'[h].id] = "PENDING"
      BY <1>1 DEF Claiming, Idle
    <2> QED BY <2>1, <2>2 DEF Claims
  <1>10. Busy'
    <2>1. ASSUME NEW t \in Threads, cpc'[t] # "none" PROVE Threaded(t)'
      <3>1. t[2] # j /\ t[1] \in Hosts /\ t[2] \in Ids /\ Threaded(t)
        BY <1>3, <2>1, ThreadParts DEF Life, Busy
      <3>2. t[2] \in running'[t[1]] \ freed'[t[1]]
        BY <3>1 DEF Threaded
      <3>3. status'[t[2]] = status[t[2]]
        BY <3>1
      <3> QED BY <3>1, <3>2, <3>3 DEF Threaded, BusyAt
    <2> QED BY <2>1 DEF Life, Busy
  <1>11. Recs'
    <2>1. \A g \in Hosts : \A k \in rtodo[g] : status'[k] = status[k]
      BY <1>6, EntryIds
    <2>2. \A g \in Hosts, k \in Ids : Recovered(g, k)' <=> Recovered(g, k)
      BY DEF Recovered, Before
    <2>3. \A g \in Hosts : hpc'[g] # "recover" => rtodo[g] = {}
      BY <1>1 DEF Life, Recs
    <2> QED BY <2>1, <2>2, <2>3, EntryIds DEF Life, Recs
  <1> QED BY <1>7, <1>8, <1>9, <1>10, <1>11 DEF Life

\* A pass begins: what its snapshot shows as queued waits.
LEMMA PassBegins ==
  ASSUME TypeOK, Owned, Life, NEW h \in Hosts, StartPass(h)
  PROVE  Life'
  <1>1. /\ UNCHANGED <<rows, status, hostname, sched, jtype, running, freed, cpc,
                       result, rpc, rtodo, upc, job>>
        /\ hpc[h] = "idle" /\ hpc' = [hpc EXCEPT ![h] = "scan"]
    BY DEF StartPass, tableVars, childVars, recVars, clientVars
  <1>2. PICK S : S \subseteq GetJobsInQueue /\ todo' = [todo EXCEPT ![h] = S]
    BY DEF StartPass
  <1>3. \A g \in Hosts : IF g = h THEN hpc'[g] = "scan" /\ todo'[g] = S
                         ELSE UNCHANGED <<hpc[g], todo[g]>>
    BY <1>1, <1>2 DEF TypeOK, HostOK
  <1>4. \A e \in S : /\ e.id \in rows /\ e = Entry(e.id) /\ status[e.id] \notin Done
                     /\ e.status = status[e.id] /\ e.host = hostname[e.id]
    BY <1>2 DEF GetJobsInQueue, Entry
  <1>5. \A e \in S : e.host = NoHost => e.status = "QUEUED"
    BY <1>4, KilledDone DEF Life, RowsWait, Waiting
  <1>6. \A e \in S : e.status = "QUEUED" =>
          Idle(h, e.id) /\ (e.id \in rows => status[e.id] \in Waiting)
    BY <1>4 DEF Life, Busy, Threaded, BusyAt, Idle, Waiting
  <1>7. RowsWait' /\ Busy'
    BY <1>1 DEF Life, RowsWait, Busy, Threaded, BusyAt
  <1>8. Snaps'
    <2>1. ASSUME NEW g \in Hosts, g # h
          PROVE  /\ \A e, f \in todo'[g] : e.id = f.id => e = f
                 /\ \A e \in todo'[g] : e.host = NoHost => e.status = "QUEUED"
                 /\ \A e \in todo'[g] : e.host = g /\ e.status = "QUEUED" =>
                      Idle(g, e.id)' /\ (e.id \in rows' => status'[e.id] \in Waiting)
      BY <1>1, <1>3, <2>1 DEF Life, Snaps, Idle
    <2>2. /\ \A e, f \in todo'[h] : e.id = f.id => e = f
          /\ \A e \in todo'[h] : e.host = NoHost => e.status = "QUEUED"
          /\ \A e \in todo'[h] : e.host = h /\ e.status = "QUEUED" =>
               Idle(h, e.id)' /\ (e.id \in rows' => status'[e.id] \in Waiting)
      <3>1. todo'[h] = S
        BY <1>3
      <3>2. \A e, f \in S : e.id = f.id => e = f
        BY <1>4
      <3>3. \A e \in S : Idle(h, e.id) => Idle(h, e.id)'
        BY <1>1 DEF Idle
      <3> QED BY <1>1, <1>5, <1>6, <3>1, <3>2, <3>3
    <2> QED BY <2>1, <2>2 DEF Snaps
  <1>9. Claims'
    BY <1>1, <1>3 DEF Life, Claims, Idle, Claiming
  <1>10. Recs'
    BY <1>1, <1>3 DEF Life, Recs, Recovered, Before
  <1> QED BY <1>7, <1>8, <1>9, <1>10 DEF Life

\* A backend starts or dies.
LEMMA BackendLife ==
  ASSUME TypeOK, Owned, Life, NEW h \in Hosts, Start(h) \/ Crash(h)
  PROVE  Life'
  <1>1. /\ UNCHANGED <<rows, status, hostname, sched, jtype, upc>>
        /\ \A g \in Hosts : g # h =>
             UNCHANGED <<hpc[g], todo[g], job[g], rpc[g], rtodo[g], running[g], freed[g]>>
    BY DEF Start, Crash, tableVars, childVars, clientVars, TypeOK, HostOK, ChildOK,
           RecoverOK, Recoverers
  <1>2. /\ todo'[h] = {} /\ rtodo'[h] = {} /\ hpc'[h] \in {"down", "recover"}
        /\ rpc'[h] \in {"select", "off"}
    <2>1. CASE Start(h)
      <3>1. todo[h] = {} /\ rtodo[h] = {}
        BY <2>1 DEF Start, Life, Recs, Owned, Ownership, RecoveryOwned
      <3> QED BY <2>1, <3>1 DEF Start, TypeOK, HostOK, RecoverOK, Recoverers
    <2>2. CASE Crash(h)
      BY <2>2 DEF Crash, TypeOK, HostOK, RecoverOK, Recoverers
    <2> QED BY <2>1, <2>2
  <1>3. \A t \in Threads : IF t[1] = h THEN cpc'[t] = "none"
                           ELSE UNCHANGED <<cpc[t], result[t]>>
    <2>1. CASE Start(h)
      BY <2>1 DEF Start, childVars, Owned, Ownership, RecoveryOwned
    <2>2. CASE Crash(h)
      BY <2>2 DEF Crash
    <2> QED BY <2>1, <2>2
  <1>4. RowsWait'
    BY <1>1 DEF Life, RowsWait
  <1>5. Snaps'
    <2>1. ASSUME NEW g \in Hosts, g # h
          PROVE  \A k \in Ids : Idle(g, k) => Idle(g, k)'
      BY <1>3, <2>1 DEF Idle
    <2> QED BY <1>1, <1>2, <2>1, EntryIds DEF Life, Snaps
  <1>6. Claims'
    <2>1. ASSUME NEW g \in Hosts, g # h, hpc[g] \in Claiming
          PROVE  Idle(g, job[g].id) => Idle(g, job[g].id)'
      BY <1>1, <1>3, <2>1 DEF Idle
    <2> QED BY <1>1, <1>2, <2>1 DEF Life, Claims, Claiming
  <1>7. Busy'
    <2>1. ASSUME NEW t \in Threads, cpc'[t] # "none"
          PROVE  t[1] # h /\ cpc[t] # "none" /\ Threaded(t)'
      <3>1. t[1] # h /\ t[1] \in Hosts /\ UNCHANGED <<cpc[t], result[t]>>
        BY <1>3, <2>1, ThreadParts
      <3>2. Threaded(t) /\ UNCHANGED <<running[t[1]], freed[t[1]]>>
        BY <1>1, <2>1, <3>1 DEF Life, Busy
      <3> QED BY <1>1, <2>1, <3>1, <3>2 DEF Threaded, BusyAt
    <2> QED BY <2>1 DEF Life, Busy
  <1>8. Recs'
    <2>1. \A g \in Hosts : g # h => \A k \in Ids : Recovered(g, k)' <=> Recovered(g, k)
      BY <1>1 DEF Recovered, Before
    <2> QED BY <1>1, <1>2, <2>1, EntryIds DEF Life, Recs
  <1> QED BY <1>4, <1>5, <1>6, <1>7, <1>8 DEF Life

\* ProcessJob gives a job its thread, the only one.
LEMMA ThreadBegins ==
  ASSUME TypeOK, Owned, Life, NEW h \in Hosts, StartChildJob(h)
  PROVE  Life'
  <1>0. PICK j : j = job[h].id
    OBVIOUS
  <1>1. PICK n \in Copies : cpc' = [cpc EXCEPT ![<<h, j, n>>] = "init"]
    BY <1>0 DEF StartChildJob
  <1>1a. PICK u : u = <<h, j, n>>
    OBVIOUS
  <1>2. /\ hpc[h] = "launch" /\ hpc' = [hpc EXCEPT ![h] = "scan"]
        /\ job' = [job EXCEPT ![h] = NoEntry]
        /\ UNCHANGED <<rows, todo, hostname, sched, jtype, result, rpc, rtodo, upc>>
    BY DEF StartChildJob, Processed, recVars, clientVars
  <1>3. /\ running' = [running EXCEPT ![h] = @ \cup {j}]
        /\ freed' = [freed EXCEPT ![h] = @ \ {j}]
    BY <1>0 DEF StartChildJob
  <1>4. status' = IF j \in rows THEN [status EXCEPT ![j] = "STARTING"] ELSE status
    BY <1>0 DEF StartChildJob, Processed, ChangeJobStatus
  <1>5. /\ j \in Ids /\ hostname[j] = h /\ Idle(h, j)
        /\ \A e \in todo[h] : e.id # j
    BY <1>0, <1>2, EntryIds DEF Claiming, Life, Claims, Owned, Ownership, ClaimsOwned
  <1>6. /\ rows \subseteq Ids /\ u \in Threads /\ u[1] = h /\ u[2] = j
        /\ h # NoHost
    BY <1>5, <1>1a, HostsAssumption DEF TypeOK, TableOK, Threads
  <1>7. /\ \A t \in Threads : t # u => cpc'[t] = cpc[t]
        /\ cpc'[u] = "init"
    BY <1>1, <1>6, <1>1a DEF TypeOK, ChildOK
  <1>8. /\ \A k \in Ids : k # j => status'[k] = status[k]
        /\ j \in rows => status'[j] = "STARTING"
    BY <1>4, <1>5 DEF TypeOK, TableOK
  <1>9. \A g \in Hosts : IF g = h THEN hpc'[g] = "scan"
                         ELSE UNCHANGED <<hpc[g], job[g], running[g], freed[g]>>
    BY <1>2, <1>3 DEF TypeOK, HostOK, ChildOK
  <1>10. /\ j \in running'[h] \ freed'[h]
         /\ \A k \in running[h] \ freed[h] : k \in running'[h] \ freed'[h]
    BY <1>3 DEF TypeOK, ChildOK
  <1>11. \A t \in Threads : cpc[t] # "none" => t[2] # j
    BY <1>5, ThreadParts DEF Owned, Ownership, ThreadsOwned, Idle
  <1>12. \A g \in Hosts : g # h =>
           /\ hpc[g] \in Claiming => job[g].id # j
           /\ \A e \in todo[g] : e.host = g => e.id # j
    BY <1>5 DEF Owned, Ownership, ClaimsOwned, SnapshotsOwned, Claiming
  <1>13. \A g \in Hosts : j \notin rtodo[g]
    BY <1>2, <1>5 DEF Life, Recs, Owned, Ownership, RecoveryOwned
  <1>14. \A g \in Hosts, k \in Ids : k # j /\ Idle(g, k) => Idle(g, k)'
    BY <1>6, <1>7 DEF Idle
  <1>15. RowsWait'
    BY <1>2, <1>5, <1>6, <1>8 DEF Life, RowsWait
  <1>16. Snaps'
    <2>1. \A g \in Hosts : \A e \in todo[g] : e.host = g => e.id # j /\ e.id \in Ids
      BY <1>5, <1>12, EntryIds
    <2> QED BY <1>2, <1>8, <1>14, <2>1 DEF Life, Snaps
  <1>17. Claims'
    <2>1. ASSUME NEW g \in Hosts, hpc'[g] \in Claiming
          PROVE  /\ hpc[g] = hpc'[g] /\ job'[g] = job[g]
                 /\ job[g].id # j /\ job[g].id \in Ids
      BY <1>9, <1>12, <2>1, EntryIds DEF Claiming
    <2>2. \A g \in Hosts : hpc'[g] \in Claiming => Idle(g, job[g].id)'
      <3>1. \A g \in Hosts : hpc'[g] \in Claiming => Idle(g, job[g].id)
        BY <2>1 DEF Life, Claims
      <3> QED BY <1>7, <1>6, <2>1, <3>1 DEF Idle
    <2> QED BY <1>2, <1>8, <2>1, <2>2 DEF Life, Claims, Claiming
  <1>18. Busy'
    <2>1. Threaded(u)'
      <3>1. u[2] \in running'[u[1]] \ freed'[u[1]]
        BY <1>6, <1>10
      <3>2. u[2] \in rows' => BusyAt(u)'
        BY <1>2, <1>6, <1>7, <1>8 DEF BusyAt, Counted, Done
      <3> QED BY <1>7, <3>1, <3>2 DEF Threaded
    <2>2. ASSUME NEW t \in Threads, t # u, cpc'[t] # "none"
          PROVE  cpc[t] # "none" /\ t[2] # j /\ Threaded(t)'
      <3>1. UNCHANGED <<cpc[t], result[t], jtype[t[2]]>> /\ cpc[t] # "none"
        BY <1>2, <1>7, <2>2
      <3>2. t[2] # j /\ t[1] \in Hosts /\ t[2] \in Ids /\ Threaded(t)
        BY <1>11, <3>1, ThreadParts DEF Life, Busy
      <3>3. t[2] \in running'[t[1]] \ freed'[t[1]]
        BY <1>9, <1>10, <3>2 DEF Threaded
      <3>4. status'[t[2]] = status[t[2]]
        BY <1>8, <3>2
      <3> QED BY <1>2, <3>1, <3>2, <3>3, <3>4 DEF Threaded, BusyAt
    <2>3. \A t, v \in Threads :
            cpc'[t] # "none" /\ cpc'[v] # "none" /\ t[1] = v[1] /\ t[2] = v[2] => t = v
      BY <1>6, <2>2 DEF Life, Busy
    <2> QED BY <2>1, <2>2, <2>3 DEF Busy
  <1>19. Recs'
    <2>1. \A g \in Hosts, k \in Ids : Recovered(g, k)' <=> Recovered(g, k)
      BY <1>2 DEF Recovered, Before
    <2>2. \A g \in Hosts : \A k \in rtodo[g] : status'[k] = status[k] /\ k \in Ids
      BY <1>8, <1>13, EntryIds
    <2>3. \A g \in Hosts : hpc'[g] # "recover" => hpc[g] # "recover"
      BY <1>2, <1>9
    <2> QED BY <1>2, <2>1, <2>2, <2>3 DEF Life, Recs
  <1> QED BY <1>15, <1>16, <1>17, <1>18, <1>19 DEF Life

\* Every step of a JobQueue thread keeps the invariant.  Reset has nothing to do:
\* a row without a host is queued, or cancelled.
LEMMA HostLife ==
  ASSUME TypeOK, Owned, Life, NEW h \in Hosts, HostStep(h) \/ Crash(h)
  PROVE  Life'
  <1> USE DEF tableVars, hostVars, childVars, recVars, clientVars
  <1>0. /\ hpc = [hpc EXCEPT ![h] = hpc[h]] /\ todo = [todo EXCEPT ![h] = todo[h]]
        /\ hostname \in [Ids -> Hosts \cup {NoHost}] /\ status \in [Ids -> Statuses]
        /\ rows \subseteq Ids
    BY DEF TypeOK, HostOK, TableOK
  <1>1. CASE Start(h) \/ Crash(h)
    BY <1>1, BackendLife
  <1>2. CASE StartPass(h)
    BY <1>2, PassBegins
  <1>3. CASE EndPass(h)
    <2>1. /\ hpc[h] = "scan" /\ hpc' = [hpc EXCEPT ![h] = "idle"]
          /\ UNCHANGED <<todo, job, rows, status, hostname, sched, jtype, running,
                         freed, cpc, result, rpc, rtodo, upc>>
      BY <1>3 DEF EndPass
    <2>5. PassesOver(h)
      BY <1>0, <2>1 DEF PassesOver, Claiming, TypeOK, HostOK
    <2> QED BY <2>5, HostQuiet
  <1>4. ASSUME NEW e \in todo[h], Takes(h, e)
        PROVE  /\ hpc[h] = "scan" /\ todo' = [todo EXCEPT ![h] = todo[h] \ {e}]
               /\ e.id \in Ids /\ \A f \in todo[h] \ {e} : f.id # e.id
    BY <1>4, EntryIds DEF Takes, Life, Snaps
  <1>5. CASE Skip(h) \/ StopRunning(h) \/ ChangeRunning(h)
    <2>1. PICK e \in todo[h] : Takes(h, e)
      BY <1>5, Zenon DEF Skip, StopRunning, ChangeRunning
    <2>2. UNCHANGED <<hpc, job, rows, status, hostname, sched, jtype, running,
                      freed, cpc, result, rpc, rtodo, upc>>
      BY <1>5 DEF Skip, StopRunning, ChangeRunning
    <2>3. hpc[h] = "scan" /\ todo' = [todo EXCEPT ![h] = todo[h] \ {e}]
      BY <1>4, <2>1
    <2>4. hpc' = [hpc EXCEPT ![h] = "scan"]
      BY <1>0, <2>2, <2>3
    <2>5. PassesOver(h)
      BY <2>2, <2>3, <2>4 DEF PassesOver, Claiming, TypeOK, HostOK
    <2> QED BY <2>5, HostQuiet
  \* A claim that the table has refused.
  <1>6. ASSUME NEW e \in todo[h], Takes(h, e),
               UNCHANGED <<hpc, job, rows, status, hostname, sched, jtype, running,
                           freed, cpc, result, rpc, rtodo, upc>>
        PROVE  Life'
    <2>1. hpc[h] = "scan" /\ todo' = [todo EXCEPT ![h] = todo[h] \ {e}]
      BY <1>4, <1>6
    <2>2. hpc' = [hpc EXCEPT ![h] = "scan"]
      BY <1>0, <1>6, <2>1
    <2>5. PassesOver(h)
      BY <1>6, <2>1, <2>2 DEF PassesOver, Claiming, TypeOK, HostOK
    <2> QED BY <2>5, HostQuiet
  \* A claim that has been granted, or was not needed.
  <1>7. ASSUME NEW e \in todo[h], Takes(h, e), NEW p \in {"cancel", "process"},
               hpc' = [hpc EXCEPT ![h] = p], job' = [job EXCEPT ![h] = e],
               UNCHANGED <<rows, status, sched, jtype, running, freed, cpc, result,
                           rpc, rtodo, upc>>,
               \/ /\ ChangeJobHost(e.id) /\ hostname' = [hostname EXCEPT ![e.id] = h]
               \/ /\ e.host = h /\ e.status = "QUEUED" /\ hostname' = hostname
        PROVE  Life'
    <2>1. PICK j : j = e.id
      OBVIOUS
    <2>2. /\ hpc[h] = "scan" /\ todo' = [todo EXCEPT ![h] = todo[h] \ {e}]
          /\ j \in Ids /\ \A f \in todo[h] \ {e} : f.id # j
      BY <1>4, <1>7, <2>1
    <2>3. /\ hostname[j] \in {h, NoHost} /\ hostname'[j] = h
          /\ \A k \in Ids : k # j => hostname'[k] = hostname[k]
          /\ Idle(h, j) /\ (j \in rows => status[j] \in Waiting)
      <3>1. CASE ChangeJobHost(e.id) /\ hostname' = [hostname EXCEPT ![e.id] = h]
        <4>1. hostname[j] = NoHost /\ (j \in rows => status[j] \in Waiting)
          BY <2>1, <3>1 DEF ChangeJobHost, Life, RowsWait
        <4>2. Idle(h, j)
          BY <2>2, <4>1, FreeRow DEF Idle
        <4> QED BY <1>0, <2>1, <2>2, <3>1, <4>1, <4>2
      <3>2. CASE e.host = h /\ e.status = "QUEUED" /\ hostname' = hostname
        BY <1>7, <2>1, <3>2 DEF Life, Snaps, Owned, Ownership, SnapshotsOwned
      <3> QED BY <1>7, <3>1, <3>2
    <2>4. /\ job'[h] = e /\ \A g \in Hosts : g # h => UNCHANGED <<hpc[g], todo[g], job[g]>>
          /\ hpc'[h] = p /\ todo'[h] = todo[h] \ {e}
      BY <1>7, <2>2 DEF TypeOK, HostOK
    <2>5. Touches(h, j)
      BY <1>7, <2>1, <2>2, <2>3, <2>4 DEF Touches
    <2> QED BY <2>2, <2>5, HostTouches
  <1>8. CASE ClaimToCancel(h)
    <2>1. PICK e \in todo[h], seem \in SUBSET freed[h] : ClaimToCancel(h)!(e, seem)
      BY <1>8 DEF ClaimToCancel
    <2>2. /\ UNCHANGED <<rows, status, sched, jtype, running, freed, cpc, result,
                         rpc, rtodo, upc>>
          /\ Takes(h, e)
      BY <2>1
    <2>3. CASE ChangeJobHost(e.id)
      <3>1. /\ hostname' = [hostname EXCEPT ![e.id] = h]
            /\ hpc' = [hpc EXCEPT ![h] = "cancel"] /\ job' = [job EXCEPT ![h] = e]
        BY <2>1, <2>3
      <3> QED BY <1>7, <2>2, <2>3, <3>1
    <2>4. CASE ~ChangeJobHost(e.id)
      BY <1>6, <2>1, <2>2, <2>4
    <2> QED BY <2>3, <2>4
  <1>9. CASE Claim(h)
    <2>1. PICK e \in todo[h], seem \in SUBSET freed[h] : Claim(h)!(e, seem)
      BY <1>9 DEF Claim
    <2>2. /\ UNCHANGED <<rows, status, sched, jtype, running, freed, cpc, result,
                         rpc, rtodo, upc>>
          /\ Takes(h, e)
      BY <2>1
    <2>3. CASE NeedsClaim(e) /\ ChangeJobHost(e.id)
      <3>1. /\ hostname' = [hostname EXCEPT ![e.id] = h]
            /\ hpc' = [hpc EXCEPT ![h] = "process"] /\ job' = [job EXCEPT ![h] = e]
        BY <2>1, <2>3
      <3> QED BY <1>7, <2>2, <2>3, <3>1
    <2>4. CASE NeedsClaim(e) /\ ~ChangeJobHost(e.id)
      BY <1>6, <2>1, <2>2, <2>4
    <2>5. CASE ~NeedsClaim(e)
      <3>1. e.host = h /\ e.status = "QUEUED"
        BY <2>1, <2>5 DEF Considered, Remote, Starts, NeedsClaim
      <3>2. /\ hpc' = [hpc EXCEPT ![h] = "process"]
            /\ job' = [job EXCEPT ![h] = e] /\ hostname' = hostname
        BY <2>1, <2>5
      <3> QED BY <1>7, <2>2, <3>1, <3>2
    <2> QED BY <2>3, <2>4, <2>5
  <1>10. CASE Reset(h)
    BY <1>10 DEF Reset, Resets, Life, Snaps
  \* A claimed job gets another status.
  <1>11. ASSUME NEW s, NEW p \in {"clearCmds", "launch", "scan"},
                hpc[h] \in Claiming, p = "launch" => s = "PENDING",
                ChangeJobStatus(job[h].id, s), hpc' = [hpc EXCEPT ![h] = p],
                UNCHANGED <<rows, todo, hostname, sched, jtype, cpc, result, rpc,
                            rtodo, upc>>,
                p = "launch" => job'[h] = job[h],
                \A g \in Hosts : g # h => UNCHANGED <<job[g], running[g], freed[g]>>,
                \A k \in running[h] \ freed[h] :
                  k # job[h].id => k \in running'[h] \ freed'[h]
         PROVE  Life'
    <2>1. PICK j : j = job[h].id
      OBVIOUS
    <2>2. /\ hostname[j] = h /\ Idle(h, j) /\ j \in Ids
          /\ \A e \in todo[h] : e.id # j
      BY <1>11, <2>1, EntryIds
         DEF Claiming, Life, Claims, Owned, Ownership, ClaimsOwned
    <2>3. /\ \A k \in Ids : k # j => status'[k] = status[k]
          /\ j \in rows => status'[j] = s
      BY <1>0, <1>11, <2>1, <2>2 DEF ChangeJobStatus
    <2>4. /\ \A g \in Hosts : g # h => hpc'[g] = hpc[g]
          /\ hpc'[h] = p /\ p \notin {"down", "recover", "process"}
          /\ hpc[h] \notin {"down", "recover"} /\ (p \in Claiming => job'[h].id = j)
      BY <1>11, <2>1 DEF Claiming, TypeOK, HostOK
    <2>5. Touches(h, j)
      BY <1>11, <2>1, <2>2, <2>3, <2>4 DEF Touches
    <2> QED BY <2>2, <2>5, HostTouches
  <1>12. CASE Cancel(h)
    <2>1. /\ hpc[h] = "cancel" /\ ChangeJobStatus(job[h].id, "CANCELLED")
          /\ hpc' = [hpc EXCEPT ![h] = "clearCmds"]
          /\ UNCHANGED <<rows, todo, hostname, sched, jtype, cpc, result, rpc, rtodo,
                         upc, job, running, freed>>
      BY <1>12 DEF Cancel
    <2> QED BY <1>11, <2>1 DEF Claiming
  <1>13. CASE Pending(h)
    <2>1. /\ hpc[h] = "process" /\ ChangeJobStatus(job[h].id, "PENDING")
          /\ hpc' = [hpc EXCEPT ![h] = "launch"]
          /\ UNCHANGED <<rows, todo, hostname, sched, jtype, cpc, result, rpc, rtodo,
                         upc, job, running, freed>>
      BY <1>13 DEF Pending
    <2> QED BY <1>11, <2>1 DEF Claiming
  <1>14. CASE NoProgramInfo(h)
    <2>1. /\ hpc[h] = "launch" /\ ChangeJobStatus(job[h].id, "ERRORED")
          /\ hpc' = [hpc EXCEPT ![h] = "scan"] /\ job' = [job EXCEPT ![h] = NoEntry]
          /\ UNCHANGED <<rows, todo, hostname, sched, jtype, cpc, result, rpc, rtodo,
                         upc, running, freed>>
      BY <1>14 DEF NoProgramInfo, Processed
    <2>2. \A g \in Hosts : g # h => job'[g] = job[g]
      BY <2>1 DEF TypeOK, HostOK
    <2> QED BY <1>11, <2>1, <2>2 DEF Claiming
  <1>15. CASE DeletedProgram(h)
    <2>1. /\ hpc[h] = "launch" /\ ChangeJobStatus(job[h].id, "CANCELLED")
          /\ hpc' = [hpc EXCEPT ![h] = "scan"] /\ job' = [job EXCEPT ![h] = NoEntry]
          /\ UNCHANGED <<rows, todo, hostname, sched, jtype, cpc, result, rpc, rtodo,
                         upc>>
      BY <1>15 DEF DeletedProgram, Processed
    <2>2. /\ running' = [running EXCEPT ![h] = @ \ {job[h].id}]
          /\ freed' = [freed EXCEPT ![h] = @ \ {job[h].id}]
      BY <1>15 DEF DeletedProgram
    <2>3. /\ \A g \in Hosts : g # h => UNCHANGED <<job[g], running[g], freed[g]>>
          /\ \A k \in running[h] \ freed[h] :
               k # job[h].id => k \in running'[h] \ freed'[h]
      BY <2>1, <2>2 DEF TypeOK, HostOK, ChildOK
    <2> QED BY <1>11, <2>1, <2>3 DEF Claiming
  <1>16. CASE ClearCmds(h) \/ NoDb(h)
    <2>1. /\ hpc[h] \in {"clearCmds", "process"} /\ hpc' = [hpc EXCEPT ![h] = "scan"]
          /\ job' = [job EXCEPT ![h] = NoEntry]
          /\ UNCHANGED <<todo, rows, status, hostname, sched, jtype, running, freed,
                         cpc, result, rpc, rtodo, upc>>
      BY <1>16 DEF ClearCmds, NoDb
    <2>2. \A g \in Hosts : g # h => job'[g] = job[g]
      BY <2>1 DEF TypeOK, HostOK
    <2>5. PassesOver(h)
      BY <1>0, <2>1, <2>2 DEF PassesOver, Claiming, TypeOK, HostOK
    <2> QED BY <2>5, HostQuiet
  <1>17. CASE StartChildJob(h)
    BY <1>17, ThreadBegins
  <1> HIDE DEF tableVars, hostVars, childVars, recVars, clientVars
  <1> QED BY <1>1, <1>2, <1>3, <1>5, <1>8, <1>9, <1>10, <1>12, <1>13, <1>14, <1>15,
             <1>16, <1>17 DEF HostStep

-----------------------------------------------------------------------------
(* RecoverQueue *)

\* The order of the snapshot is one: only one job is the next to recover.
LEMMA RecoveredOnce ==
  ASSUME TypeOK, NEW a \in Recoverers, NEW j \in Ids, NEW k \in Ids,
         Recovered(a, j), Recovered(a, k)
  PROVE  j = k
  BY DEF Recovered, Before, TypeOK, TableOK, Ids

\* Every step of RecoverQueue keeps the invariant.
LEMMA RecoveryLife ==
  ASSUME TypeOK, Owned, Life, OnlyTheQueueRequeues, NEW a \in Recoverers, Recovery(a)
  PROVE  Life'
  <1> USE DEF tableVars, hostVars, childVars, clientVars
  <1>1. a \in Hosts /\ hpc[a] = "recover"
    BY DEF Recovery, RecoverSelect, RecoverStatus, RecoverCmds, RecoverHost,
           RecoverDone, Owned, Ownership, RecoveryOwned, Recoverers
  <1>2. todo[a] = {} /\ \A t \in Threads : t[1] = a => cpc[t] = "none"
    BY <1>1 DEF Owned, Ownership, RecoveryOwned
  <1>3. UNCHANGED <<rows, sched, jtype, todo, job, running, freed, cpc, result, upc>>
    BY DEF Recovery, RecoverSelect, RecoverStatus, RecoverCmds, RecoverHost,
           RecoverDone
  <1>4. rows \subseteq Ids
    BY DEF TypeOK, TableOK
  \* Steps that change the recovery of a alone.
  <1>5. ASSUME UNCHANGED <<status, hpc>>,
               \A k \in rows : hostname'[k] = NoHost =>
                 hostname[k] = NoHost \/ status[k] \in Waiting,
               \A g \in Hosts : g # a => UNCHANGED <<rpc[g], rtodo[g]>>,
               \A k \in rtodo'[a] \cap rows : status[k] \notin Done \ Killed,
               rpc'[a] \in {"cmds", "host"} =>
                 \A k \in rtodo'[a] \cap rows : Recovered(a, k)' => status[k] \in Waiting
        PROVE  Life'
    <2>1. RowsWait'
      BY <1>3, <1>5 DEF Life, RowsWait
    <2>2. Snaps' /\ Claims'
      BY <1>3, <1>5 DEF Life, Snaps, Claims, Idle
    <2>3. Busy'
      BY <1>3, <1>5 DEF Life, Busy, Threaded, BusyAt
    <2>4. Recs'
      <3>1. \A g \in Hosts : g # a => \A k \in Ids : Recovered(g, k)' <=> Recovered(g, k)
        BY <1>3, <1>5 DEF Recovered, Before
      <3> QED BY <1>1, <1>3, <1>5, <3>1, EntryIds DEF Life, Recs
    <2> QED BY <2>1, <2>2, <2>3, <2>4 DEF Life
  <1>6. CASE RecoverSelect(a)
    <2>1. rtodo' = [rtodo EXCEPT ![a] = Mine(a)]
      BY <1>6 DEF RecoverSelect, OnlyTheQueueRequeues
    <2>2. /\ UNCHANGED <<status, hpc, hostname>> /\ rpc' = [rpc EXCEPT ![a] = "status"]
      BY <1>6 DEF RecoverSelect
    <2>3. \A g \in Hosts : g # a => UNCHANGED <<rpc[g], rtodo[g]>>
      BY <2>1, <2>2 DEF TypeOK, RecoverOK, Recoverers
    <2>4. rpc'[a] = "status" /\ rtodo'[a] = Mine(a)
      BY <2>1, <2>2 DEF TypeOK, RecoverOK
    <2>5. \A k \in Mine(a) : status[k] \notin Done
      BY DEF Mine, Unfinished
    <2> QED BY <1>5, <2>2, <2>3, <2>4, <2>5
  <1>7. CASE RecoverStatus(a)
    <2>1. PICK j \in Ids : Recovered(a, j) /\ ChangeJobStatus(j, "QUEUED")
      BY <1>7 DEF RecoverStatus
    <2>2. UNCHANGED <<hostname, hpc, rtodo>> /\ rpc' = [rpc EXCEPT ![a] = "cmds"]
      BY <1>7 DEF RecoverStatus
    <2>3. /\ \A k \in Ids : k # j => status'[k] = status[k]
          /\ j \in rows => status'[j] = "QUEUED"
      BY <2>1 DEF ChangeJobStatus, TypeOK, TableOK
    <2>4. hostname[j] = a /\ a # NoHost
      BY <1>1, <2>1, HostsAssumption DEF Recovered, Owned, Ownership, RecoveryOwned
    <2>5. \A g \in Hosts : IF g = a THEN rpc'[g] = "cmds" ELSE rpc'[g] = rpc[g]
      BY <2>2 DEF TypeOK, RecoverOK, Recoverers
    <2>6. \A g \in Hosts, k \in Ids : Recovered(g, k)' <=> Recovered(g, k)
      BY <1>3, <2>2 DEF Recovered, Before
    <2>7. /\ \A t \in Threads : cpc[t] # "none" => t[2] # j
          /\ \A g \in Hosts : /\ hpc[g] \in Claiming => job[g].id # j
                              /\ \A e \in todo[g] : e.host = g => e.id # j
                              /\ g # a => j \notin rtodo[g]
      BY <1>1, <1>2, <2>4, ThreadParts
         DEF Owned, Ownership, ThreadsOwned, ClaimsOwned, SnapshotsOwned,
             RecoveryOwned, Claiming
    <2>8. RowsWait'
      BY <1>3, <1>4, <2>2, <2>3, <2>4 DEF Life, RowsWait
    <2>9. Snaps'
      BY <1>3, <2>3, <2>7, EntryIds DEF Life, Snaps, Idle
    <2>10. Claims'
      BY <1>3, <2>2, <2>3, <2>7, EntryIds DEF Life, Claims, Idle, Claiming
    <2>11. Busy'
      <3>1. \A t \in Threads : cpc[t] # "none" => status'[t[2]] = status[t[2]]
        BY <2>3, <2>7, ThreadParts
      <3> QED BY <1>3, <3>1 DEF Life, Busy, Threaded, BusyAt
    <2>12. Recs'
      <3>1. ASSUME NEW g \in Hosts, NEW k \in rtodo[g] \cap rows
            PROVE  /\ status'[k] \notin Done \ Killed
                   /\ rpc'[g] \in {"cmds", "host"} /\ Recovered(g, k)'
                        => status'[k] \in Waiting
        <4>0. k \in Ids /\ Recoverers = Hosts \cup {Housekeeper}
          BY <3>1, EntryIds DEF Recoverers
        <4>1. CASE k = j
          BY <2>3, <3>1, <4>1, KilledDone DEF Waiting
        <4>2. CASE k # j /\ g = a
          BY <2>1, <2>3, <2>6, <3>1, <4>0, <4>2, RecoveredOnce DEF Life, Recs
        <4>3. CASE k # j /\ g # a
          BY <2>3, <2>5, <2>6, <3>1, <4>0, <4>3 DEF Life, Recs
        <4> QED BY <4>1, <4>2, <4>3
      <3> QED BY <1>3, <2>2, <3>1 DEF Life, Recs
    <2> QED BY <2>8, <2>9, <2>10, <2>11, <2>12 DEF Life
  <1>8. CASE RecoverCmds(a)
    <2>1. PICK j \in Ids :
            /\ Recovered(a, j)
            /\ rtodo' = IF RunOnRecordHost THEN [rtodo EXCEPT ![a] = @ \ {j}] ELSE rtodo
      BY <1>8 DEF RecoverCmds
    <2>2. /\ UNCHANGED <<status, hostname, hpc>> /\ rpc[a] = "cmds"
          /\ rpc' = [rpc EXCEPT ![a] = IF RunOnRecordHost THEN "status" ELSE "host"]
      BY <1>8 DEF RecoverCmds
    <2>3. \A g \in Hosts : g # a => UNCHANGED <<rpc[g], rtodo[g]>>
      BY <2>1, <2>2 DEF TypeOK, RecoverOK, Recoverers
    <2>4. /\ rtodo'[a] \subseteq rtodo[a]
          /\ RunOnRecordHost => rpc'[a] = "status"
          /\ ~RunOnRecordHost => rtodo' = rtodo
      BY <1>1, <2>1, <2>2 DEF TypeOK, RecoverOK
    <2>5. ~RunOnRecordHost => \A k \in Ids : Recovered(a, k)' <=> Recovered(a, k)
      BY <1>3, <2>4 DEF Recovered, Before
    <2>6. rpc'[a] \in {"cmds", "host"} =>
            \A k \in rtodo'[a] \cap rows : Recovered(a, k)' => status[k] \in Waiting
      BY <1>1, <1>4, <2>2, <2>4, <2>5 DEF Life, Recs
    <2>7. \A k \in rtodo'[a] \cap rows : status[k] \notin Done \ Killed
      BY <1>1, <2>4 DEF Life, Recs
    <2> QED BY <1>5, <2>2, <2>3, <2>6, <2>7
  <1>9. CASE RecoverHost(a)
    <2>1. PICK j \in Ids :
            /\ Recovered(a, j)
            /\ hostname' = IF j \in rows THEN [hostname EXCEPT ![j] = NoHost]
                                         ELSE hostname
            /\ rtodo' = [rtodo EXCEPT ![a] = @ \ {j}]
      BY <1>9 DEF RecoverHost
    <2>2. /\ UNCHANGED <<status, hpc>> /\ rpc[a] = "host"
          /\ rpc' = [rpc EXCEPT ![a] = "status"]
      BY <1>9 DEF RecoverHost
    <2>3. \A g \in Hosts : g # a => UNCHANGED <<rpc[g], rtodo[g]>>
      BY <2>1, <2>2 DEF TypeOK, RecoverOK, Recoverers
    <2>4. rtodo'[a] \subseteq rtodo[a] /\ rpc'[a] = "status"
      BY <1>1, <2>1, <2>2 DEF TypeOK, RecoverOK
    <2>5. j \in rows => status[j] \in Waiting
      BY <1>1, <2>1, <2>2 DEF Life, Recs, Recovered
    <2>6. \A k \in rows : hostname'[k] = NoHost =>
            hostname[k] = NoHost \/ status[k] \in Waiting
      BY <1>4, <2>1, <2>5 DEF TypeOK, TableOK
    <2>7. \A k \in rtodo'[a] \cap rows : status[k] \notin Done \ Killed
      BY <1>1, <2>4 DEF Life, Recs
    <2> QED BY <1>5, <2>2, <2>3, <2>4, <2>6, <2>7
  <1>10. CASE RecoverDone(a)
    <2>1. /\ UNCHANGED <<status, hostname, rtodo>> /\ rtodo[a] = {}
          /\ rpc' = [rpc EXCEPT ![a] = "off"] /\ hpc' = [hpc EXCEPT ![a] = "idle"]
      BY <1>1, <1>10 DEF RecoverDone
    <2>2. \A g \in Hosts : IF g = a THEN hpc'[g] = "idle" /\ rpc'[g] = "off"
                           ELSE UNCHANGED <<hpc[g], rpc[g]>>
      BY <2>1 DEF TypeOK, HostOK, RecoverOK, Recoverers
    <2>3. RowsWait' /\ Snaps' /\ Busy'
      BY <1>3, <2>1 DEF Life, RowsWait, Snaps, Idle, Busy, Threaded, BusyAt
    <2>4. Claims'
      BY <1>3, <2>1, <2>2 DEF Life, Claims, Claiming, Idle
    <2>5. Recs'
      BY <1>3, <2>1, <2>2 DEF Life, Recs, Recovered, Before
    <2> QED BY <2>3, <2>4, <2>5 DEF Life
  <1> QED BY <1>6, <1>7, <1>8, <1>9, <1>10 DEF Recovery

-----------------------------------------------------------------------------
(* The invariant *)

\* No backend runs and there is no row.
LEMMA InitLife == Init => Life
  BY DEF Init, Life, RowsWait, Snaps, Claims, Claiming, Busy, Recs, Recoverers

\* Every step keeps the invariant.
LEMMA LifeStep ==
  ASSUME OnlyTheQueueRequeues
  PROVE  TypeOK /\ Owned /\ Life /\ [Next]_vars => Life'
  <1> SUFFICES ASSUME TypeOK, Owned, Life, [Next]_vars PROVE Life'
    OBVIOUS
  <1>1. CASE UNCHANGED vars
    <2>1. UNCHANGED <<rows, status, hostname, sched, jtype, hpc, todo, job, running,
                      freed, cpc, result, rpc, rtodo, upc>>
      BY <1>1 DEF vars, tableVars, hostVars, childVars, recVars, clientVars
    <2>2. rows' \subseteq rows /\ \A c \in Clients : upc'[c] # "requeue"
      BY <2>1 DEF Life, RowsWait
    <2> QED BY <2>1, <2>2, LifeFrame
  <1>2. CASE Next
    BY <1>2, HostLife, RecoveryLife, ThreadLife, ClientLife DEF Next
  <1> QED BY <1>1, <1>2

\* The invariant is inductive, together with types and ownership.
LEMMA LifeHolds ==
  ASSUME OnlyTheQueueRequeues
  PROVE  Spec => [](TypeOK /\ Owned /\ Life)
  <1>1. "RecoverOld" \notin Ops
    BY DEF OnlyTheQueueRequeues
  <1>2. Init => TypeOK /\ Owned /\ Life
    BY InitType, InitOwned, InitLife
  <1>3. TypeOK /\ Owned /\ Life /\ [Next]_vars => (TypeOK /\ Owned /\ Life)'
    BY <1>1, TypeStep, OwnedStep, LifeStep
  <1> QED BY <1>2, <1>3, PTL DEF Spec

\* As long as only the queue itself puts jobs back, the thread of a job always has
\* its m_runningJobs entry, and the pginfo in it is not deleted under it, although
\* FlagNoDb leaves entries with a deleted pginfo behind (ProcessJob,
\* RemoveRunningJob, DoFlagCommercialsThread).
THEOREM PginfoStaysAlive ==
  ASSUME OnlyTheQueueRequeues
  PROVE  Spec => []PginfoAlive
  <1>1. Life => PginfoAlive
    <2> SUFFICES ASSUME Life, NEW h \in Hosts, NEW j \in Ids, NEW n \in Copies,
                        cpc[<<h, j, n>>] # "none"
                 PROVE  j \in running[h] \ freed[h]
      BY DEF PginfoAlive, Alive
    <2>1. PICK t \in Threads : t = <<h, j, n>>
      BY DEF Threads
    <2>2. Threaded(t) /\ t[1] = h /\ t[2] = j
      BY <2>1 DEF Life, Busy
    <2> QED BY <2>2 DEF Threaded
  <1> QED BY <1>1, LifeHolds, PTL

-----------------------------------------------------------------------------
(* Jobs that are done *)

\* A host gives a new status only to a job it has claimed, and leaves the claim
\* only with one that is done, or one of a job that was not done.
LEMMA HostKeepsDone ==
  ASSUME TypeOK, Life, "DeleteAllJobs" \notin Ops, NEW h \in Hosts,
         HostStep(h) \/ Crash(h), NEW k \in rows, status[k] \in Done
  PROVE  status'[k] \in Done
  <1> USE DEF tableVars
  <1>1. Waiting = {"QUEUED"} /\ k \in Ids /\ status \in [Ids -> Statuses]
    BY DEF Waiting, Killed, TypeOK, TableOK
  <1>2. ASSUME NEW s, ChangeJobStatus(job[h].id, s), job[h].id = k => s \in Done
        PROVE  status'[k] \in Done
    BY <1>1, <1>2 DEF ChangeJobStatus
  <1>3. CASE Cancel(h)
    BY <1>2, <1>3 DEF Cancel, Done
  <1>4. CASE Pending(h)
    <2>1. job[h].id # k
      BY <1>1, <1>4 DEF Pending, Life, Claims, Done
    <2> QED BY <1>2, <1>4, <2>1 DEF Pending
  <1>5. CASE NoProgramInfo(h) \/ DeletedProgram(h)
    BY <1>2, <1>5 DEF NoProgramInfo, DeletedProgram, Processed, Done
  <1>6. CASE StartChildJob(h)
    <2>1. Processed(h, "STARTING")
      BY <1>6 DEF StartChildJob
    <2>2. job[h].id # k
      BY <2>1 DEF Processed, Life, Claims, Done
    <2> QED BY <1>2, <2>1, <2>2 DEF Processed
  <1>7. CASE Reset(h)
    BY <1>7 DEF Reset, Resets, Life, Snaps
  <1>8. CASE \/ Start(h) \/ StartPass(h) \/ EndPass(h) \/ Skip(h) \/ StopRunning(h)
             \/ ChangeRunning(h) \/ ClaimToCancel(h) \/ ClearCmds(h) \/ Claim(h)
             \/ NoDb(h) \/ Crash(h)
    <2>1. status' = status
      BY <1>8 DEF Start, StartPass, EndPass, Skip, StopRunning, ChangeRunning,
                  ClaimToCancel, ClearCmds, Claim, NoDb, Crash
    <2> QED BY <2>1
  <1> QED BY <1>3, <1>4, <1>5, <1>6, <1>7, <1>8 DEF HostStep

\* A thread gives a job that is done no status but another of these: its places
\* from "init" to "work" are those of a job that is not done.
LEMMA ThreadKeepsDone ==
  ASSUME TypeOK, Owned, Life, NEW t \in Threads, ThreadStep(t),
         NEW k \in rows, status[k] \in Done
  PROVE  status'[k] \in Done
  <1>0. k \in Ids
    BY DEF TypeOK, TableOK
  <1> USE DEF ThreadPcs, Statuses, Done
  <1>1. ASSUME NEW from \in ThreadPcs, NEW pc \in ThreadPcs, NEW s \in Statuses,
               QuietStep(t, from, pc) \/ ChildStep(t, from, s, pc),
               s \in Done \/ from \in {"init", "start", "prog", "work"}
        PROVE  status'[k] \in Done
    <2>1. /\ cpc[t] = from /\ \A j \in Ids : j # t[2] => status'[j] = status[j]
          /\ QuietStep(t, from, pc) => status' = status
          /\ ChildStep(t, from, s, pc) /\ t[2] \in rows => status'[t[2]] = s
      BY <1>1, ChildFrame
    <2>2. from \in {"init", "start", "prog", "work"} => t[2] # k
      BY <2>1 DEF Life, Busy, Threaded, BusyAt, Counted
    <2> QED BY <1>0, <1>1, <2>1, <2>2
  <1>2. CASE ThreadRunning(t) \/ TranscodeStarting(t) \/ FlagStarting(t)
    BY <1>1, <1>2 DEF ThreadRunning, TranscodeStarting, FlagStarting
  <1>3. CASE NoPginfo(t) \/ FlagNoDb(t)
    BY <1>1, <1>3 DEF NoPginfo, FlagNoDb
  <1>4. CASE ProgramFails(t) \/ UserProgram(t) \/ ProgramRunning(t)
    BY <1>1, <1>4 DEF ProgramFails, UserProgram, ProgramRunning
  <1>5. CASE ProgramBreathe(t) \/ FlagProgramEnds(t)
    BY <1>1, <1>5 DEF ProgramBreathe, FlagProgramEnds
  <1>6. CASE TranscodeResult(t)
    <2>1. PICK s \in {"STOPPING", "RETRY", "ABORTING", "ERRORING"} :
            ChildStep(t, "work", s, "complete")
      BY <1>6 DEF TranscodeResult
    <2> QED BY <1>1, <2>1
  <1>7. CASE CompleteJob(t)
    BY <1>1, <1>7 DEF CompleteJob
  <1>8. CASE TranscodeRetry(t)
    <2>1. QuietStep(t, "exit", "start") /\ "FINISHED" \in Done
      BY <1>8 DEF TranscodeRetry
    <2> QED BY <1>1, <2>1
  <1>9. CASE TranscodeExit(t) \/ TranscodeLimit(t)
    BY <1>1, <1>9 DEF TranscodeExit, TranscodeLimit
  <1>10. CASE FlagExit(t) \/ UserExit(t)
    BY <1>1, <1>10 DEF FlagExit, UserExit
  <1>11. CASE RemoveRunningJob(t)
    <2>1. QuietStep(t, "remove", "none") /\ "FINISHED" \in Done
      BY <1>11 DEF RemoveRunningJob
    <2> QED BY <1>1, <2>1
  <1> QED BY <1>2, <1>3, <1>4, <1>5, <1>6, <1>7, <1>8, <1>9, <1>10, <1>11
          DEF ThreadStep

\* RecoverQueue, users and housekeeping leave jobs that are done alone.
LEMMA OthersKeepDone ==
  ASSUME TypeOK, Owned, Life, OnlyTheQueueRequeues, "DeleteAllJobs" \notin Ops,
         \/ \E a \in Recoverers : Recovery(a)
         \/ \E c \in Clients :
              \/ QueueJobSelect(c) \/ Offer(c) \/ Requeue(c)
              \/ DeleteAllJobs(c) \/ WaitAll(c, FALSE) \/ ClientStep(c)
         \/ RecoverOld \/ UserCommand \/ CleanupOldJobsInQueue \/ Tick,
         NEW k \in rows, status[k] \in Done
  PROVE  status'[k] \in Done
  <1> USE DEF tableVars
  <1>1. k \in Ids /\ status \in [Ids -> Statuses] /\ k < nextId
    BY DEF TypeOK, TableOK
  <1>2. ASSUME NEW a \in Recoverers, Recovery(a) PROVE status'[k] \in Done
    <2>1. a \in Hosts
      BY <1>2 DEF Recovery, RecoverSelect, RecoverStatus, RecoverCmds, RecoverHost,
             RecoverDone, Owned, Ownership, RecoveryOwned, Recoverers
    <2>2. CASE RecoverStatus(a)
      <3>1. PICK j \in Ids : Recovered(a, j) /\ ChangeJobStatus(j, "QUEUED")
        BY <2>2 DEF RecoverStatus
      <3>2. j # k
        BY <2>1, <3>1 DEF Recovered, Life, Recs, Killed
      <3> QED BY <1>1, <3>1, <3>2 DEF ChangeJobStatus
    <2>3. CASE RecoverSelect(a) \/ RecoverCmds(a) \/ RecoverHost(a) \/ RecoverDone(a)
      BY <2>3 DEF RecoverSelect, RecoverCmds, RecoverHost, RecoverDone
    <2> QED BY <1>2, <2>2, <2>3 DEF Recovery
  <1>3. ASSUME NEW c \in Clients, QueueJobInsert(c) PROVE status'[k] \in Done
    BY <1>1, <1>3 DEF QueueJobInsert, Inserted, TypeOK, TableOK
  <1>4. ASSUME NEW c \in Clients,
               \/ QueueJobSelect(c) \/ Offer(c) \/ DeleteJob(c) \/ StopAll(c)
               \/ DeleteAll(c)
        PROVE  status'[k] \in Done
    BY <1>4 DEF QueueJobSelect, Offer, DeleteJob, StopAll, DeleteAll
  <1>5. ASSUME NEW c \in Clients, WaitAll(c, TRUE) \/ WaitAll(c, FALSE)
        PROVE  status'[k] \in Done
    <2>1. UNCHANGED <<tableVars, day, hostVars, childVars, recVars>>
      BY <1>5, Zenon DEF WaitAll
    <2> QED BY <2>1
  <1>6. ASSUME NEW c \in Clients, Requeue(c) \/ DeleteAllJobs(c) PROVE FALSE
    BY <1>6 DEF Requeue, DeleteAllJobs, Life, RowsWait
  <1>7. CASE RecoverOld \/ UserCommand \/ CleanupOldJobsInQueue \/ Tick
    BY <1>7 DEF RecoverOld, UserCommand, CleanupOldJobsInQueue, Tick
  <1> QED BY <1>2, <1>3, <1>4, <1>5, <1>6, <1>7 DEF ClientStep

\* As long as only the queue itself puts jobs back, and no recording is deleted
\* with DeleteAllJobs, a job that is done stays done: no thread that is late, stale
\* snapshot, claim or recovery after a crash brings it back (ChangeJobStatus,
\* ProcessQueue, RecoverQueue).
THEOREM DoneJobsStayDone ==
  ASSUME OnlyTheQueueRequeues, "DeleteAllJobs" \notin Ops
  PROVE  Spec => DoneStays
  <1>1. TypeOK /\ Owned /\ Life /\ [Next]_vars =>
          [\A j \in rows \cap rows' : status[j] \in Done => status'[j] \in Done]_vars
    BY HostKeepsDone, ThreadKeepsDone, OthersKeepDone DEF Next
  <1> QED BY <1>1, LifeHolds, PTL DEF Spec, DoneStays

-----------------------------------------------------------------------------
(* How many jobs a host works on *)

\* The rows of h that JobsRunning counts.
Load(h) == {j \in rows : hostname[j] = h /\ status[j] \in Counted}

\* h may still start a job in this pass.
MayStart(h) ==
  ~startedJobAlready[h] /\ (todo[h] # {} \/ hpc[h] \in {"process", "launch"})

\* No host has more such rows than allowed, and one that may start a job has room.
Limits ==
  \A h \in Hosts :
    /\ Cardinality(Load(h)) <= MaxJobs
    /\ MayStart(h) => Cardinality(Load(h)) < MaxJobs
    /\ hpc[h] \in {"process", "launch"} => ~startedJobAlready[h]

\* The rows are finitely many.
LEMMA LoadFinite ==
  ASSUME TypeOK, NEW h
  PROVE  IsFiniteSet(Load(h)) /\ Cardinality(Load(h)) \in Nat
  <1>1. IsFiniteSet(Ids)
    BY FS_Interval, BoundsAssumption DEF Ids
  <1>2. Load(h) \in SUBSET Ids
    BY DEF Load, TypeOK, TableOK
  <1> QED BY <1>1, <1>2, FS_Subset, FS_CardinalityType

\* The snapshot shows each of them once.
LEMMA LoadCounted ==
  ASSUME TypeOK, NEW h \in Hosts
  PROVE  Cardinality(Load(h)) = JobsRunning(h)
  <1> DEFINE E == {e \in GetJobsInQueue : e.status \in Counted /\ e.host = h}
             f == [j \in Load(h) |-> Entry(j)]
  <1>1. \A j \in Load(h) : Entry(j) \in E
    BY DEF Load, GetJobsInQueue, Entry, Counted, Done
  <1>2. \A e \in E : \E j \in Load(h) : Entry(j) = e
    BY DEF Load, GetJobsInQueue, Entry
  <1>3. \A j, k \in Load(h) : Entry(j) = Entry(k) => j = k
    BY DEF Entry
  <1> HIDE DEF E
  <1>4. f \in [Load(h) -> E] /\ \A j \in Load(h) : f[j] = Entry(j)
    BY <1>1
  <1> HIDE DEF f
  <1>5. f \in Injection(Load(h), E)
    BY <1>3, <1>4 DEF Injection, IsInjective
  <1>6. f \in Surjection(Load(h), E)
    BY <1>2, <1>4 DEF Surjection
  <1>7. ExistsBijection(Load(h), E)
    BY <1>5, <1>6 DEF ExistsBijection, Bijection
  <1>8. Cardinality(E) = Cardinality(Load(h))
    BY <1>7, FS_Bijection, LoadFinite
  <1> QED BY <1>8 DEF JobsRunning, E

\* What a host works on is what the queue counts, if it has no transcode to finish.
LEMMA WorkingLoad ==
  ASSUME TypeOK, Owned, Life, "transcode" \notin Types, NEW h \in Hosts
  PROVE  Working(h) \subseteq Load(h)
  <1> SUFFICES ASSUME NEW j \in rows, NEW n \in Copies,
                      cpc[<<h, j, n>>] \in {"prog", "work", "complete"}
               PROVE  j \in Load(h)
    BY DEF Working
  <1>1. PICK t \in Threads : t = <<h, j, n>>
    BY DEF Threads, TypeOK, TableOK
  <1>2. Threaded(t) /\ t[1] = h /\ t[2] = j /\ cpc[t] \in {"prog", "work", "complete"}
    BY <1>1 DEF Life, Busy
  <1>3. jtype[j] # "transcode"
    BY DEF TypeOK, TableOK
  <1>4. status[j] \in Counted
    BY <1>2, <1>3 DEF Threaded, BusyAt
  <1>5. hostname[j] = h
    BY <1>2 DEF Owned, Ownership, ThreadsOwned
  <1> QED BY <1>4, <1>5 DEF Load

\* Nothing but the start of a thread adds to the rows that a host counts.
LEMMA LoadHost ==
  ASSUME TypeOK, Owned, Life, NEW h \in Hosts, HostStep(h) \/ Crash(h), NEW g \in Hosts
  PROVE  \/ Load(g)' \subseteq Load(g)
         \/ g = h /\ StartChildJob(h) /\ Load(h)' \subseteq Load(h) \cup {job[h].id}
  <1> USE DEF tableVars, Load
  <1>1. /\ rows \subseteq Ids /\ status \in [Ids -> Statuses]
        /\ hostname \in [Ids -> Hosts \cup {NoHost}]
    BY DEF TypeOK, TableOK
  <1>2. ASSUME NEW s, s \notin Counted, ChangeJobStatus(job[h].id, s),
               UNCHANGED <<rows, hostname>>
        PROVE  Load(g)' \subseteq Load(g)
    BY <1>1, <1>2 DEF ChangeJobStatus
  <1>3. CASE Cancel(h)
    BY <1>2, <1>3 DEF Cancel, Counted
  <1>4. CASE Pending(h)
    BY <1>2, <1>4 DEF Pending, Counted
  <1>5. CASE NoProgramInfo(h) \/ DeletedProgram(h)
    BY <1>2, <1>5 DEF NoProgramInfo, DeletedProgram, Processed, Counted
  <1>6. CASE StartChildJob(h)
    <2>1. /\ ChangeJobStatus(job[h].id, "STARTING") /\ UNCHANGED <<rows, hostname>>
          /\ hpc[h] = "launch"
      BY <1>6 DEF StartChildJob, Processed
    <2>2. hostname[job[h].id] = h
      BY <2>1 DEF Owned, Ownership, ClaimsOwned
    <2>3. Load(g)' \subseteq Load(g) \cup {job[h].id}
      BY <1>1, <2>1 DEF ChangeJobStatus
    <2>4. g # h => Load(g)' \subseteq Load(g)
      BY <2>1, <2>2, <2>3
    <2> QED BY <1>6, <2>3, <2>4
  <1>7. CASE Reset(h)
    BY <1>7 DEF Reset, Resets, Life, Snaps
  <1>8. ASSUME NEW j, ChangeJobHost(j), hostname' = [hostname EXCEPT ![j] = h],
               UNCHANGED <<rows, status>>
        PROVE  Load(g)' \subseteq Load(g)
    <2>1. status[j] \notin Counted
      BY <1>8 DEF ChangeJobHost, Life, RowsWait, Waiting, Killed, Done, Counted
    <2> QED BY <1>1, <1>8, <2>1
  <1>9. CASE ClaimToCancel(h)
    <2>1. PICK e \in todo[h], seem \in SUBSET freed[h] : ClaimToCancel(h)!(e, seem)
      BY <1>9 DEF ClaimToCancel
    <2>2. UNCHANGED <<rows, status>>
      BY <2>1
    <2>3. CASE ChangeJobHost(e.id)
      BY <1>8, <2>1, <2>2, <2>3
    <2>4. CASE ~ChangeJobHost(e.id)
      BY <2>1, <2>2, <2>4
    <2> QED BY <2>3, <2>4
  <1>10. CASE Claim(h)
    <2>1. PICK e \in todo[h], seem \in SUBSET freed[h] : Claim(h)!(e, seem)
      BY <1>10 DEF Claim
    <2>2. UNCHANGED <<rows, status>>
      BY <2>1
    <2>3. CASE NeedsClaim(e) /\ ChangeJobHost(e.id)
      BY <1>8, <2>1, <2>2, <2>3
    <2>4. CASE ~(NeedsClaim(e) /\ ChangeJobHost(e.id))
      BY <2>1, <2>2, <2>4
    <2> QED BY <2>3, <2>4
  <1>11. CASE \/ Start(h) \/ StartPass(h) \/ EndPass(h) \/ Skip(h) \/ StopRunning(h)
              \/ ChangeRunning(h) \/ ClearCmds(h) \/ NoDb(h) \/ Crash(h)
    <2>1. UNCHANGED <<rows, status, hostname>>
      BY <1>11 DEF Start, StartPass, EndPass, Skip, StopRunning, ChangeRunning,
                   ClearCmds, NoDb, Crash
    <2> QED BY <2>1
  <1> QED BY <1>3, <1>4, <1>5, <1>6, <1>7, <1>9, <1>10, <1>11 DEF HostStep

\* A thread, unless it restarts a transcode, leaves the count as it is or lowers it.
LEMMA LoadThread ==
  ASSUME TypeOK, Owned, Life, "transcode" \notin Types, NEW t \in Threads,
         ThreadStep(t), NEW g \in Hosts
  PROVE  Load(g)' \subseteq Load(g)
  <1>0. jtype[t[2]] # "transcode" /\ rows \subseteq Ids
    BY ThreadParts DEF TypeOK, TableOK
  <1> USE DEF ThreadPcs, Statuses, Done, Counted
  <1>1. ASSUME NEW from \in ThreadPcs, NEW pc \in ThreadPcs, NEW s \in Statuses,
               QuietStep(t, from, pc) \/ ChildStep(t, from, s, pc),
               s \notin Counted \/ from \in {"init", "start", "prog", "work"}
        PROVE  Load(g)' \subseteq Load(g)
    <2>1. /\ cpc[t] = from /\ \A j \in Ids : j # t[2] => status'[j] = status[j]
          /\ QuietStep(t, from, pc) => status' = status
          /\ ChildStep(t, from, s, pc) /\ t[2] \in rows => status'[t[2]] = s
          /\ UNCHANGED <<rows, hostname>>
      BY <1>1, ChildFrame
    <2>2. from \in {"init", "start", "prog", "work"} /\ t[2] \in rows
            => status[t[2]] \in Counted
      BY <1>0, <2>1 DEF Life, Busy, Threaded, BusyAt
    <2>3. \A k \in rows : status'[k] \in Counted => status[k] \in Counted
      BY <1>0, <1>1, <2>1, <2>2
    <2> QED BY <2>1, <2>3 DEF Load
  <1>2. CASE ThreadRunning(t) \/ TranscodeStarting(t) \/ FlagStarting(t)
    BY <1>1, <1>2 DEF ThreadRunning, TranscodeStarting, FlagStarting
  <1>3. CASE NoPginfo(t) \/ FlagNoDb(t)
    BY <1>1, <1>3 DEF NoPginfo, FlagNoDb
  <1>4. CASE ProgramFails(t) \/ UserProgram(t) \/ ProgramRunning(t)
    BY <1>1, <1>4 DEF ProgramFails, UserProgram, ProgramRunning
  <1>5. CASE ProgramBreathe(t) \/ FlagProgramEnds(t)
    BY <1>1, <1>5 DEF ProgramBreathe, FlagProgramEnds
  <1>6. CASE TranscodeResult(t) \/ TranscodeRetry(t) \/ TranscodeExit(t)
    BY <1>0, <1>6 DEF TranscodeResult, TranscodeRetry, TranscodeExit
  <1>7. CASE CompleteJob(t)
    BY <1>1, <1>7 DEF CompleteJob
  <1>8. CASE TranscodeLimit(t)
    BY <1>1, <1>8 DEF TranscodeLimit
  <1>9. CASE FlagExit(t) \/ UserExit(t)
    BY <1>1, <1>9 DEF FlagExit, UserExit
  <1>10. CASE RemoveRunningJob(t)
    <2>1. QuietStep(t, "remove", "none") /\ "FINISHED" \notin Counted
      BY <1>10 DEF RemoveRunningJob
    <2> QED BY <1>1, <2>1
  <1> QED BY <1>2, <1>3, <1>4, <1>5, <1>6, <1>7, <1>8, <1>9, <1>10 DEF ThreadStep

\* RecoverQueue, users and housekeeping do not raise the count.
LEMMA LoadOthers ==
  ASSUME TypeOK, Owned, Life, OnlyTheQueueRequeues,
         \/ \E a \in Recoverers : Recovery(a)
         \/ \E c \in Clients :
              \/ QueueJobSelect(c) \/ Offer(c) \/ Requeue(c)
              \/ DeleteAllJobs(c) \/ WaitAll(c, FALSE) \/ ClientStep(c)
         \/ RecoverOld \/ UserCommand \/ CleanupOldJobsInQueue \/ Tick,
         NEW g \in Hosts
  PROVE  Load(g)' \subseteq Load(g)
  <1> USE DEF tableVars, Load
  <1>1. /\ rows \subseteq Ids /\ status \in [Ids -> Statuses] /\ g # NoHost
        /\ hostname \in [Ids -> Hosts \cup {NoHost}]
    BY HostsAssumption DEF TypeOK, TableOK
  <1>2. ASSUME NEW a \in Recoverers, Recovery(a) PROVE Load(g)' \subseteq Load(g)
    <2>1. CASE RecoverStatus(a)
      <3>1. PICK j \in Ids : ChangeJobStatus(j, "QUEUED") /\ UNCHANGED <<rows, hostname>>
        BY <2>1 DEF RecoverStatus
      <3> QED BY <1>1, <3>1 DEF ChangeJobStatus, Counted
    <2>2. CASE RecoverHost(a)
      <3>1. PICK j \in Ids :
              /\ hostname' = IF j \in rows THEN [hostname EXCEPT ![j] = NoHost]
                                           ELSE hostname
              /\ UNCHANGED <<rows, status>>
        BY <2>2 DEF RecoverHost
      <3> QED BY <1>1, <3>1
    <2>3. CASE RecoverSelect(a) \/ RecoverCmds(a) \/ RecoverDone(a)
      <3>1. UNCHANGED <<rows, status, hostname>>
        BY <2>3 DEF RecoverSelect, RecoverCmds, RecoverDone
      <3> QED BY <3>1
    <2> QED BY <1>2, <2>1, <2>2, <2>3 DEF Recovery
  <1>3. ASSUME NEW c \in Clients, QueueJobInsert(c) PROVE Load(g)' \subseteq Load(g)
    <2>1. CASE UNCHANGED tableVars
      BY <2>1
    <2>2. CASE Inserted(c)
      <3>1. nextId \in Ids /\ rows' = rows \cup {nextId}
        BY <2>2 DEF Inserted, TypeOK, TableOK, Ids
      <3>2. /\ status'[nextId] = "QUEUED"
            /\ \A k \in Ids : k # nextId => /\ status'[k] = status[k]
                                            /\ hostname'[k] = hostname[k]
        BY <1>1, <2>2, <3>1 DEF Inserted
      <3> QED BY <1>1, <3>1, <3>2 DEF Counted
    <2> QED BY <1>3, <2>1, <2>2 DEF QueueJobInsert
  <1>4. ASSUME NEW c \in Clients,
               QueueJobSelect(c) \/ Offer(c) \/ DeleteJob(c) \/ StopAll(c) \/ DeleteAll(c)
        PROVE  Load(g)' \subseteq Load(g)
    <2>1. rows' \subseteq rows /\ UNCHANGED <<status, hostname>>
      BY <1>4 DEF QueueJobSelect, Offer, DeleteJob, StopAll, DeleteAll
    <2> QED BY <2>1
  <1>5. ASSUME NEW c \in Clients, WaitAll(c, TRUE) \/ WaitAll(c, FALSE)
        PROVE  Load(g)' \subseteq Load(g)
    <2>1. UNCHANGED <<tableVars, day, hostVars, childVars, recVars>>
      BY <1>5, Zenon DEF WaitAll
    <2> QED BY <2>1
  <1>6. ASSUME NEW c \in Clients, Requeue(c) PROVE FALSE
    BY <1>6 DEF Requeue, Life, RowsWait
  <1>7. ASSUME NEW c \in Clients, DeleteAllJobs(c) PROVE Load(g)' \subseteq Load(g)
    <2>1. \A j \in Ids : status'[j] \in {status[j], "CANCELLED"}
      BY <1>1, <1>7 DEF DeleteAllJobs
    <2>2. UNCHANGED <<rows, hostname>>
      BY <1>7 DEF DeleteAllJobs
    <2> QED BY <1>1, <2>1, <2>2 DEF Counted
  <1>8. CASE RecoverOld \/ UserCommand \/ CleanupOldJobsInQueue \/ Tick
    <2>1. rows' \subseteq rows /\ UNCHANGED <<status, hostname>>
      BY <1>8 DEF RecoverOld, UserCommand, CleanupOldJobsInQueue, Tick
    <2> QED BY <2>1
  <1> QED BY <1>2, <1>3, <1>4, <1>5, <1>6, <1>7, <1>8 DEF ClientStep

\* A pass does not get the right to start a job but from its snapshot, and loses it
\* with the first one it starts.
LEMMA PassGoesOn ==
  ASSUME TypeOK, Owned, Limits, NEW h \in Hosts, HostStep(h) \/ Crash(h), ~StartPass(h)
  PROVE  /\ MayStart(h)' => MayStart(h) /\ ~StartChildJob(h)
         /\ hpc'[h] \in {"process", "launch"} => ~startedJobAlready'[h]
         /\ StartChildJob(h) => MayStart(h)
  <1> USE DEF MayStart, hostVars, TypeOK, HostOK
  <1>1. CASE Start(h) \/ Crash(h)
    <2>1. todo'[h] = {} /\ hpc'[h] \in {"down", "recover"}
      BY <1>1 DEF Start, Crash, Owned, Ownership, RecoveryOwned
    <2>2. ~StartChildJob(h)
      BY <2>1 DEF StartChildJob, Processed
    <2> QED BY <2>1, <2>2
  <1>2. CASE EndPass(h)
    <2>1. todo'[h] = {} /\ hpc[h] = "scan" /\ hpc'[h] = "idle"
      BY <1>2 DEF EndPass
    <2> QED BY <2>1 DEF StartChildJob, Processed
  <1>3. ASSUME NEW e \in todo[h], Takes(h, e), startedJobAlready' = startedJobAlready,
               \/ hpc'[h] \notin {"process", "launch"}
               \/ hpc'[h] = "process" /\ ~startedJobAlready[h]
        PROVE  /\ MayStart(h)' => MayStart(h) /\ ~StartChildJob(h)
               /\ hpc'[h] \in {"process", "launch"} => ~startedJobAlready'[h]
               /\ StartChildJob(h) => MayStart(h)
    <2>1. hpc[h] = "scan" /\ todo[h] # {}
      BY <1>3 DEF Takes
    <2> QED BY <1>3, <2>1 DEF StartChildJob, Processed
  <1>4. CASE Skip(h) \/ StopRunning(h) \/ ChangeRunning(h)
    <2>1. PICK e \in todo[h] : Takes(h, e)
      BY <1>4, Zenon DEF Skip, StopRunning, ChangeRunning
    <2>2. UNCHANGED <<hpc, startedJobAlready>>
      BY <1>4 DEF Skip, StopRunning, ChangeRunning
    <2>3. hpc'[h] = "scan"
      BY <2>1, <2>2 DEF Takes
    <2> QED BY <1>3, <2>1, <2>2, <2>3
  <1>5. CASE ClaimToCancel(h)
    <2>1. PICK e \in todo[h] :
            /\ Takes(h, e) /\ startedJobAlready' = startedJobAlready
            /\ hpc' = [hpc EXCEPT ![h] = "cancel"] \/ hpc' = hpc
      BY <1>5 DEF ClaimToCancel
    <2>2. hpc'[h] \in {"cancel", "scan"}
      BY <2>1 DEF Takes
    <2> QED BY <1>3, <2>1, <2>2
  <1>6. CASE Claim(h)
    <2>1. PICK e \in todo[h] :
            /\ Takes(h, e) /\ startedJobAlready' = startedJobAlready /\ Starts(h, e)
            /\ hpc' = [hpc EXCEPT ![h] = "process"] \/ hpc' = hpc
      BY <1>6 DEF Claim
    <2>2. hpc'[h] \in {"process", "scan"} /\ ~startedJobAlready[h]
      BY <2>1 DEF Takes, Starts
    <2> QED BY <1>3, <2>1, <2>2
  <1>7. CASE Reset(h)
    <2>1. PICK e \in todo[h] :
            /\ Takes(h, e) /\ startedJobAlready' = startedJobAlready
            /\ hpc' = [hpc EXCEPT ![h] = "clearCmds"]
      BY <1>7 DEF Reset
    <2>2. hpc'[h] = "clearCmds"
      BY <2>1
    <2> QED BY <1>3, <2>1, <2>2
  <1>8. CASE Cancel(h) \/ ClearCmds(h)
    <2>1. /\ UNCHANGED <<todo, startedJobAlready>> /\ hpc[h] \in {"cancel", "clearCmds"}
          /\ hpc'[h] \in {"clearCmds", "scan"}
      BY <1>8 DEF Cancel, ClearCmds
    <2> QED BY <2>1 DEF StartChildJob, Processed
  <1>9. CASE Pending(h)
    <2>1. /\ UNCHANGED <<todo, startedJobAlready>> /\ hpc[h] = "process"
          /\ hpc'[h] = "launch"
      BY <1>9 DEF Pending
    <2> QED BY <2>1 DEF StartChildJob, Processed, Limits
  <1>10. CASE NoDb(h) \/ NoProgramInfo(h) \/ DeletedProgram(h) \/ StartChildJob(h)
    <2>1. startedJobAlready'[h] = TRUE /\ hpc'[h] = "scan"
      BY <1>10 DEF NoDb, NoProgramInfo, DeletedProgram, StartChildJob, Processed
    <2>2. StartChildJob(h) => MayStart(h)
      BY DEF StartChildJob, Processed, Limits
    <2> QED BY <2>1, <2>2
  <1> QED BY <1>1, <1>2, <1>4, <1>5, <1>6, <1>7, <1>8, <1>9, <1>10 DEF HostStep

\* Whatever is not a step of the JobQueue thread of h leaves its pass alone.
LEMMA PassOfOthers ==
  ASSUME TypeOK, Owned, Next, NEW h \in Hosts, ~HostStep(h), ~Crash(h)
  PROVE  \/ UNCHANGED <<hpc[h], todo[h], startedJobAlready[h]>>
         \/ hpc'[h] = "idle" /\ todo'[h] = {}
  <1> USE DEF hostVars
  <1>1. ASSUME NEW g \in Hosts, g # h, HostStep(g) \/ Crash(g)
        PROVE  UNCHANGED <<hpc[h], todo[h], startedJobAlready[h]>>
    <2> USE DEF TypeOK, HostOK
    <2>1. CASE Start(g) \/ Crash(g) \/ StartPass(g) \/ EndPass(g)
      BY <1>1, <2>1 DEF Start, Crash, StartPass, EndPass, PassVarsReset
    <2>2. CASE Skip(g) \/ StopRunning(g) \/ ChangeRunning(g) \/ Reset(g)
      BY <1>1, <2>2 DEF Skip, StopRunning, ChangeRunning, Reset, Takes
    <2>3. CASE ClaimToCancel(g) \/ Claim(g)
      <3>1. PICK e \in todo[g] :
              /\ Takes(g, e) /\ startedJobAlready' = startedJobAlready
              /\ \E p : hpc' = [hpc EXCEPT ![g] = p]
        <4>1. hpc = [hpc EXCEPT ![g] = hpc[g]]
          OBVIOUS
        <4> QED BY <2>3, <4>1 DEF ClaimToCancel, Claim
      <3> QED BY <1>1, <3>1 DEF Takes
    <2>4. CASE Cancel(g) \/ ClearCmds(g) \/ NoDb(g) \/ Pending(g)
      BY <1>1, <2>4 DEF Cancel, ClearCmds, NoDb, Pending
    <2>5. CASE NoProgramInfo(g) \/ DeletedProgram(g) \/ StartChildJob(g)
      BY <1>1, <2>5 DEF NoProgramInfo, DeletedProgram, StartChildJob, Processed
    <2> QED BY <1>1, <2>1, <2>2, <2>3, <2>4, <2>5 DEF HostStep
  <1>2. ASSUME NEW a \in Recoverers, Recovery(a)
        PROVE  \/ UNCHANGED <<hpc[h], todo[h], startedJobAlready[h]>>
               \/ hpc'[h] = "idle" /\ todo'[h] = {}
    <2>1. CASE RecoverDone(a)
      <3>1. a = h => todo[h] = {} /\ a \in Hosts
        BY <2>1 DEF RecoverDone, Owned, Ownership, RecoveryOwned
      <3> QED BY <2>1, <3>1 DEF RecoverDone, TypeOK, HostOK
    <2>2. CASE RecoverSelect(a) \/ RecoverStatus(a) \/ RecoverCmds(a) \/ RecoverHost(a)
      BY <2>2 DEF RecoverSelect, RecoverStatus, RecoverCmds, RecoverHost
    <2> QED BY <1>2, <2>1, <2>2 DEF Recovery
  <1>3. ASSUME NEW t \in Threads, ThreadStep(t)
        PROVE  UNCHANGED <<hpc[h], todo[h], startedJobAlready[h]>>
    <2>1. ASSUME NEW from, NEW pc, NEW s, QuietStep(t, from, pc) \/ ChildStep(t, from, s, pc)
          PROVE  UNCHANGED <<hpc, todo, startedJobAlready>>
      BY <2>1 DEF QuietStep, ChildStep
    <2>2. UNCHANGED <<hpc, todo, startedJobAlready>>
      BY <1>3, <2>1
         DEF ThreadStep, ThreadRunning, NoPginfo, TranscodeStarting, FlagStarting,
             FlagNoDb, ProgramFails, UserProgram, ProgramRunning, ProgramBreathe,
             FlagProgramEnds, TranscodeResult, CompleteJob, TranscodeRetry,
             TranscodeExit, TranscodeLimit, FlagExit, UserExit, RemoveRunningJob
    <2> QED BY <2>2
  <1>4. ASSUME NEW c \in Clients,
               \/ QueueJobSelect(c) \/ Offer(c) \/ Requeue(c) \/ DeleteAllJobs(c)
               \/ DeleteJob(c) \/ QueueJobInsert(c) \/ StopAll(c) \/ DeleteAll(c)
        PROVE  UNCHANGED <<hpc[h], todo[h], startedJobAlready[h]>>
    BY <1>4 DEF QueueJobSelect, Offer, Requeue, DeleteAllJobs, DeleteJob,
                QueueJobInsert, StopAll, DeleteAll
  <1>5. ASSUME NEW c \in Clients, WaitAll(c, TRUE) \/ WaitAll(c, FALSE)
        PROVE  UNCHANGED <<hpc[h], todo[h], startedJobAlready[h]>>
    <2>1. UNCHANGED <<tableVars, day, hostVars, childVars, recVars>>
      BY <1>5, Zenon DEF WaitAll
    <2> QED BY <2>1
  <1>6. CASE RecoverOld \/ UserCommand \/ CleanupOldJobsInQueue \/ Tick
    BY <1>6 DEF RecoverOld, UserCommand, CleanupOldJobsInQueue, Tick
  <1> HIDE DEF hostVars
  <1> QED BY <1>1, <1>2, <1>3, <1>4, <1>5, <1>6 DEF Next, ClientStep

\* Every step keeps the limits.
LEMMA LimitsStep ==
  ASSUME OnlyTheQueueRequeues, "transcode" \notin Types
  PROVE  TypeOK /\ Owned /\ Life /\ Limits /\ [Next]_vars => Limits'
  <1> SUFFICES ASSUME TypeOK, Owned, Life, Limits, [Next]_vars, NEW h \in Hosts
               PROVE  /\ Cardinality(Load(h))' <= MaxJobs
                      /\ MayStart(h)' => Cardinality(Load(h))' < MaxJobs
                      /\ hpc'[h] \in {"process", "launch"} => ~startedJobAlready'[h]
    BY DEF Limits
  <1>1. MaxJobs \in Nat /\ TypeOK'
    BY BoundsAssumption, TypeStep
  <1>2. /\ IsFiniteSet(Load(h)) /\ Cardinality(Load(h)) \in Nat
        /\ IsFiniteSet(Load(h)') /\ Cardinality(Load(h)') \in Nat
    <2>1. IsFiniteSet(Ids)
      BY FS_Interval, BoundsAssumption DEF Ids
    <2>2. Load(h)' \in SUBSET Ids
      BY <1>1 DEF Load, TypeOK, TableOK
    <2> QED BY <2>1, <2>2, FS_Subset, FS_CardinalityType, LoadFinite
  <1>3. /\ Cardinality(Load(h)) <= MaxJobs
        /\ MayStart(h) => Cardinality(Load(h)) < MaxJobs
        /\ hpc[h] \in {"process", "launch"} => ~startedJobAlready[h]
    BY DEF Limits
  <1>4. Load(h)' \subseteq Load(h) => Cardinality(Load(h)') <= Cardinality(Load(h))
    BY <1>2, FS_Subset
  <1>5. CASE UNCHANGED vars
    BY <1>3, <1>5 DEF vars, tableVars, hostVars, Load, MayStart
  <1>6. CASE Next
    <2>1. CASE StartPass(h)
      <3>1. /\ Load(h)' = Load(h) /\ startedJobAlready' = startedJobAlready
            /\ hpc'[h] = "scan"
        BY <2>1 DEF StartPass, tableVars, Load, TypeOK, HostOK
      <3>2. todo'[h] # {} => JobsRunning(h) < MaxJobs
        BY <2>1 DEF StartPass, TypeOK, HostOK
      <3>3. MayStart(h)' => Cardinality(Load(h)) < MaxJobs
        BY <3>1, <3>2, LoadCounted DEF MayStart
      <3> QED BY <1>3, <3>1, <3>3
    <2>2. CASE (HostStep(h) \/ Crash(h)) /\ ~StartPass(h)
      <3>1. /\ MayStart(h)' => MayStart(h) /\ ~StartChildJob(h)
            /\ hpc'[h] \in {"process", "launch"} => ~startedJobAlready'[h]
            /\ StartChildJob(h) => MayStart(h)
        BY <2>2, PassGoesOn
      <3>2. CASE Load(h)' \subseteq Load(h)
        BY <1>1, <1>2, <1>3, <1>4, <3>1, <3>2
      <3>3. CASE StartChildJob(h) /\ Load(h)' \subseteq Load(h) \cup {job[h].id}
        <4>1. /\ IsFiniteSet(Load(h) \cup {job[h].id})
              /\ Cardinality(Load(h) \cup {job[h].id}) <= Cardinality(Load(h)) + 1
          <5>1. PICK x : x = job[h].id
            OBVIOUS
          <5>2. /\ IsFiniteSet(Load(h) \cup {x})
                /\ Cardinality(Load(h) \cup {x}) =
                     IF x \in Load(h) THEN Cardinality(Load(h)) ELSE Cardinality(Load(h)) + 1
            BY <1>2, FS_AddElement
          <5> QED BY <1>2, <5>1, <5>2
        <4>2. Cardinality(Load(h)') <= Cardinality(Load(h) \cup {job[h].id})
          BY <3>3, <4>1, FS_Subset
        <4>3. Cardinality(Load(h) \cup {job[h].id}) \in Nat
          BY <4>1, FS_CardinalityType
        <4> QED BY <1>1, <1>2, <1>3, <3>1, <3>3, <4>1, <4>2, <4>3
      <3> QED BY <2>2, <3>2, <3>3, LoadHost
    <2>3. CASE ~HostStep(h) /\ ~Crash(h)
      <3>1. Load(h)' \subseteq Load(h)
        BY <1>6, <2>3, LoadHost, LoadThread, LoadOthers DEF Next, HostStep
      <3>2. \/ UNCHANGED <<hpc[h], todo[h], startedJobAlready[h]>>
            \/ hpc'[h] = "idle" /\ todo'[h] = {}
        BY <1>6, <2>3, PassOfOthers
      <3>3. /\ MayStart(h)' => MayStart(h)
            /\ hpc'[h] \in {"process", "launch"} => ~startedJobAlready'[h]
        BY <1>3, <3>2 DEF MayStart
      <3> QED BY <1>1, <1>2, <1>3, <1>4, <3>1, <3>3
    <2> QED BY <1>6, <2>1, <2>2, <2>3 DEF HostStep
  <1> QED BY <1>5, <1>6

\* As long as only the queue itself puts jobs back, and without transcodes, which
\* stop counting before they have ended, no host ever works on more jobs than
\* JobQueueMaxSimultaneousJobs: one start per pass and the count at its beginning
\* are enough, although the snapshot is stale when the job starts (ProcessQueue).
THEOREM JobLimitKept ==
  ASSUME OnlyTheQueueRequeues, "transcode" \notin Types
  PROVE  Spec => []WithinMaxJobs
  <1>1. Init => Limits
    <2> SUFFICES ASSUME Init PROVE Limits
      OBVIOUS
    <2>1. \A h \in Hosts : Load(h) = {} /\ todo[h] = {} /\ hpc[h] = "down"
      BY DEF Init, Load
    <2>2. Cardinality({}) = 0 /\ MaxJobs \in Nat
      BY FS_EmptySet, BoundsAssumption
    <2>3. \A h \in Hosts : Cardinality(Load(h)) = 0
      BY <2>1, <2>2
    <2> QED BY <2>1, <2>2, <2>3 DEF Limits, MayStart
  <1>2. TypeOK /\ Owned /\ Life /\ Limits => WithinMaxJobs
    <2> SUFFICES ASSUME TypeOK, Owned, Life, Limits, NEW h \in Hosts
                 PROVE  Cardinality(Working(h)) <= MaxJobs
      BY DEF WithinMaxJobs
    <2>1. /\ Working(h) \subseteq Load(h) /\ Cardinality(Load(h)) \in Nat
          /\ IsFiniteSet(Load(h)) /\ Cardinality(Load(h)) <= MaxJobs
      BY WorkingLoad, LoadFinite DEF Limits
    <2>2. Cardinality(Working(h)) <= Cardinality(Load(h)) /\ IsFiniteSet(Working(h))
      BY <2>1, FS_Subset
    <2>3. Cardinality(Working(h)) \in Nat
      BY <2>2, FS_CardinalityType
    <2> QED BY <2>1, <2>2, <2>3, BoundsAssumption
  <1>3. TypeOK /\ Owned /\ Life /\ Limits /\ [Next]_vars => Limits'
    BY LimitsStep
  <1> QED BY <1>1, <1>2, <1>3, LifeHolds, PTL DEF Spec

=============================================================================
