---------------------------- MODULE JobQueue_proofs ----------------------------
(***************************************************************************)
(* Who may run a job: theorems about JobQueue for every set of hosts,      *)
(* clients, recordings and jobs, and every number of crashes and commands. *)
(***************************************************************************)
EXTENDS JobQueue, TLAPS

\* The host and the job of a thread.
LEMMA ThreadParts == \A t \in Threads : t[1] \in Hosts /\ t[2] \in Ids
  BY DEF Threads

\* An entry of a snapshot is an entry of the type.
LEMMA EntryType ==
  ASSUME TableOK PROVE \A j \in rows : Entry(j) \in Entries
  BY DEF TableOK, Entry, Entries

-----------------------------------------------------------------------------
(* Types *)

\* A step of a JobQueue thread, or its crash, keeps the types.
LEMMA HostType ==
  ASSUME TypeOK, NEW h \in Hosts, HostStep(h) \/ Crash(h)
  PROVE  TypeOK'
  <1> USE DEF TypeOK, TableOK, HostOK, ChildOK, RecoverOK, ClientOK, tableVars,
              hostVars, childVars, recVars, clientVars
  <1> USE HostsAssumption, BoundsAssumption
  <1>1. CASE Start(h)
    BY <1>1 DEF Start, Recoverers
  <1>2. CASE StartPass(h)
    BY <1>2, EntryType DEF StartPass, GetJobsInQueue
  <1>3. CASE EndPass(h)
    BY <1>3 DEF EndPass, PassVarsReset
  <1>4. CASE Skip(h)
    BY <1>4 DEF Skip, Takes, Noted, Entries
  <1>5. CASE StopRunning(h)
    BY <1>5 DEF StopRunning, Takes, Noted, Entries
  <1>6. CASE ChangeRunning(h)
    BY <1>6 DEF ChangeRunning, Takes, Noted, ChangeJobCmds, Entries,
       Commands
  <1>7. CASE ClaimToCancel(h)
    <2>1. PICK e \in todo[h], seem \in SUBSET freed[h] :
            ClaimToCancel(h)!(e, seem)
      BY <1>7 DEF ClaimToCancel
    <2>2. e \in Entries
      BY <2>1
    <2>3. e.id \in Ids
      BY <2>2 DEF Entries
    <2>4. jobStatus' \in [Hosts -> SUBSET Ids] /\ todo' \in [Hosts -> SUBSET Entries]
      BY <2>1, <2>3 DEF Takes, Noted
    <2>5. CASE ChangeJobHost(e.id)
      <3>1. hostname' = [hostname EXCEPT ![e.id] = h]
        BY <2>1, <2>5
      <3>2. hpc' = [hpc EXCEPT ![h] = "cancel"] /\ job' = [job EXCEPT ![h] = e]
        BY <2>1, <2>5
      <3>3. hostname' \in [Ids -> Hosts \cup {NoHost}]
        BY <2>3, <3>1
      <3> QED BY <2>1, <2>2, <2>4, <3>2, <3>3
    <2>6. CASE ~ChangeJobHost(e.id)
      BY <2>1, <2>4, <2>6
    <2> QED BY <2>5, <2>6
  <1>8. CASE Cancel(h)
    BY <1>8 DEF Cancel, ChangeJobStatus, Statuses, Done
  <1>9. CASE ClearCmds(h)
    BY <1>9 DEF ClearCmds, ChangeJobCmds, Commands
  <1>10. CASE Reset(h)
    BY <1>10 DEF Reset, Takes, Noted, ChangeJobStatus, Entries, Statuses
  <1>11. CASE Claim(h)
    <2>1. PICK e \in todo[h], seem \in SUBSET freed[h] : Claim(h)!(e, seem)
      BY <1>11 DEF Claim
    <2>2. e \in Entries
      BY <2>1
    <2>3. e.id \in Ids
      BY <2>2 DEF Entries
    <2>4. jobStatus' \in [Hosts -> SUBSET Ids] /\ todo' \in [Hosts -> SUBSET Entries]
      BY <2>1, <2>3 DEF Takes, Noted
    <2>5. CASE NeedsClaim(e) => ChangeJobHost(e.id)
      <3>1. hostname' = hostname \/ hostname' = [hostname EXCEPT ![e.id] = h]
        BY <2>1, <2>5
      <3>2. hpc' = [hpc EXCEPT ![h] = "process"] /\ job' = [job EXCEPT ![h] = e]
        BY <2>1, <2>5
      <3>3. hostname' \in [Ids -> Hosts \cup {NoHost}]
        <4>1. CASE hostname' = hostname
          BY <4>1
        <4>2. CASE hostname' = [hostname EXCEPT ![e.id] = h]
          BY <2>3, <4>2
        <4> QED BY <3>1, <4>1, <4>2
      <3> QED BY <2>1, <2>2, <2>4, <3>2, <3>3
    <2>6. CASE ~(NeedsClaim(e) => ChangeJobHost(e.id))
      BY <2>1, <2>4, <2>6
    <2> QED BY <2>5, <2>6
  <1>12. CASE NoDb(h)
    BY <1>12 DEF NoDb
  <1>13. CASE Pending(h)
    BY <1>13 DEF Pending, ChangeJobStatus, Statuses
  <1>14. CASE NoProgramInfo(h)
    BY <1>14 DEF NoProgramInfo, Processed, ChangeJobStatus, Statuses, Done
  <1>15. CASE DeletedProgram(h)
    BY <1>15 DEF DeletedProgram, Processed, ChangeJobStatus, Statuses, Done,
       Entries
  <1>16. CASE StartChildJob(h)
    <2>1. job[h] \in Entries /\ job[h].id \in Ids
      BY <1>16 DEF StartChildJob, Processed, Entries
    <2>2. TableOK' /\ HostOK' /\ RecoverOK' /\ ClientOK'
      BY <1>16, <2>1 DEF StartChildJob, Processed, ChangeJobStatus, Statuses
    <2>3. PICK n \in Copies :
            cpc' = [cpc EXCEPT ![<<h, job[h].id, n>>] = "init"]
      BY <1>16 DEF StartChildJob
    <2>4. cpc' \in [Threads -> ThreadPcs]
      BY <2>3 DEF ThreadPcs
    <2>5. ChildOK'
      BY <1>16, <2>1, <2>4 DEF StartChildJob, Processed
    <2> QED BY <2>2, <2>5
  <1>17. CASE Crash(h)
    <2>1. cpc' \in [Threads -> ThreadPcs]
      BY <1>17 DEF Crash, ThreadPcs
    <2>2. result' \in [Threads -> {"OK", "RESTART", "ERROR", "NOTFOUND", "STOPPED"}]
      BY <1>17 DEF Crash
    <2>3. retrylimit' \in [Threads -> 0 .. RetryLimit]
      BY <1>17 DEF Crash
    <2>4. ChildOK'
      BY <1>17, <2>1, <2>2, <2>3 DEF Crash
    <2>5. TableOK' /\ RecoverOK' /\ ClientOK'
      BY <1>17 DEF Crash, Recoverers
    <2>6. HostOK'
      BY <1>17 DEF Crash, PassVarsReset
    <2> QED BY <2>4, <2>5, <2>6
  <1> QED BY <1>1, <1>2, <1>3, <1>4, <1>5, <1>6, <1>7, <1>8, <1>9, <1>10,
         <1>11, <1>12, <1>13, <1>14, <1>15, <1>16, <1>17 DEF HostStep

\* A step of RecoverQueue keeps the types.
LEMMA RecoveryType ==
  ASSUME TypeOK, NEW a \in Recoverers, Recovery(a)
  PROVE  TypeOK'
  <1> USE DEF TypeOK, TableOK, HostOK, ChildOK, RecoverOK, ClientOK, tableVars,
              hostVars, childVars, recVars, clientVars
  <1>1. CASE RecoverSelect(a)
    <2>1. Unfinished \subseteq Ids /\ Mine(a) \subseteq Ids
      BY DEF Unfinished, Mine
    <2>2. rtodo' \in [Recoverers -> SUBSET Ids]
      BY <1>1, <2>1 DEF RecoverSelect
    <2> QED BY <1>1, <2>2 DEF RecoverSelect
  <1>2. CASE RecoverStatus(a)
    BY <1>2 DEF RecoverStatus, ChangeJobStatus, Statuses
  <1>3. CASE RecoverCmds(a)
    BY <1>3 DEF RecoverCmds, ChangeJobCmds, Commands
  <1>4. CASE RecoverHost(a)
    BY <1>4 DEF RecoverHost
  <1>5. CASE RecoverDone(a)
    BY <1>5 DEF RecoverDone
  <1> HIDE DEF TypeOK
  <1> QED BY <1>1, <1>2, <1>3, <1>4, <1>5 DEF Recovery

\* What a thread does with the table and its own place.
LEMMA ChildStepType ==
  ASSUME TypeOK, NEW t \in Threads, NEW from, NEW pc \in ThreadPcs,
         \/ QuietStep(t, from, pc)
         \/ \E s \in Statuses : ChildStep(t, from, s, pc)
  PROVE  TableOK' /\ HostOK' /\ RecoverOK' /\ ClientOK'
         /\ cpc' \in [Threads -> ThreadPcs]
  <1> USE DEF TypeOK, TableOK, HostOK, ChildOK, RecoverOK, ClientOK, tableVars,
              hostVars, recVars, clientVars
  <1>1. CASE QuietStep(t, from, pc)
    BY <1>1 DEF QuietStep
  <1>2. ASSUME NEW s \in Statuses, ChildStep(t, from, s, pc)
        PROVE  /\ TableOK' /\ HostOK' /\ RecoverOK' /\ ClientOK'
               /\ cpc' \in [Threads -> ThreadPcs]
    BY <1>2, ThreadParts DEF ChildStep, ChangeJobStatus
  <1> QED BY <1>1, <1>2

\* A step of the thread or of the program of a job keeps the types.
LEMMA ThreadType ==
  ASSUME TypeOK, NEW t \in Threads, ThreadStep(t)
  PROVE  TypeOK'
  <1> USE ThreadParts, ChildStepType DEF TypeOK, ChildOK, Statuses, Done, ThreadPcs
  <1>1. CASE ThreadRunning(t)
    BY <1>1 DEF ThreadRunning
  <1>2. CASE TranscodeStarting(t)
    BY <1>2 DEF TranscodeStarting
  <1>3. CASE FlagStarting(t)
    BY <1>3 DEF FlagStarting
  <1>4. CASE FlagNoDb(t)
    BY <1>4 DEF FlagNoDb
  <1>5. CASE ProgramFails(t)
    BY <1>5 DEF ProgramFails
  <1>6. CASE UserProgram(t)
    BY <1>6 DEF UserProgram
  <1>7. CASE ProgramRunning(t)
    BY <1>7 DEF ProgramRunning
  <1>8. CASE ProgramBreathe(t)
    BY <1>8 DEF ProgramBreathe
  <1>9. CASE FlagProgramEnds(t)
    BY <1>9 DEF FlagProgramEnds
  <1>10. CASE TranscodeResult(t)
    BY <1>10 DEF TranscodeResult
  <1>11. CASE CompleteJob(t)
    BY <1>11 DEF CompleteJob
  <1>12. CASE TranscodeRetry(t)
    BY <1>12, BoundsAssumption DEF TranscodeRetry, MayRetry
  <1>13. CASE TranscodeExit(t)
    BY <1>13 DEF TranscodeExit
  <1>14. CASE TranscodeLimit(t)
    BY <1>14 DEF TranscodeLimit
  <1>15. CASE FlagExit(t)
    BY <1>15, BoundsAssumption DEF FlagExit, Removed
  <1>16. CASE UserExit(t)
    BY <1>16 DEF UserExit
  <1>17. CASE RemoveRunningJob(t)
    BY <1>17, BoundsAssumption DEF RemoveRunningJob, Removed
  <1>18. CASE NoPginfo(t)
    BY <1>18, BoundsAssumption DEF NoPginfo, Removed
  <1> QED BY <1>1, <1>2, <1>3, <1>4, <1>5, <1>6, <1>7, <1>8, <1>9, <1>10,
         <1>11, <1>12, <1>13, <1>14, <1>15, <1>16, <1>17, <1>18 DEF ThreadStep

\* Steps of users and housekeeping keep the types.
LEMMA ClientType ==
  ASSUME TypeOK,
         \/ \E c \in Clients :
              \/ QueueJobSelect(c) \/ Offer(c) \/ Requeue(c)
              \/ DeleteAllJobs(c) \/ WaitAll(c, FALSE) \/ ClientStep(c)
         \/ RecoverOld \/ UserCommand \/ CleanupOldJobsInQueue \/ Tick
  PROVE  TypeOK'
  <1> USE DEF TypeOK, TableOK, HostOK, ChildOK, RecoverOK, ClientOK, tableVars,
              hostVars, childVars, recVars, clientVars
  <1> USE BoundsAssumption
  <1>1. ASSUME NEW c \in Clients, QueueJobSelect(c) PROVE TypeOK'
    <2>1. PICK r \in Recordings, ty \in Types : QueueJobSelect(c)!(r, ty)
      BY <1>1 DEF QueueJobSelect
    <2>2. ukey' \in [Clients -> Recordings \X Types]
      BY <2>1
    <2>3. uid' \in [Clients -> 0 .. MaxIds]
      BY <2>1 DEF Ids
    <2>4. PICK s \in {"insert", "delete", "replace"} : upc' = [upc EXCEPT ![c] = s]
      BY <2>1
    <2> QED BY <2>1, <2>2, <2>3, <2>4
  <1>2. ASSUME NEW c \in Clients, DeleteJob(c) PROVE TypeOK'
    <2>1. uid' \in [Clients -> 0 .. MaxIds]
      BY <1>2 DEF DeleteJob
    <2> QED BY <1>2, <2>1 DEF DeleteJob
  <1>3. ASSUME NEW c \in Clients, QueueJobInsert(c) PROVE TypeOK'
    <2>1. CASE Inserted(c)
      <3>1. nextId \in Ids /\ nextId' \in 1 .. MaxIds + 1
        BY <2>1 DEF Inserted, Ids
      <3>2. \A k \in rows' : k \in Ids /\ k < nextId'
        BY <2>1, <3>1 DEF Inserted, Ids
      <3>3. /\ status' \in [Ids -> Statuses] /\ cmds' \in [Ids -> Commands]
            /\ sched' \in [Ids -> {0, 1}]
        BY <2>1, <3>1 DEF Inserted, Statuses, Commands
      <3>4. hostname' \in [Ids -> Hosts \cup {NoHost}]
        BY <2>1, <3>1 DEF Inserted
      <3>5. jrec' \in [Ids -> Recordings] /\ jtype' \in [Ids -> Types]
        BY <2>1, <3>1 DEF Inserted
      <3> QED BY <1>3, <3>1, <3>2, <3>3, <3>4, <3>5 DEF QueueJobInsert
    <2>2. CASE UNCHANGED tableVars
      BY <1>3, <2>2 DEF QueueJobInsert
    <2> QED BY <1>3, <2>1, <2>2 DEF QueueJobInsert
  <1>4. ASSUME NEW c \in Clients, Offer(c) PROVE TypeOK'
    <2>1. PICK j \in rows : uid' = [uid EXCEPT ![c] = j]
      BY <1>4 DEF Offer
    <2>2. uid' \in [Clients -> 0 .. MaxIds]
      BY <2>1 DEF Ids
    <2>3. PICK s \in {"delete", "requeue"} : upc' = [upc EXCEPT ![c] = s]
      BY <1>4 DEF Offer
    <2> QED BY <1>4, <2>2, <2>3 DEF Offer
  <1>5. ASSUME NEW c \in Clients, Requeue(c) PROVE TypeOK'
    BY <1>5 DEF Requeue, ChangeJobStatus, Statuses
  <1>6. ASSUME NEW c \in Clients, DeleteAllJobs(c) PROVE TypeOK'
    BY <1>6 DEF DeleteAllJobs, Statuses, Done
  <1>7. ASSUME NEW c \in Clients, StopAll(c) PROVE TypeOK'
    BY <1>7 DEF StopAll, Commands
  <1>8. ASSUME NEW c \in Clients, WaitAll(c, TRUE) \/ WaitAll(c, FALSE)
        PROVE  TypeOK'
    <2>1. /\ upc' = [upc EXCEPT ![c] = "deleteAll"]
          /\ UNCHANGED <<tableVars, day, hostVars, childVars, recVars, uid, ukey,
                         ncmds, crashes>>
      BY <1>8, Zenon DEF WaitAll
    <2> QED BY <2>1
  <1>9. ASSUME NEW c \in Clients, DeleteAll(c) PROVE TypeOK'
    BY <1>9 DEF DeleteAll
  <1>10. CASE RecoverOld
    BY <1>10 DEF RecoverOld, Recoverers
  <1>11. CASE UserCommand
    BY <1>11 DEF UserCommand, ChangeJobCmds, Commands
  <1>12. CASE CleanupOldJobsInQueue
    BY <1>12 DEF CleanupOldJobsInQueue
  <1>13. CASE Tick
    BY <1>13 DEF Tick
  <1> QED BY <1>1, <1>2, <1>3, <1>4, <1>5, <1>6, <1>7, <1>8, <1>9, <1>10, <1>11,
             <1>12, <1>13 DEF ClientStep

LEMMA InitType == Init => TypeOK
  <1> SUFFICES ASSUME Init PROVE TypeOK
    OBVIOUS
  <1>1. /\ (CHOOSE r \in Recordings : TRUE) \in Recordings
        /\ (CHOOSE ty \in Types : TRUE) \in Types
        /\ (CHOOSE k \in Recordings \X Types : TRUE) \in Recordings \X Types
    <2>1. (\E r \in Recordings : TRUE) /\ (\E ty \in Types : TRUE)
      BY BoundsAssumption
    <2>2. PICK r \in Recordings, ty \in Types : TRUE
      BY <2>1
    <2>3. <<r, ty>> \in Recordings \X Types
      BY <2>2
    <2> QED BY <2>1, <2>3, Zenon
  <1>2. TableOK
    BY <1>1, BoundsAssumption DEF Init, TableOK, Statuses, Commands
  <1>3. HostOK /\ RecoverOK
    BY DEF Init, HostOK, RecoverOK
  <1>4. ChildOK
    BY BoundsAssumption DEF Init, ChildOK, ThreadPcs
  <1>5. ClientOK
    BY <1>1, BoundsAssumption DEF Init, ClientOK
  <1> QED BY <1>2, <1>3, <1>4, <1>5 DEF TypeOK

\* Every step keeps the types.
LEMMA TypeStep == TypeOK /\ [Next]_vars => TypeOK'
  <1> SUFFICES ASSUME TypeOK, [Next]_vars PROVE TypeOK'
    OBVIOUS
  <1>1. CASE UNCHANGED vars
    BY <1>1 DEF TypeOK, TableOK, HostOK, ChildOK, RecoverOK, ClientOK, vars,
                tableVars, hostVars, childVars, recVars, clientVars
  <1>2. CASE Next
    BY <1>2, HostType, RecoveryType, ThreadType, ClientType DEF Next
  <1> QED BY <1>1, <1>2

\* All values stay of their types; mythtranscode is not restarted more often
\* than retrylimit allows (DoTranscodeThread).
THEOREM TypeCorrect == Spec => []TypeOK
  BY InitType, TypeStep, PTL DEF Spec

-----------------------------------------------------------------------------
(* Ownership *)

\* A row that has not been inserted names no host.
Fresh == \A j \in Ids : j >= nextId => hostname[j] = NoHost

\* Ownership is inductive together with these.
Owned == Ownership /\ Fresh /\ rpc[Housekeeper] = "off"

\* Steps that leave hosts, recovery and the column hostname alone, and start
\* no thread.
LEMMA OwnedFrame ==
  ASSUME Owned,
         UNCHANGED <<hostname, nextId, hpc, todo, job, rpc, rtodo>>,
         \A t \in Threads : cpc[t] = "none" => cpc'[t] = "none"
  PROVE  Owned'
  BY DEF Owned, Ownership, ThreadsOwned, ClaimsOwned, SnapshotsOwned,
         RecoveryOwned, Fresh

\* Steps of the JobQueue thread of h that change no hostname: it goes on at p
\* with the entry e, and has at most the snapshot it had.
LEMMA HostFrame ==
  ASSUME TypeOK, Owned, NEW h \in Hosts, NEW p, NEW e,
         hpc[h] \notin {"down", "recover"}, p \notin {"down", "recover"},
         hpc' = [hpc EXCEPT ![h] = p], job' = [job EXCEPT ![h] = e],
         p \in {"cancel", "process", "launch"} => hostname[e.id] = h,
         NEW S, S \subseteq todo[h], todo' = [todo EXCEPT ![h] = S],
         UNCHANGED <<hostname, nextId, rpc, rtodo, cpc>>
  PROVE  Owned'
  <1> USE DEF Owned, TypeOK, HostOK
  <1>1. Fresh' /\ ThreadsOwned'
    BY DEF Fresh, Ownership, ThreadsOwned
  <1>2. ClaimsOwned'
    BY DEF Ownership, ClaimsOwned
  <1>3. SnapshotsOwned'
    BY DEF Ownership, SnapshotsOwned
  <1>4. RecoveryOwned'
    BY DEF Ownership, RecoveryOwned
  <1> QED BY <1>1, <1>2, <1>3, <1>4 DEF Ownership

\* No thread, claim, snapshot or recovery relies on a row without a host.
LEMMA FreeRow ==
  ASSUME TypeOK, Owned, NEW j \in Ids, hostname[j] = NoHost
  PROVE  /\ \A t \in Threads : t[2] = j => cpc[t] = "none"
         /\ \A h \in Hosts : /\ hpc[h] \in {"cancel", "process", "launch"}
                                => job[h].id # j
                             /\ \A e \in todo[h] : e.host = h => e.id # j
                             /\ j \notin rtodo[h]
  BY HostsAssumption, ThreadParts
     DEF Owned, Ownership, ThreadsOwned, ClaimsOwned, SnapshotsOwned,
         RecoveryOwned

\* A row without a host may be given to any host, for nobody else holds it.
LEMMA Given ==
  ASSUME TypeOK, Owned, NEW j \in Ids, hostname[j] = NoHost,
         NEW q \in Hosts \cup {NoHost}, hostname' = [hostname EXCEPT ![j] = q],
         UNCHANGED <<hpc, todo, job, rpc, rtodo, cpc>>
  PROVE  Ownership'
  <1>1. \A k \in Ids : k # j => hostname'[k] = hostname[k]
    BY DEF TypeOK, TableOK
  <1>2. ThreadsOwned'
    BY <1>1, FreeRow, ThreadParts DEF Owned, Ownership, ThreadsOwned
  <1>3. ClaimsOwned'
    BY <1>1, FreeRow
       DEF Owned, Ownership, ClaimsOwned, TypeOK, HostOK, Entries
  <1>4. SnapshotsOwned'
    BY <1>1, FreeRow
       DEF Owned, Ownership, SnapshotsOwned, TypeOK, HostOK, Entries
  <1>5. RecoveryOwned'
    BY <1>1, FreeRow
       DEF Owned, Ownership, RecoveryOwned, TypeOK, RecoverOK, Recoverers
  <1> QED BY <1>2, <1>3, <1>4, <1>5 DEF Ownership

\* h claims the row of the entry e of its snapshot and goes on at p with it.
LEMMA Claimed ==
  ASSUME TypeOK, Owned, NEW h \in Hosts, NEW p, NEW e \in todo[h],
         hpc[h] = "scan", p \notin {"down", "recover"},
         e.id \in rows, hostname[e.id] = NoHost,
         hostname' = [hostname EXCEPT ![e.id] = h],
         hpc' = [hpc EXCEPT ![h] = p], job' = [job EXCEPT ![h] = e],
         NEW S, S \subseteq todo[h], todo' = [todo EXCEPT ![h] = S],
         UNCHANGED <<nextId, rpc, rtodo, cpc>>
  PROVE  Owned'
  <1>1. e.id \in Ids /\ e.id < nextId
    BY DEF TypeOK, TableOK
  <1>2. /\ \A k \in Ids : k # e.id => hostname'[k] = hostname[k]
        /\ hostname'[e.id] = h
    BY <1>1 DEF TypeOK, TableOK
  <1>3. Fresh'
    BY <1>1, <1>2 DEF Owned, Fresh, TypeOK, TableOK, Ids
  <1>4. ThreadsOwned'
    BY <1>1, <1>2, FreeRow, ThreadParts DEF Owned, Ownership, ThreadsOwned
  <1>5. ClaimsOwned'
    BY <1>1, <1>2, FreeRow
       DEF Owned, Ownership, ClaimsOwned, TypeOK, HostOK, Entries
  <1>6. SnapshotsOwned'
    BY <1>1, <1>2, FreeRow
       DEF Owned, Ownership, SnapshotsOwned, TypeOK, HostOK, Entries
  <1>7. RecoveryOwned'
    BY <1>1, <1>2, FreeRow
       DEF Owned, Ownership, RecoveryOwned, TypeOK, HostOK, RecoverOK, Recoverers
  <1> QED BY <1>3, <1>4, <1>5, <1>6, <1>7 DEF Owned, Ownership

\* The steps of a JobQueue thread keep ownership.
LEMMA HostOwned ==
  ASSUME TypeOK, Owned, NEW h \in Hosts, HostStep(h) \/ Crash(h)
  PROVE  Owned'
  <1> USE DEF tableVars, hostVars, childVars, recVars
  <1>0. /\ hpc = [hpc EXCEPT ![h] = hpc[h]] /\ job = [job EXCEPT ![h] = job[h]]
        /\ todo = [todo EXCEPT ![h] = todo[h]]
    BY DEF TypeOK, HostOK
  <1>1. CASE Start(h)
    BY <1>1, HostsAssumption
       DEF Start, Owned, Ownership, ThreadsOwned, ClaimsOwned, SnapshotsOwned,
           RecoveryOwned, Fresh, TypeOK, HostOK, RecoverOK, Recoverers
  <1>2. CASE Crash(h)
    BY <1>2, HostsAssumption
       DEF Crash, Owned, Ownership, ThreadsOwned, ClaimsOwned, SnapshotsOwned,
           RecoveryOwned, Fresh, TypeOK, HostOK, ChildOK, RecoverOK, Recoverers
  <1>3. CASE StartPass(h)
    BY <1>3
       DEF StartPass, GetJobsInQueue, Entry, Owned, Ownership, ThreadsOwned,
           ClaimsOwned, SnapshotsOwned, RecoveryOwned, Fresh, TypeOK, HostOK
  <1>4. CASE EndPass(h)
    BY <1>0, <1>4, HostFrame DEF EndPass
  <1>5. CASE Skip(h) \/ StopRunning(h) \/ ChangeRunning(h)
    <2>1. PICK e \in todo[h] : Takes(h, e)
      BY <1>5, Zenon DEF Skip, StopRunning, ChangeRunning
    <2>2. UNCHANGED <<hpc, job, hostname, nextId, rpc, rtodo, cpc>>
      BY <1>5 DEF Skip, StopRunning, ChangeRunning
    <2>3. /\ hpc[h] = "scan" /\ todo[h] \ {e} \subseteq todo[h]
          /\ todo' = [todo EXCEPT ![h] = todo[h] \ {e}]
      BY <2>1 DEF Takes
    <2>4. /\ hpc' = [hpc EXCEPT ![h] = "scan"]
          /\ job' = [job EXCEPT ![h] = job[h]]
      BY <1>0, <2>2, <2>3
    <2> QED BY <2>2, <2>3, <2>4, HostFrame
  <1>6. CASE ClaimToCancel(h)
    <2>1. PICK e \in todo[h], seem \in SUBSET freed[h] :
            ClaimToCancel(h)!(e, seem)
      BY <1>6 DEF ClaimToCancel
    <2>2. /\ hpc[h] = "scan" /\ todo[h] \ {e} \subseteq todo[h]
          /\ todo' = [todo EXCEPT ![h] = todo[h] \ {e}]
      BY <2>1 DEF Takes
    <2>3. UNCHANGED <<nextId, rpc, rtodo, cpc>>
      BY <2>1
    <2>4. CASE ChangeJobHost(e.id)
      <3>1. /\ hostname' = [hostname EXCEPT ![e.id] = h]
            /\ hpc' = [hpc EXCEPT ![h] = "cancel"]
            /\ job' = [job EXCEPT ![h] = e]
        BY <2>1, <2>4
      <3>2. e.id \in rows /\ hostname[e.id] = NoHost
        BY <2>4 DEF ChangeJobHost
      <3> QED BY <2>2, <2>3, <3>1, <3>2, Claimed
    <2>5. CASE ~ChangeJobHost(e.id)
      <3>1. /\ hpc' = [hpc EXCEPT ![h] = "scan"]
            /\ job' = [job EXCEPT ![h] = job[h]] /\ hostname' = hostname
        BY <1>0, <2>1, <2>2, <2>5
      <3> QED BY <2>2, <2>3, <3>1, HostFrame
    <2> QED BY <2>4, <2>5
  <1>7. CASE Claim(h)
    <2>1. PICK e \in todo[h], seem \in SUBSET freed[h] : Claim(h)!(e, seem)
      BY <1>7 DEF Claim
    <2>2. /\ hpc[h] = "scan" /\ todo[h] \ {e} \subseteq todo[h]
          /\ todo' = [todo EXCEPT ![h] = todo[h] \ {e}]
      BY <2>1 DEF Takes
    <2>3. UNCHANGED <<nextId, rpc, rtodo, cpc>>
      BY <2>1
    <2>4. CASE NeedsClaim(e) /\ ChangeJobHost(e.id)
      <3>1. /\ hostname' = [hostname EXCEPT ![e.id] = h]
            /\ hpc' = [hpc EXCEPT ![h] = "process"]
            /\ job' = [job EXCEPT ![h] = e]
        BY <2>1, <2>4
      <3>2. e.id \in rows /\ hostname[e.id] = NoHost
        BY <2>4 DEF ChangeJobHost
      <3> QED BY <2>2, <2>3, <3>1, <3>2, Claimed
    <2>5. CASE NeedsClaim(e) /\ ~ChangeJobHost(e.id)
      <3>1. /\ hpc' = [hpc EXCEPT ![h] = "scan"]
            /\ job' = [job EXCEPT ![h] = job[h]] /\ hostname' = hostname
        BY <1>0, <2>1, <2>2, <2>5
      <3> QED BY <2>2, <2>3, <3>1, HostFrame
    <2>6. CASE ~NeedsClaim(e)
      <3>1. e.host = h
        BY <2>1, <2>6 DEF Considered, Remote, Starts, NeedsClaim
      <3>2. hostname[e.id] = h
        BY <3>1 DEF Owned, Ownership, SnapshotsOwned
      <3>3. /\ hpc' = [hpc EXCEPT ![h] = "process"]
            /\ job' = [job EXCEPT ![h] = e] /\ hostname' = hostname
        BY <2>1, <2>6
      <3> QED BY <2>2, <2>3, <3>2, <3>3, HostFrame
    <2> QED BY <2>4, <2>5, <2>6
  <1>8. CASE Reset(h)
    <2>1. PICK e \in todo[h] : Takes(h, e) /\ job' = [job EXCEPT ![h] = e]
      BY <1>8 DEF Reset
    <2>2. /\ hpc[h] = "scan" /\ todo[h] \ {e} \subseteq todo[h]
          /\ todo' = [todo EXCEPT ![h] = todo[h] \ {e}]
      BY <2>1 DEF Takes
    <2>3. /\ hpc' = [hpc EXCEPT ![h] = "clearCmds"]
          /\ UNCHANGED <<hostname, nextId, rpc, rtodo, cpc>>
      BY <1>8 DEF Reset
    <2> QED BY <2>1, <2>2, <2>3, HostFrame
  <1>9. CASE Cancel(h) \/ ClearCmds(h) \/ NoDb(h)
    BY <1>0, <1>9, HostFrame DEF Cancel, ClearCmds, NoDb
  <1>10. CASE Pending(h)
    <2>1. /\ hpc[h] = "process" /\ hpc' = [hpc EXCEPT ![h] = "launch"]
          /\ UNCHANGED <<hostname, nextId, rpc, rtodo, cpc, todo, job>>
      BY <1>10 DEF Pending
    <2>2. hostname[job[h].id] = h
      BY <2>1 DEF Owned, Ownership, ClaimsOwned
    <2> QED BY <1>0, <2>1, <2>2, HostFrame
  <1>11. CASE NoProgramInfo(h) \/ DeletedProgram(h)
    BY <1>0, <1>11, HostFrame DEF NoProgramInfo, DeletedProgram, Processed
  <1>12. CASE StartChildJob(h)
    <2>1. PICK n \in Copies : cpc' = [cpc EXCEPT ![<<h, job[h].id, n>>] = "init"]
      BY <1>12 DEF StartChildJob
    <2>2. /\ hpc[h] = "launch" /\ hpc' = [hpc EXCEPT ![h] = "scan"]
          /\ job' = [job EXCEPT ![h] = NoEntry]
          /\ UNCHANGED <<todo, hostname, nextId, rpc, rtodo>>
      BY <1>12 DEF StartChildJob, Processed
    <2>3. hostname[job[h].id] = h
      BY <2>2 DEF Owned, Ownership, ClaimsOwned
    <2>4. ThreadsOwned'
      BY <2>1, <2>2, <2>3 DEF Owned, Ownership, ThreadsOwned, TypeOK, ChildOK
    <2>5. ClaimsOwned' /\ SnapshotsOwned' /\ Fresh'
      BY <2>2 DEF Owned, Ownership, ClaimsOwned, SnapshotsOwned, Fresh, TypeOK,
                  HostOK
    <2>6. RecoveryOwned'
      BY <2>1, <2>2
         DEF Owned, Ownership, RecoveryOwned, TypeOK, HostOK, ChildOK
    <2> QED BY <2>2, <2>4, <2>5, <2>6 DEF Owned, Ownership
  <1> QED BY <1>1, <1>2, <1>3, <1>4, <1>5, <1>6, <1>7, <1>8, <1>9, <1>10, <1>11,
             <1>12 DEF HostStep

\* Without RecoverOldJobsInQueue, recovery keeps ownership: it takes a row from
\* nobody but the host that recovers.
LEMMA RecoveryOwnedStep ==
  ASSUME TypeOK, Owned, "RecoverOld" \notin Ops, NEW a \in Recoverers, Recovery(a)
  PROVE  Owned'
  <1> USE DEF tableVars, hostVars, childVars
  <1>1. a \in Hosts /\ hpc[a] = "recover"
    BY DEF Recovery, RecoverSelect, RecoverStatus, RecoverCmds, RecoverHost,
           RecoverDone, Owned, Ownership, RecoveryOwned, Recoverers
  <1>2. CASE RecoverSelect(a)
    <2>1. rtodo' = [rtodo EXCEPT ![a] = Mine(a)]
      BY <1>2 DEF RecoverSelect
    <2> QED BY <1>1, <1>2, <2>1, HostsAssumption
         DEF RecoverSelect, Mine, Owned, Ownership, ThreadsOwned, ClaimsOwned,
             SnapshotsOwned, RecoveryOwned, Fresh, TypeOK, RecoverOK, Recoverers
  <1>3. CASE RecoverStatus(a) \/ RecoverCmds(a)
    <2>1. /\ UNCHANGED <<hostname, nextId, hpc, todo, job, cpc>>
          /\ \A g \in Hosts : rtodo'[g] \subseteq rtodo[g]
          /\ \A g \in Recoverers : g # a => rpc'[g] = rpc[g]
      BY <1>3 DEF RecoverStatus, RecoverCmds, TypeOK, RecoverOK, Recoverers
    <2> QED BY <1>1, <2>1, HostsAssumption
         DEF Owned, Ownership, ThreadsOwned, ClaimsOwned, SnapshotsOwned,
             RecoveryOwned, Fresh, Recoverers
  <1>4. CASE RecoverHost(a)
    <2>1. PICK j \in Ids :
            /\ j \in rtodo[a]
            /\ hostname' = IF j \in rows THEN [hostname EXCEPT ![j] = NoHost]
                                         ELSE hostname
            /\ rtodo' = [rtodo EXCEPT ![a] = @ \ {j}]
      BY <1>4 DEF RecoverHost, Recovered
    <2>2. hostname[j] = a
      BY <1>1, <2>1 DEF Owned, Ownership, RecoveryOwned
    <2>3. /\ \A k \in Ids : k # j => hostname'[k] = hostname[k]
          /\ hostname'[j] \in {a, NoHost}
      BY <2>1, <2>2 DEF TypeOK, TableOK
    <2>4. /\ UNCHANGED <<nextId, hpc, todo, job, cpc>>
          /\ \A g \in Recoverers : g # a => rpc'[g] = rpc[g]
      BY <1>4 DEF RecoverHost, TypeOK, RecoverOK
    <2>5. ThreadsOwned'
      BY <1>1, <2>2, <2>3, <2>4, ThreadParts
         DEF Owned, Ownership, ThreadsOwned, RecoveryOwned
    <2>6. ClaimsOwned'
      BY <1>1, <2>2, <2>3, <2>4
         DEF Owned, Ownership, ClaimsOwned, TypeOK, HostOK, Entries
    <2>7. SnapshotsOwned'
      BY <1>1, <2>2, <2>3, <2>4
         DEF Owned, Ownership, SnapshotsOwned, RecoveryOwned, TypeOK, HostOK,
             Entries
    <2>8. RecoveryOwned'
      BY <1>1, <2>1, <2>2, <2>3, <2>4
         DEF Owned, Ownership, RecoveryOwned, TypeOK, RecoverOK, Recoverers
    <2>9. Fresh'
      BY <2>1, <2>2, <2>3, <2>4, HostsAssumption, <1>1 DEF Owned, Fresh
    <2> QED BY <1>1, <2>4, <2>5, <2>6, <2>7, <2>8, <2>9, HostsAssumption
         DEF Owned, Ownership, Recoverers
  <1>5. CASE RecoverDone(a)
    BY <1>1, <1>5, HostsAssumption
       DEF RecoverDone, Owned, Ownership, ThreadsOwned, ClaimsOwned,
           SnapshotsOwned, RecoveryOwned, Fresh, TypeOK, HostOK, RecoverOK,
           Recoverers
  <1> QED BY <1>2, <1>3, <1>4, <1>5 DEF Recovery

\* The threads of jobs keep ownership.
LEMMA ThreadOwned ==
  ASSUME TypeOK, Owned, NEW t \in Threads, ThreadStep(t)
  PROVE  Owned'
  <1>1. ASSUME NEW from, from # "none", NEW pc, NEW s,
               QuietStep(t, from, pc) \/ ChildStep(t, from, s, pc)
        PROVE  /\ UNCHANGED <<hostname, nextId, hpc, todo, job, rpc, rtodo>>
               /\ \A u \in Threads : cpc[u] = "none" => cpc'[u] = "none"
    BY <1>1 DEF QuietStep, ChildStep, tableVars, hostVars, recVars, TypeOK, ChildOK
  <1>2. /\ UNCHANGED <<hostname, nextId, hpc, todo, job, rpc, rtodo>>
        /\ \A u \in Threads : cpc[u] = "none" => cpc'[u] = "none"
    BY <1>1
       DEF ThreadStep, ThreadRunning, NoPginfo, TranscodeStarting, FlagStarting,
           FlagNoDb, ProgramFails, UserProgram, ProgramRunning, ProgramBreathe,
           FlagProgramEnds, TranscodeResult, CompleteJob, TranscodeRetry,
           TranscodeExit, TranscodeLimit, FlagExit, UserExit, RemoveRunningJob
  <1> QED BY <1>2, OwnedFrame

\* Users and housekeeping keep ownership; a new row is nobody's yet.
LEMMA ClientOwned ==
  ASSUME TypeOK, Owned, "RecoverOld" \notin Ops,
         \/ \E c \in Clients :
              \/ QueueJobSelect(c) \/ Offer(c) \/ Requeue(c)
              \/ DeleteAllJobs(c) \/ WaitAll(c, FALSE) \/ ClientStep(c)
         \/ RecoverOld \/ UserCommand \/ CleanupOldJobsInQueue \/ Tick
  PROVE  Owned'
  <1> USE DEF tableVars, hostVars, childVars, recVars
  <1>1. ASSUME NEW c \in Clients, QueueJobInsert(c), Inserted(c) PROVE Owned'
    <2>1. nextId \in Ids /\ hostname[nextId] = NoHost
      BY <1>1 DEF Inserted, Owned, Fresh, TypeOK, TableOK, Ids
    <2>2. PICK q \in QueueHosts : hostname' = [hostname EXCEPT ![nextId] = q]
      BY <1>1 DEF Inserted
    <2>3. UNCHANGED <<hpc, todo, job, rpc, rtodo, cpc>>
      BY <1>1 DEF QueueJobInsert
    <2>4. Ownership'
      BY <2>1, <2>2, <2>3, Given, BoundsAssumption
    <2>5. Fresh'
      BY <1>1, <2>1, <2>2 DEF Inserted, Owned, Fresh, TypeOK, TableOK, Ids
    <2> QED BY <2>3, <2>4, <2>5 DEF Owned
  <1>2. ASSUME NEW c \in Clients,
               \/ QueueJobSelect(c) \/ Offer(c) \/ Requeue(c) \/ DeleteAllJobs(c)
               \/ DeleteJob(c) \/ StopAll(c) \/ DeleteAll(c)
               \/ QueueJobInsert(c) /\ ~Inserted(c)
        PROVE  UNCHANGED <<hostname, nextId, hpc, todo, job, rpc, rtodo, cpc>>
    BY <1>2 DEF QueueJobSelect, Offer, Requeue, DeleteAllJobs, DeleteJob, StopAll,
                DeleteAll, QueueJobInsert
  <1>3. ASSUME NEW c \in Clients, WaitAll(c, TRUE) \/ WaitAll(c, FALSE)
        PROVE  UNCHANGED <<hostname, nextId, hpc, todo, job, rpc, rtodo, cpc>>
    <2>1. UNCHANGED <<tableVars, day, hostVars, childVars, recVars>>
      BY <1>3, Zenon DEF WaitAll
    <2> QED BY <2>1
  <1>4. CASE RecoverOld
    BY <1>4 DEF RecoverOld
  <1>5. CASE UserCommand \/ CleanupOldJobsInQueue \/ Tick
    BY <1>5, OwnedFrame DEF UserCommand, CleanupOldJobsInQueue, Tick
  <1> QED BY <1>1, <1>2, <1>3, <1>4, <1>5, OwnedFrame DEF ClientStep

LEMMA InitOwned == Init => Owned
  BY HostsAssumption
     DEF Init, Owned, Ownership, ThreadsOwned, ClaimsOwned, SnapshotsOwned,
         RecoveryOwned, Fresh, Recoverers

LEMMA OwnedStep ==
  ASSUME "RecoverOld" \notin Ops
  PROVE  TypeOK /\ Owned /\ [Next]_vars => Owned'
  <1> SUFFICES ASSUME TypeOK, Owned, [Next]_vars PROVE Owned'
    OBVIOUS
  <1>1. CASE UNCHANGED vars
    BY <1>1, OwnedFrame DEF vars, tableVars, hostVars, childVars, recVars
  <1>2. CASE Next
    BY <1>2, HostOwned, RecoveryOwnedStep, ThreadOwned, ClientOwned DEF Next
  <1> QED BY <1>1, <1>2

\* Without RecoverOldJobsInQueue the row of a job names, at every moment, the
\* only host that may act on the job without asking: the conditional UPDATE of
\* ChangeJobHost is all the locking that the queue needs.
THEOREM OwnershipHolds ==
  ASSUME "RecoverOld" \notin Ops
  PROVE  Spec => []Ownership
  <1>1. Init => TypeOK /\ Owned
    BY InitType, InitOwned
  <1>2. TypeOK /\ Owned /\ [Next]_vars => TypeOK' /\ Owned'
    BY TypeStep, OwnedStep
  <1>3. Owned => Ownership
    BY DEF Owned
  <1> QED BY <1>1, <1>2, <1>3, PTL DEF Spec

\* Without RecoverOldJobsInQueue no job ever has threads on two hosts, whatever
\* stale snapshots they work on and whoever crashes and recovers (ProcessQueue,
\* ChangeJobHost, RecoverQueue).
THEOREM OneRunnerHolds ==
  ASSUME "RecoverOld" \notin Ops
  PROVE  Spec => []OneRunner
  <1>1. Ownership => OneRunner
    BY DEF Ownership, ThreadsOwned, OneRunner, Alive, Threads
  <1> QED BY <1>1, OwnershipHolds, PTL
=============================================================================
