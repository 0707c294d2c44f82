------------------------------ MODULE JobQueue ------------------------------
(***************************************************************************)
(* libmythtv/jobqueue.cpp: the queue of transcode, commercial flagging,    *)
(* metadata lookup and user jobs.                                          *)
(*                                                                         *)
(* The queue is the table jobqueue of the database that all backends       *)
(* share.  On every host one JobQueue thread recovers what an earlier run  *)
(* left behind and then works through the table again and again, on a      *)
(* snapshot of it (ProcessQueue); it claims jobs with a conditional UPDATE *)
(* of the column hostname and gives each to a thread of its own, which     *)
(* runs a program.  Frontends and backends queue, stop, requeue and delete *)
(* jobs by changing the table under everybody's feet.                      *)
(*                                                                         *)
(* There are no transactions: one SQL statement is one step.  What a       *)
(* thread does between two statements is local to its host and belongs to  *)
(* the step of the statement before or after it.                           *)
(***************************************************************************)
EXTENDS Integers, FiniteSets

CONSTANTS
  Hosts, NoHost,     \* the backends; the empty hostname
  Housekeeper,       \* the master backend's JobQueueRecoverTask
  Clients,           \* programs that queue and delete jobs
  Recordings,        \* (chanid, starttime)
  Types,             \* the job types in use: "transcode", "flag", "user"
  NotAllowed,        \* set of <<host, type>>: JobAllow... is off there
  Windows,           \* what InJobRunWindow may answer
  Fates,             \* what ProcessJob may find: "found", "missing", "deleted"
  Results,           \* how a program may end: "OK", "RESTART", "ERROR",
                     \* "NOTFOUND"
  QueueHosts,        \* the hostnames QueueJob may be given
  RunOnRecordHost,   \* the setting JobsRunOnRecordHost
  MaxJobs,           \* the setting JobQueueMaxSimultaneousJobs
  RetryLimit,        \* how often a transcode may ask to be restarted (3)
  Ops,               \* the operations of users and housekeeping in use
  Cmds,              \* the commands users give
  DbMayFail,         \* whether testDBConnection may fail
  Delays,            \* schedruntime of a new job: 0 now, 1 some day later
  MaxIds,            \* bound: rows ever inserted
  MaxCmds,           \* bound: user commands
  MaxCrashes,        \* bound: crashes of backends
  MaxCopies          \* bound: threads a host may have for one job

ASSUME HostsAssumption ==
  NoHost \notin Hosts /\ Housekeeper \notin Hosts \cup {NoHost}

ASSUME BoundsAssumption ==
  /\ MaxIds \in Nat /\ MaxCmds \in Nat /\ MaxCrashes \in Nat
  /\ MaxCopies \in Nat /\ Recordings # {} /\ Types # {}
  /\ MaxJobs \in Nat /\ RetryLimit \in Nat
  /\ Types \subseteq {"transcode", "flag", "user"}
  /\ Windows \subseteq BOOLEAN /\ Windows # {}
  /\ Fates \subseteq {"found", "missing", "deleted"}
  /\ Results \subseteq {"OK", "RESTART", "ERROR", "NOTFOUND"}
  /\ QueueHosts \subseteq Hosts \cup {NoHost}
  /\ RunOnRecordHost \in BOOLEAN /\ DbMayFail \in BOOLEAN
  /\ Delays \subseteq {0, 1}
  /\ NotAllowed \subseteq Hosts \X Types
  /\ Cmds \subseteq {"PAUSE", "RESUME", "STOP", "RESTART"}
  /\ Ops \subseteq {"QueueJob", "DeleteAllJobs", "DeleteJob", "Requeue",
                    "Cleanup", "RecoverOld"}

Ids == 1 .. MaxIds

Done == {"FINISHED", "ABORTED", "ERRORED", "CANCELLED"}

Statuses == Done \cup {"QUEUED", "PENDING", "STARTING", "RUNNING", "STOPPING",
                       "PAUSED", "RETRY", "ERRORING", "ABORTING"}

Recoverers == Hosts \cup {Housekeeper}

\* The threads of jobs: host, job, and a number, because nothing stops a host
\* from starting a job again while an earlier thread of it is still there.
Copies == 1 .. MaxCopies
Threads == Hosts \X Ids \X Copies

VARIABLES
  \* the table jobqueue
  rows,              \* ids of the rows that exist
  status, cmds, hostname, jrec, jtype, sched,   \* columns, by id
  nextId,            \* AUTO_INCREMENT
  day,               \* the clock, as far as schedruntime is concerned
  \* the JobQueue thread of each host
  hpc,               \* where it is
  todo,              \* entries of the snapshot still to be looked at
  job,               \* the entry it is working on
  window,            \* inTimeWindow of this pass
  jobStatus,         \* the ids of this pass's map jobStatus
  startedJobAlready,
  \* m_runningJobs of each host, and the threads of its jobs
  running,           \* the keys of m_runningJobs
  freed,             \* those whose pginfo is deleted or missing
  flag,              \* RunningJobInfo::flag
  cpc,               \* where the thread of a job, or its program, is
  result,            \* how its program ended
  retrylimit,        \* how often it may still be restarted
  \* RecoverQueue, by who runs it
  rpc, rtodo,
  \* QueueJob, DeleteAllJobs and DeleteJob, by client
  upc, uid, ukey,
  \* bounds and history
  ncmds, crashes

tableVars  == <<rows, status, cmds, hostname, jrec, jtype, sched, nextId>>
hostVars   == <<hpc, todo, job, window, jobStatus, startedJobAlready>>
childVars  == <<running, freed, flag, cpc, result, retrylimit>>
recVars    == <<rpc, rtodo>>
clientVars == <<upc, uid, ukey, ncmds>>
vars == <<tableVars, day, hostVars, childVars, recVars, clientVars, crashes>>

NoEntry == [id |-> 0, status |-> "QUEUED", cmds |-> "RUN", host |-> NoHost]

Init ==
  /\ rows = {} /\ nextId = 1 /\ day = 0
  /\ status = [j \in Ids |-> "QUEUED"] /\ cmds = [j \in Ids |-> "RUN"]
  /\ hostname = [j \in Ids |-> NoHost] /\ sched = [j \in Ids |-> 0]
  /\ jrec = [j \in Ids |-> CHOOSE r \in Recordings : TRUE]
  /\ jtype = [j \in Ids |-> CHOOSE t \in Types : TRUE]
  /\ hpc = [h \in Hosts |-> "down"] /\ todo = [h \in Hosts |-> {}]
  /\ job = [h \in Hosts |-> NoEntry] /\ window = [h \in Hosts |-> TRUE]
  /\ jobStatus = [h \in Hosts |-> {}]
  /\ startedJobAlready = [h \in Hosts |-> FALSE]
  /\ running = [h \in Hosts |-> {}] /\ freed = [h \in Hosts |-> {}]
  /\ flag = [h \in Hosts |-> [j \in Ids |-> "RUN"]]
  /\ cpc = [t \in Threads |-> "none"] /\ result = [t \in Threads |-> "OK"]
  /\ retrylimit = [t \in Threads |-> RetryLimit]
  /\ rpc = [a \in Recoverers |-> "off"] /\ rtodo = [a \in Recoverers |-> {}]
  /\ upc = [c \in Clients |-> "idle"] /\ uid = [c \in Clients |-> 0]
  /\ ukey = [c \in Clients |-> CHOOSE k \in Recordings \X Types : TRUE]
  /\ ncmds = 0 /\ crashes = 0

-----------------------------------------------------------------------------
(* Statements *)

\* ChangeJobStatus, ChangeJobCmds: an UPDATE of a row that may be gone.
ChangeJobStatus(j, s) ==
  status' = IF j \in rows THEN [status EXCEPT ![j] = s] ELSE status
ChangeJobCmds(j, c) ==
  cmds' = IF j \in rows THEN [cmds EXCEPT ![j] = c] ELSE cmds

\* ChangeJobHost(j, h) with a name changes a row without one, and tells.
ChangeJobHost_Any(j) == j \in rows
ChangeJobHost(j) == j \in rows /\ hostname[j] = NoHost

Entry(j) ==
  [id |-> j, status |-> status[j], cmds |-> cmds[j], host |-> hostname[j]]

\* GetJobsInQueue: the rows that are not done.
GetJobsInQueue == {Entry(j) : j \in {k \in rows : status[k] \notin Done}}

\* The order of the snapshot: ORDER BY schedruntime, id.
Before(j, k) == sched[j] < sched[k] \/ (sched[j] = sched[k] /\ j <= k)

-----------------------------------------------------------------------------
(* RecoverQueue, when a JobQueue starts and once a day on the master. *)

\* The rows RecoverQueue takes for left-overs ...
Unfinished ==
  {j \in rows : /\ status[j] \notin Done
                /\ \/ status[j] \in {"STARTING", "RUNNING", "PAUSED", "STOPPING"}
                   \/ cmds[j] = "STOP"}

\* ... of this host, or such that their status is a day old.
Mine_All(a) == Unfinished
Mine(a) == {j \in Unfinished : hostname[j] = a}

RecoverSelect(a) ==
  /\ rpc[a] = "select"
  /\ \E old \in SUBSET Unfinished :
       /\ "RecoverOld" \notin Ops => old = {}
       /\ rtodo' = [rtodo EXCEPT ![a] = old \cup Mine(a)]
  /\ rpc' = [rpc EXCEPT ![a] = "status"]
  /\ UNCHANGED <<tableVars, day, hostVars, childVars, clientVars, crashes>>

Recovered(a, j) == j \in rtodo[a] /\ \A k \in rtodo[a] : Before(j, k)

RecoverStatus(a) ==
  /\ rpc[a] = "status"
  /\ \E j \in Ids :
       Recovered(a, j) /\ ChangeJobStatus(j, "QUEUED")
  /\ rpc' = [rpc EXCEPT ![a] = "cmds"]
  /\ UNCHANGED <<rows, cmds, hostname, jrec, jtype, sched, nextId, day,
                 hostVars, childVars, rtodo, clientVars, crashes>>

RecoverCmds(a) ==
  /\ rpc[a] = "cmds"
  /\ \E j \in Ids :
       /\ Recovered(a, j) /\ ChangeJobCmds(j, "RUN")
       /\ rtodo' = IF RunOnRecordHost
                   THEN [rtodo EXCEPT ![a] = @ \ {j}] ELSE rtodo
  /\ rpc' = [rpc EXCEPT ![a] = IF RunOnRecordHost THEN "status" ELSE "host"]
  /\ UNCHANGED <<rows, status, hostname, jrec, jtype, sched, nextId, day,
                 hostVars, childVars, clientVars, crashes>>

\* ChangeJobHost(j, ""): unconditional.
RecoverHost(a) ==
  /\ rpc[a] = "host"
  /\ \E j \in Ids :
       /\ Recovered(a, j)
       /\ hostname' = IF j \in rows THEN [hostname EXCEPT ![j] = NoHost]
                                    ELSE hostname
       /\ rtodo' = [rtodo EXCEPT ![a] = @ \ {j}]
  /\ rpc' = [rpc EXCEPT ![a] = "status"]
  /\ UNCHANGED <<rows, status, cmds, jrec, jtype, sched, nextId, day, hostVars,
                 childVars, clientVars, crashes>>

RecoverDone(a) ==
  /\ rpc[a] = "status" /\ rtodo[a] = {}
  /\ rpc' = [rpc EXCEPT ![a] = "off"]
  /\ hpc' = IF a \in Hosts THEN [hpc EXCEPT ![a] = "idle"] ELSE hpc
  /\ UNCHANGED <<tableVars, day, todo, job, window, jobStatus,
                 startedJobAlready, childVars, rtodo, clientVars, crashes>>

\* The local variables of a pass have their initial values between passes.
PassVarsReset(h) ==
  /\ window' = [window EXCEPT ![h] = TRUE]
  /\ jobStatus' = [jobStatus EXCEPT ![h] = {}]
  /\ startedJobAlready' = [startedJobAlready EXCEPT ![h] = FALSE]

\* The JobQueue of a host starts.
Start(h) ==
  /\ hpc[h] = "down"
  /\ hpc' = [hpc EXCEPT ![h] = "recover"]
  /\ rpc' = [rpc EXCEPT ![h] = "select"]
  /\ UNCHANGED <<tableVars, day, todo, job, window, jobStatus,
                 startedJobAlready, childVars, rtodo, clientVars, crashes>>

\* RecoverOldJobsInQueue.
RecoverOld ==
  /\ "RecoverOld" \in Ops /\ rpc[Housekeeper] = "off" /\ ncmds < MaxCmds
  /\ ncmds' = ncmds + 1
  /\ rpc' = [rpc EXCEPT ![Housekeeper] = "select"]
  /\ UNCHANGED <<tableVars, day, hostVars, childVars, rtodo, upc, uid, ukey,
                 crashes>>

\* The backend of a host dies, and with it the programs it runs.
Crash(h) ==
  /\ hpc[h] # "down" /\ crashes < MaxCrashes
  /\ crashes' = crashes + 1
  /\ hpc' = [hpc EXCEPT ![h] = "down"]
  /\ todo' = [todo EXCEPT ![h] = {}] /\ job' = [job EXCEPT ![h] = NoEntry]
  /\ running' = [running EXCEPT ![h] = {}]
  /\ freed' = [freed EXCEPT ![h] = {}]
  /\ flag' = [flag EXCEPT ![h] = [j \in Ids |-> "RUN"]]
  /\ cpc' = [t \in Threads |-> IF t[1] = h THEN "none" ELSE cpc[t]]
  /\ result' = [t \in Threads |-> IF t[1] = h THEN "OK" ELSE result[t]]
  /\ retrylimit' = [t \in Threads |->
                      IF t[1] = h THEN RetryLimit ELSE retrylimit[t]]
  /\ PassVarsReset(h)
  /\ rpc' = [rpc EXCEPT ![h] = "off"] /\ rtodo' = [rtodo EXCEPT ![h] = {}]
  /\ UNCHANGED <<tableVars, day, clientVars>>

-----------------------------------------------------------------------------
(* ProcessQueue *)

\* One pass starts with a snapshot.  When the snapshot shows MaxJobs jobs of
\* this host under way the pass is over at once.
Counted == {"RUNNING", "STARTING", "PAUSED"}

JobsRunning(h) ==
  Cardinality({e \in GetJobsInQueue : e.status \in Counted /\ e.host = h})

StartPass(h) ==
  /\ hpc[h] = "idle"
  /\ todo' = [todo EXCEPT ![h] =
                IF JobsRunning(h) < MaxJobs THEN GetJobsInQueue ELSE {}]
  /\ \E w \in Windows : window' = [window EXCEPT ![h] = w]
  /\ hpc' = [hpc EXCEPT ![h] = "scan"]
  /\ UNCHANGED <<tableVars, day, job, jobStatus, startedJobAlready, childVars,
                 recVars, clientVars, crashes>>

EndPass(h) ==
  /\ hpc[h] = "scan" /\ todo[h] = {}
  /\ hpc' = [hpc EXCEPT ![h] = "idle"]
  /\ PassVarsReset(h)
  /\ UNCHANGED <<tableVars, day, todo, job, childVars, recVars, clientVars,
                 crashes>>

\* "Should we even be looking at this job?"
Remote(h, e) == window[h] /\ e.host \notin {NoHost, h}

\* GetRunningJobID: the first entry of m_runningJobs for the recording.  What
\* a deleted pginfo compares equal to is anybody's guess (seem).
GetRunningJobID(h, r, seem) ==
  LET of == {o \in running[h] \ freed[h] : jrec[o] = r} \cup seem
  IN  {o \in of : \A k \in of : o <= k}

OtherJobRunning(h, e, seem) ==
  window[h] /\ GetRunningJobID(h, jrec[e.id], seem) \cap jobStatus[h] # {}

AllowedToRun(h, e) == <<h, jtype[e.id]>> \notin NotAllowed

\* The entry may be acted on; the checks above it in the loop have passed.
Considered(h, e, seem) ==
  /\ ~Remote(h, e)
  /\ ~OtherJobRunning(h, e, seem)
  /\ window[h] => AllowedToRun(h, e)
  /\ sched[e.id] <= day

Stops(e)   == e.cmds = "STOP" /\ e.status # "QUEUED"
Cancels(e) == e.cmds = "STOP" /\ e.status = "QUEUED"
Changes(e) == e.cmds \in {"PAUSE", "RESTART"} /\ e.status # "QUEUED"
Resets(e)  == /\ e.status # "QUEUED" /\ e.host = NoHost
              /\ e.cmds \notin {"STOP", "PAUSE", "RESTART"}
Starts_Again(h, e) == e.status = "QUEUED" /\ e.cmds # "STOP" /\ window[h]
Starts(h, e) ==
  e.status = "QUEUED" /\ e.cmds # "STOP" /\ ~startedJobAlready[h] /\ window[h]

\* The loop takes the next entry e of the snapshot.
Takes(h, e) ==
  /\ hpc[h] = "scan"
  /\ e \in todo[h] /\ \A f \in todo[h] : Before(e.id, f.id)
  /\ todo' = [todo EXCEPT ![h] = @ \ {e}]

\* Whether e gets into jobStatus, which is what blocks later jobs.
Noted(h, e, seem) ==
  jobStatus' = [jobStatus EXCEPT ![h] =
                  IF ~Remote(h, e) /\ OtherJobRunning(h, e, seem)
                  THEN @ ELSE @ \cup {e.id}]

\* Nothing to do for this entry.
Skip(h) ==
  \E e \in todo[h], seem \in SUBSET freed[h] :
    /\ Takes(h, e) /\ Noted(h, e, seem)
    /\ \/ ~Considered(h, e, seem)
       \/ ~(Stops(e) \/ Cancels(e) \/ Changes(e) \/ Resets(e) \/ Starts(h, e))
    /\ UNCHANGED <<tableVars, day, hpc, job, window, startedJobAlready,
                   childVars, recVars, clientVars, crashes>>

\* A job that is not queued is to stop: its flag is set.
StopRunning(h) ==
  \E e \in todo[h], seem \in SUBSET freed[h] :
    /\ Takes(h, e) /\ Noted(h, e, seem)
    /\ Considered(h, e, seem) /\ Stops(e)
    /\ flag' = IF e.id \in running[h]
               THEN [flag EXCEPT ![h][e.id] = "STOP"] ELSE flag
    /\ UNCHANGED <<tableVars, day, hpc, job, window, startedJobAlready,
                   running, freed, cpc, result, retrylimit, recVars,
                   clientVars, crashes>>

\* It is to pause or to restart: the flag is set and the command erased.
ChangeRunning(h) ==
  \E e \in todo[h], seem \in SUBSET freed[h] :
    /\ Takes(h, e) /\ Noted(h, e, seem)
    /\ Considered(h, e, seem) /\ Changes(e)
    /\ flag' = IF e.id \in running[h]
               THEN [flag EXCEPT ![h][e.id] =
                       IF e.cmds = "PAUSE" THEN "PAUSE" ELSE "RUN"]
               ELSE flag
    /\ ChangeJobCmds(e.id, "RUN")
    /\ UNCHANGED <<rows, status, hostname, jrec, jtype, sched, nextId, day,
                   hpc, job, window, startedJobAlready, running, freed, cpc,
                   result, retrylimit, recVars, clientVars, crashes>>

\* A queued job is to be cancelled: claim it ...
ClaimToCancel_NoClaim(h) ==
  \E e \in todo[h], seem \in SUBSET freed[h] :
    /\ Takes(h, e) /\ Noted(h, e, seem)
    /\ Considered(h, e, seem) /\ Cancels(e)
    /\ hpc' = [hpc EXCEPT ![h] = "cancel"] /\ job' = [job EXCEPT ![h] = e]
    /\ UNCHANGED <<tableVars, day, window, startedJobAlready, childVars,
                   recVars, clientVars, crashes>>

ClaimToCancel(h) ==
  \E e \in todo[h], seem \in SUBSET freed[h] :
    /\ Takes(h, e) /\ Noted(h, e, seem)
    /\ Considered(h, e, seem) /\ Cancels(e)
    /\ IF ChangeJobHost(e.id)
       THEN /\ hostname' = [hostname EXCEPT ![e.id] = h]
            /\ hpc' = [hpc EXCEPT ![h] = "cancel"]
            /\ job' = [job EXCEPT ![h] = e]
       ELSE UNCHANGED <<hostname, hpc, job>>
    /\ UNCHANGED <<rows, status, cmds, jrec, jtype, sched, nextId, day, window,
                   startedJobAlready, childVars, recVars, clientVars, crashes>>

\* ... set its status ...
Cancel(h) ==
  /\ hpc[h] = "cancel"
  /\ ChangeJobStatus(job[h].id, "CANCELLED")
  /\ hpc' = [hpc EXCEPT ![h] = "clearCmds"]
  /\ UNCHANGED <<rows, cmds, hostname, jrec, jtype, sched, nextId, day, todo,
                 job, window, jobStatus, startedJobAlready, childVars, recVars,
                 clientVars, crashes>>

\* ... and erase the command.
ClearCmds(h) ==
  /\ hpc[h] = "clearCmds"
  /\ ChangeJobCmds(job[h].id, "RUN")
  /\ hpc' = [hpc EXCEPT ![h] = "scan"] /\ job' = [job EXCEPT ![h] = NoEntry]
  /\ UNCHANGED <<rows, status, hostname, jrec, jtype, sched, nextId, day, todo,
                 window, jobStatus, startedJobAlready, childVars, recVars,
                 clientVars, crashes>>

\* A job that is not queued and has no host is queued again.
Reset(h) ==
  \E e \in todo[h], seem \in SUBSET freed[h] :
    /\ Takes(h, e) /\ Noted(h, e, seem)
    /\ Considered(h, e, seem) /\ Resets(e)
    /\ ChangeJobStatus(e.id, "QUEUED")
    /\ hpc' = [hpc EXCEPT ![h] = "clearCmds"]
    /\ job' = [job EXCEPT ![h] = e]
    /\ UNCHANGED <<rows, cmds, hostname, jrec, jtype, sched, nextId, day,
                   window, startedJobAlready, childVars, recVars, clientVars,
                   crashes>>

\* A queued job is claimed, unless it has been queued for this host.
NeedsClaim_Always(e) == TRUE
NeedsClaim(e) == e.host = NoHost

Claim(h) ==
  \E e \in todo[h], seem \in SUBSET freed[h] :
    /\ Takes(h, e) /\ Noted(h, e, seem)
    /\ Considered(h, e, seem) /\ Starts(h, e)
    /\ IF NeedsClaim(e) => ChangeJobHost(e.id)
       THEN /\ hostname' = IF NeedsClaim(e)
                           THEN [hostname EXCEPT ![e.id] = h] ELSE hostname
            /\ hpc' = [hpc EXCEPT ![h] = "process"]
            /\ job' = [job EXCEPT ![h] = e]
       ELSE UNCHANGED <<hostname, hpc, job>>
    /\ UNCHANGED <<rows, status, cmds, jrec, jtype, sched, nextId, day, window,
                   startedJobAlready, childVars, recVars, clientVars, crashes>>

(* ProcessJob *)

\* Without a database connection the job stays claimed and queued.
NoDb(h) ==
  /\ hpc[h] = "process" /\ DbMayFail
  /\ startedJobAlready' = [startedJobAlready EXCEPT ![h] = TRUE]
  /\ hpc' = [hpc EXCEPT ![h] = "scan"] /\ job' = [job EXCEPT ![h] = NoEntry]
  /\ UNCHANGED <<tableVars, day, todo, window, jobStatus, childVars, recVars,
                 clientVars, crashes>>

Pending(h) ==
  /\ hpc[h] = "process"
  /\ ChangeJobStatus(job[h].id, "PENDING")
  /\ hpc' = [hpc EXCEPT ![h] = "launch"]
  /\ UNCHANGED <<rows, cmds, hostname, jrec, jtype, sched, nextId, day, todo,
                 job, window, jobStatus, startedJobAlready, childVars, recVars,
                 clientVars, crashes>>

\* ProcessJob ends with status s.
Processed(h, s) ==
  /\ hpc[h] = "launch"
  /\ ChangeJobStatus(job[h].id, s)
  /\ startedJobAlready' = [startedJobAlready EXCEPT ![h] = TRUE]
  /\ hpc' = [hpc EXCEPT ![h] = "scan"] /\ job' = [job EXCEPT ![h] = NoEntry]
  /\ UNCHANGED <<rows, cmds, hostname, jrec, jtype, sched, nextId, day, todo,
                 window, jobStatus, result, recVars, clientVars, crashes>>

\* The recording is not in the database,
NoProgramInfo(h) ==
  /\ "missing" \in Fates /\ Processed(h, "ERRORED")
  /\ UNCHANGED <<running, freed, flag, cpc, retrylimit>>

\* or it has been moved to the recording group Deleted,
DeletedProgram(h) ==
  /\ "deleted" \in Fates /\ Processed(h, "CANCELLED")
  /\ running' = [running EXCEPT ![h] = @ \ {job[h].id}]
  /\ freed' = [freed EXCEPT ![h] = @ \ {job[h].id}]
  /\ flag' = [flag EXCEPT ![h][job[h].id] = "RUN"]
  /\ UNCHANGED <<cpc, retrylimit>>

\* or the job gets a thread.
StartChildJob(h) ==
  LET j == job[h].id IN
  /\ "found" \in Fates /\ Processed(h, "STARTING")
  /\ running' = [running EXCEPT ![h] = @ \cup {j}]
  /\ freed' = [freed EXCEPT ![h] = @ \ {j}]
  /\ flag' = [flag EXCEPT ![h][j] = "RUN"]
  /\ \E n \in Copies :
       /\ cpc[<<h, j, n>>] = "none"
       /\ \A m \in 1 .. n - 1 : cpc[<<h, j, m>>] # "none"
       /\ cpc' = [cpc EXCEPT ![<<h, j, n>>] = "init"]
  /\ UNCHANGED retrylimit

-----------------------------------------------------------------------------
(* The threads of jobs and the programs they run.                          *)

\* Thread t, or its program, goes on at pc, without or with a new status for
\* its job.  A status that is read right before one is written is read here.
QuietStep(t, from, pc) ==
  /\ cpc[t] = from /\ cpc' = [cpc EXCEPT ![t] = pc]
  /\ UNCHANGED <<tableVars, day, hostVars, recVars, clientVars, crashes>>

ChildStep(t, from, s, pc) ==
  /\ cpc[t] = from /\ cpc' = [cpc EXCEPT ![t] = pc]
  /\ ChangeJobStatus(t[2], s)
  /\ UNCHANGED <<rows, cmds, hostname, jrec, jtype, sched, nextId, day,
                 hostVars, recVars, clientVars, crashes>>

GetJobStatus(j) == IF j \in rows THEN status[j] ELSE "UNKNOWN"
GetJobCmd(j) == IF j \in rows THEN cmds[j] ELSE "RUN"

\* RemoveRunningJob by thread t, which ends with it.
Removed(t) ==
  /\ running' = [running EXCEPT ![t[1]] = @ \ {t[2]}]
  /\ freed' = [freed EXCEPT ![t[1]] = @ \ {t[2]}]
  /\ flag' = [flag EXCEPT ![t[1]][t[2]] = "RUN"]
  /\ result' = [result EXCEPT ![t] = "OK"]
  /\ retrylimit' = [retrylimit EXCEPT ![t] = RetryLimit]

\* DoTranscodeThread and DoUserJobThread begin.  When an earlier thread of the
\* job has removed the entry, looking it up makes one without a pginfo.
ThreadRunning(t) ==
  /\ \/ /\ jtype[t[2]] = "transcode" /\ t[2] \in running[t[1]]
        /\ ChildStep(t, "init", "RUNNING", "start")
     \/ jtype[t[2]] = "user" /\ ChildStep(t, "init", "RUNNING", "prog")
  /\ running' = [running EXCEPT ![t[1]] = @ \cup {t[2]}]
  /\ freed' = IF t[2] \in running[t[1]] THEN freed
              ELSE [freed EXCEPT ![t[1]] = @ \cup {t[2]}]
  /\ UNCHANGED <<flag, result, retrylimit>>

\* The other threads do not go on without a pginfo.
NoPginfo(t) ==
  /\ jtype[t[2]] # "user" /\ t[2] \notin running[t[1]]
  /\ ChildStep(t, "init", "ERRORED", "none")
  /\ Removed(t)

\* DoTranscodeThread starts the program, for the first time or again.
TranscodeStarting(t) ==
  /\ ChildStep(t, "start", "STARTING", "prog")
  /\ UNCHANGED <<running, freed, flag, result, retrylimit>>

\* DoFlagCommercialsThread and DoMetadataLookupThread begin ...
FlagStarting(t) ==
  /\ jtype[t[2]] = "flag" /\ t[2] \in running[t[1]]
  /\ QuietStep(t, "init", "prog")
  /\ UNCHANGED <<running, freed, flag, result, retrylimit>>

\* ... or give up, and delete pginfo but not the entry that points to it.
FlagNoDb_GoesOn(t) ==
  /\ DbMayFail /\ jtype[t[2]] = "flag" /\ t[2] \in running[t[1]]
  /\ ChildStep(t, "init", "ERRORED", "prog")
  /\ freed' = [freed EXCEPT ![t[1]] = @ \cup {t[2]}]
  /\ UNCHANGED <<running, flag, result, retrylimit>>

FlagNoDb(t) ==
  /\ DbMayFail /\ jtype[t[2]] = "flag" /\ t[2] \in running[t[1]]
  /\ ChildStep(t, "init", "ERRORED", "none")
  /\ freed' = [freed EXCEPT ![t[1]] = @ \cup {t[2]}]
  /\ UNCHANGED <<running, flag, result, retrylimit>>

\* The program is not there, or ends before it has done anything: it looks
\* its job up, which may be gone.
ProgramFails(t) ==
  /\ QuietStep(t, "prog", "exit")
  /\ \E r \in {"NOTFOUND", "ERROR"} :
       /\ \/ r \in Results
          \/ r = "ERROR" /\ t[2] \notin rows /\ jtype[t[2]] # "user"
       /\ result' = [result EXCEPT ![t] = r]
  /\ UNCHANGED <<running, freed, flag, retrylimit>>

\* A user's program runs and ends, and knows nothing of the queue.
UserProgram(t) ==
  /\ jtype[t[2]] = "user"
  /\ QuietStep(t, "prog", "exit")
  /\ \E r \in Results \cap {"OK", "ERROR"} : result' = [result EXCEPT ![t] = r]
  /\ UNCHANGED <<running, freed, flag, retrylimit>>

\* mythtranscode and mythcommflag say that they run.
ProgramRunning(t) ==
  /\ jtype[t[2]] # "user"
  /\ ChildStep(t, "prog", "RUNNING", "work")
  /\ UNCHANGED <<running, freed, flag, result, retrylimit>>

\* commDetectorBreathe.
ProgramBreathe(t) ==
  /\ jtype[t[2]] = "flag"
  /\ \/ GetJobCmd(t[2]) = "PAUSE" /\ ChildStep(t, "work", "PAUSED", "work")
     \/ GetJobCmd(t[2]) = "RESUME" /\ ChildStep(t, "work", "RUNNING", "work")
  /\ UNCHANGED <<running, freed, flag, result, retrylimit>>

\* mythcommflag ends, because it is done, was stopped or failed.
FlagProgramEnds(t) ==
  /\ jtype[t[2]] = "flag"
  /\ \E r \in Results \cap {"OK", "ERROR"} :
       /\ ChildStep(t, "work", IF r = "OK" THEN "FINISHED" ELSE "ERRORED",
                    "exit")
       /\ result' = [result EXCEPT ![t] = r]
  /\ UNCHANGED <<running, freed, flag, retrylimit>>

\* mythtranscode has the result of its work.
TranscodeResult(t) ==
  /\ jtype[t[2]] = "transcode"
  /\ \E o \in {<<"OK", "STOPPING">>, <<"RESTART", "RETRY">>,
               <<"STOPPED", "ABORTING">>, <<"ERROR", "ERRORING">>} :
       /\ IF o[1] = "STOPPED" THEN GetJobCmd(t[2]) = "STOP" ELSE o[1] \in Results
       /\ ChildStep(t, "work", o[2], "complete")
       /\ result' = [result EXCEPT ![t] = o[1]]
  /\ UNCHANGED <<running, freed, flag, retrylimit>>

\* CompleteJob; a failure is told by the status that is in the table.
CompleteJob(t) ==
  LET s == GetJobStatus(t[2]) IN
  /\ IF result[t] = "OK"
     THEN ChildStep(t, "complete", "FINISHED", "exit") /\ UNCHANGED result
     ELSE IF s \in {"ABORTING", "ERRORING"}
     THEN /\ ChildStep(t, "complete",
                       IF s = "ABORTING" THEN "ABORTED" ELSE "ERRORED", "exit")
          /\ UNCHANGED result
     ELSE /\ QuietStep(t, "complete", "exit")
          /\ result' = [result EXCEPT ![t] = "RESTART"]
  /\ UNCHANGED <<running, freed, flag, retrylimit>>

\* DoTranscodeThread when its program asks to be restarted, and may be,
MayRetry_Always(t) == result[t] = "RESTART"
MayRetry(t) == result[t] = "RESTART" /\ retrylimit[t] > 0

TranscodeRetry(t) ==
  /\ jtype[t[2]] = "transcode" /\ MayRetry(t)
  /\ QuietStep(t, "exit", "start")
  /\ retrylimit' = [retrylimit EXCEPT ![t] = @ - 1]
  /\ UNCHANGED <<running, freed, flag, result>>

\* and when it has ended for good.
TranscodeExit(t) ==
  /\ jtype[t[2]] = "transcode" /\ ~MayRetry(t)
  /\ ChildStep(t, "exit",
               IF result[t] # "NOTFOUND" /\ GetJobStatus(t[2]) = "FINISHED"
               THEN "FINISHED" ELSE "ERRORED",
               IF retrylimit[t] = 0 THEN "limit" ELSE "remove")
  /\ UNCHANGED <<running, freed, flag, result, retrylimit>>

\* "Retry limit exceeded"
TranscodeLimit(t) ==
  /\ ChildStep(t, "limit", "ERRORED", "remove")
  /\ UNCHANGED <<running, freed, flag, result, retrylimit>>

\* The end of DoFlagCommercialsThread and DoMetadataLookupThread, under the
\* lock of m_runningJobs.
FlagExit(t) ==
  /\ jtype[t[2]] = "flag"
  /\ ChildStep(t, "exit",
       IF result[t] = "NOTFOUND" THEN "ERRORED"
       ELSE IF t[2] \in running[t[1]] /\ flag[t[1]][t[2]] = "STOP"
       THEN "ABORTED"
       ELSE IF result[t] = "ERROR" THEN "ERRORED" ELSE "FINISHED", "none")
  /\ Removed(t)

\* DoUserJobThread after its program.
UserExit_NoStatus(t) ==
  /\ jtype[t[2]] = "user"
  /\ QuietStep(t, "exit", "remove")
  /\ UNCHANGED <<running, freed, flag, result, retrylimit>>

UserExit(t) ==
  /\ jtype[t[2]] = "user"
  /\ ChildStep(t, "exit", IF result[t] = "OK" THEN "FINISHED" ELSE "ERRORED",
               "remove")
  /\ UNCHANGED <<running, freed, flag, result, retrylimit>>

RemoveRunningJob(t) ==
  /\ QuietStep(t, "remove", "none")
  /\ Removed(t)

ThreadStep(t) ==
  \/ ThreadRunning(t) \/ NoPginfo(t)
  \/ TranscodeStarting(t) \/ FlagStarting(t) \/ FlagNoDb(t)
  \/ ProgramFails(t) \/ UserProgram(t) \/ ProgramRunning(t)
  \/ ProgramBreathe(t) \/ FlagProgramEnds(t) \/ TranscodeResult(t)
  \/ CompleteJob(t) \/ TranscodeRetry(t) \/ TranscodeExit(t)
  \/ TranscodeLimit(t) \/ FlagExit(t) \/ UserExit(t) \/ RemoveRunningJob(t)

-----------------------------------------------------------------------------
(* Users, frontends and housekeeping *)

\* QueueJob looks for a job of the same type for the recording.  Nothing is
\* queued while one runs; one that does not is deleted first.
QueueJobSelect(c) ==
  \E r \in Recordings, ty \in Types :
    LET same == {j \in rows : jrec[j] = r /\ jtype[j] = ty} IN
    /\ "QueueJob" \in Ops /\ upc[c] = "idle" /\ nextId <= MaxIds
    /\ ukey' = [ukey EXCEPT ![c] = <<r, ty>>]
    /\ \/ /\ same = {}
          /\ upc' = [upc EXCEPT ![c] = "insert"] /\ UNCHANGED uid
       \/ \E j \in same :
            /\ status[j] \notin {"STARTING", "RUNNING", "PAUSED", "STOPPING",
                                "ERRORING", "ABORTING"}
            /\ upc' = [upc EXCEPT ![c] =
                         IF status[j] \notin Done /\ cmds[j] = "STOP"
                         THEN "delete" ELSE "replace"]
            /\ uid' = [uid EXCEPT ![c] = j]
    /\ UNCHANGED <<tableVars, day, hostVars, childVars, recVars, ncmds, crashes>>

\* DeleteJob, of QueueJob or confirmed by a user.
DeleteJob(c) ==
  /\ upc[c] \in {"delete", "replace"}
  /\ rows' = rows \ {uid[c]}
  /\ upc' = [upc EXCEPT ![c] = IF @ = "replace" THEN "insert" ELSE "idle"]
  /\ uid' = [uid EXCEPT ![c] = 0]
  /\ UNCHANGED <<status, cmds, hostname, jrec, jtype, sched, nextId, day,
                 hostVars, childVars, recVars, ukey, ncmds, crashes>>

\* The INSERT.  The unique key (chanid, starttime, type, inserttime) makes it
\* fail when somebody else inserted the same job in the same second.
Inserted(c) ==
  LET j == nextId IN
  /\ nextId <= MaxIds /\ nextId' = nextId + 1
  /\ rows' = rows \cup {j}
  /\ status' = [status EXCEPT ![j] = "QUEUED"]
  /\ cmds' = [cmds EXCEPT ![j] = "RUN"]
  /\ \E q \in QueueHosts : hostname' = [hostname EXCEPT ![j] = q]
  /\ \E d \in Delays : sched' = [sched EXCEPT ![j] = d]
  /\ jrec' = [jrec EXCEPT ![j] = ukey[c][1]]
  /\ jtype' = [jtype EXCEPT ![j] = ukey[c][2]]

QueueJobInsert(c) ==
  /\ upc[c] = "insert" /\ upc' = [upc EXCEPT ![c] = "idle"]
  /\ \/ Inserted(c)
     \/ /\ \E k \in rows : <<jrec[k], jtype[k]>> = ukey[c]
        /\ UNCHANGED tableVars
  /\ UNCHANGED <<day, hostVars, childVars, recVars, uid, ukey, ncmds, crashes>>

\* The status page offers to delete a queued job and to requeue one that is
\* done; the answer comes later.
Offer(c) ==
  /\ upc[c] = "idle" /\ ncmds < MaxCmds /\ ncmds' = ncmds + 1
  /\ \E j \in rows :
       /\ \/ /\ "DeleteJob" \in Ops /\ status[j] = "QUEUED"
             /\ upc' = [upc EXCEPT ![c] = "delete"]
          \/ /\ "Requeue" \in Ops /\ status[j] \in Done
             /\ upc' = [upc EXCEPT ![c] = "requeue"]
       /\ uid' = [uid EXCEPT ![c] = j]
  /\ UNCHANGED <<tableVars, day, hostVars, childVars, recVars, ukey, crashes>>

Requeue(c) ==
  /\ upc[c] = "requeue" /\ upc' = [upc EXCEPT ![c] = "idle"]
  /\ ChangeJobStatus(uid[c], "QUEUED") /\ uid' = [uid EXCEPT ![c] = 0]
  /\ UNCHANGED <<rows, cmds, hostname, jrec, jtype, sched, nextId, day,
                 hostVars, childVars, recVars, ukey, ncmds, crashes>>

\* PauseJob, ResumeJob, RestartJob and StopJob, or ChangeJobCmds by recording.
\* Only STOP is offered for a queued job.
UserCommand ==
  /\ ncmds < MaxCmds /\ ncmds' = ncmds + 1
  /\ \E j \in rows, c \in Cmds :
       /\ c = "STOP" \/ status[j] # "QUEUED"
       /\ ChangeJobCmds(j, c)
  /\ UNCHANGED <<rows, status, hostname, jrec, jtype, sched, nextId, day,
                 hostVars, childVars, recVars, upc, uid, ukey, crashes>>

JobsOf(c) == {j \in rows : jrec[j] = ukey[c][1]}

\* DeleteAllJobs, when a recording is deleted: cancel what is queued, ...
DeleteAllJobs(c) ==
  \E k \in Recordings \X Types :
    /\ "DeleteAllJobs" \in Ops /\ upc[c] = "idle"
    /\ ncmds < MaxCmds /\ ncmds' = ncmds + 1
    /\ status' = [j \in Ids |->
                    IF j \in rows /\ jrec[j] = k[1] /\ status[j] = "QUEUED"
                    THEN "CANCELLED" ELSE status[j]]
    /\ upc' = [upc EXCEPT ![c] = "stopAll"] /\ ukey' = [ukey EXCEPT ![c] = k]
    /\ UNCHANGED <<rows, cmds, hostname, jrec, jtype, sched, nextId, day,
                   hostVars, childVars, recVars, uid, crashes>>

\* ... stop the others, ...
StopAll(c) ==
  /\ upc[c] = "stopAll" /\ upc' = [upc EXCEPT ![c] = "wait"]
  /\ cmds' = [j \in Ids |->
                IF j \in JobsOf(c) /\ status[j] # "CANCELLED"
                THEN "STOP" ELSE cmds[j]]
  /\ UNCHANGED <<rows, status, hostname, jrec, jtype, sched, nextId, day,
                 hostVars, childVars, recVars, uid, ukey, ncmds, crashes>>

\* ... wait until they are done, or for 90 seconds, ...
WaitAll(c, done) ==
  /\ upc[c] = "wait" /\ upc' = [upc EXCEPT ![c] = "deleteAll"]
  /\ done = (\A j \in JobsOf(c) : status[j] \in Done)
  /\ UNCHANGED <<tableVars, day, hostVars, childVars, recVars, uid, ukey, ncmds,
                 crashes>>

\* ... and delete all, in either case.
DeleteAll(c) ==
  /\ upc[c] = "deleteAll" /\ upc' = [upc EXCEPT ![c] = "idle"]
  /\ rows' = rows \ JobsOf(c)
  /\ UNCHANGED <<status, cmds, hostname, jrec, jtype, sched, nextId, day,
                 hostVars, childVars, recVars, uid, ukey, ncmds, crashes>>

\* CleanupOldJobsInQueue deletes jobs that have been done for days.
CleanupOldJobsInQueue ==
  /\ "Cleanup" \in Ops /\ ncmds < MaxCmds /\ ncmds' = ncmds + 1
  /\ \E old \in SUBSET {j \in rows : status[j] \in Done} :
       old # {} /\ rows' = rows \ old
  /\ UNCHANGED <<status, cmds, hostname, jrec, jtype, sched, nextId, day,
                 hostVars, childVars, recVars, upc, uid, ukey, crashes>>

\* The day comes that jobs have been scheduled for.
Tick ==
  /\ day = 0 /\ 1 \in Delays /\ day' = 1
  /\ UNCHANGED <<tableVars, hostVars, childVars, recVars, clientVars, crashes>>

-----------------------------------------------------------------------------

Recovery(a) ==
  RecoverSelect(a) \/ RecoverStatus(a) \/ RecoverCmds(a) \/ RecoverHost(a)
  \/ RecoverDone(a)

HostStep(h) ==
  \/ Start(h) \/ StartPass(h) \/ EndPass(h) \/ Skip(h) \/ StopRunning(h)
  \/ ChangeRunning(h) \/ ClaimToCancel(h) \/ Cancel(h) \/ ClearCmds(h)
  \/ Reset(h) \/ Claim(h) \/ NoDb(h) \/ Pending(h) \/ NoProgramInfo(h)
  \/ DeletedProgram(h) \/ StartChildJob(h)

ClientStep(c) ==
  \/ DeleteJob(c) \/ QueueJobInsert(c) \/ StopAll(c) \/ WaitAll(c, TRUE)
  \/ DeleteAll(c)

Next ==
  \/ \E h \in Hosts : HostStep(h) \/ Crash(h)
  \/ \E a \in Recoverers : Recovery(a)
  \/ \E t \in Threads : ThreadStep(t)
  \/ \E c \in Clients : \/ QueueJobSelect(c) \/ Offer(c) \/ Requeue(c)
                         \/ DeleteAllJobs(c) \/ WaitAll(c, FALSE)
                         \/ ClientStep(c)
  \/ RecoverOld \/ UserCommand \/ CleanupOldJobsInQueue \/ Tick

Spec == Init /\ [][Next]_vars

\* Backends run, and are started again after a crash; every program ends;
\* users may stop in the middle of what they do, and need not begin.
FairSpec ==
  /\ Spec
  /\ \A h \in Hosts : WF_vars(HostStep(h))
  /\ \A a \in Recoverers : WF_vars(Recovery(a))
  /\ \A t \in Threads : WF_vars(ThreadStep(t) /\ ~ProgramBreathe(t))
  /\ \A c \in Clients : WF_vars(ClientStep(c))
  /\ WF_vars(Tick)

-----------------------------------------------------------------------------
(* Properties *)

\* An operator X_Y is X with one slip in it: what a property would have to
\* notice.  No specification uses them.

Alive(h, j) == \E n \in Copies : cpc[<<h, j, n>>] # "none"

ThreadPcs == {"none", "init", "start", "prog", "work", "complete", "exit",
              "limit", "remove"}

Commands == {"RUN", "STOP"} \cup Cmds

Entries == [id : Ids, status : Statuses, cmds : Commands,
            host : Hosts \cup {NoHost}]

TableOK ==
  /\ rows \subseteq Ids /\ nextId \in 1 .. MaxIds + 1
  /\ \A j \in rows : j < nextId
  /\ status \in [Ids -> Statuses] /\ cmds \in [Ids -> Commands]
  /\ hostname \in [Ids -> Hosts \cup {NoHost}]
  /\ jrec \in [Ids -> Recordings] /\ jtype \in [Ids -> Types]
  /\ sched \in [Ids -> {0, 1}] /\ day \in {0, 1}

HostOK ==
  /\ hpc \in [Hosts -> {"down", "recover", "idle", "scan", "cancel",
                        "clearCmds", "process", "launch"}]
  /\ todo \in [Hosts -> SUBSET Entries]
  /\ job \in [Hosts -> Entries \cup {NoEntry}]
  /\ \A h \in Hosts : hpc[h] \in {"cancel", "clearCmds", "process", "launch"}
                        => job[h] \in Entries
  /\ window \in [Hosts -> BOOLEAN] /\ jobStatus \in [Hosts -> SUBSET Ids]
  /\ startedJobAlready \in [Hosts -> BOOLEAN]

ChildOK ==
  /\ running \in [Hosts -> SUBSET Ids] /\ freed \in [Hosts -> SUBSET Ids]
  /\ flag \in [Hosts -> [Ids -> {"RUN", "STOP", "PAUSE"}]]
  /\ cpc \in [Threads -> ThreadPcs]
  /\ result \in [Threads -> {"OK", "RESTART", "ERROR", "NOTFOUND", "STOPPED"}]
  /\ retrylimit \in [Threads -> 0 .. RetryLimit]

RecoverOK ==
  /\ rpc \in [Recoverers -> {"off", "select", "status", "cmds", "host"}]
  /\ rtodo \in [Recoverers -> SUBSET Ids]

ClientOK ==
  /\ upc \in [Clients -> {"idle", "insert", "delete", "replace", "requeue",
                          "stopAll", "wait", "deleteAll"}]
  /\ uid \in [Clients -> 0 .. MaxIds]
  /\ ukey \in [Clients -> Recordings \X Types]
  /\ ncmds \in 0 .. MaxCmds /\ crashes \in 0 .. MaxCrashes

\* All values are of their types.  Of retrylimit this says that mythtranscode
\* is not started more often than the limit allows.
TypeOK == TableOK /\ HostOK /\ ChildOK /\ RecoverOK /\ ClientOK

\* No job has threads on two hosts, whatever stale snapshots the hosts work
\* on, whoever crashes, and although nothing locks the table: the claim
\* (ChangeJobHost) is the only thing between them.
OneRunner ==
  \A j \in Ids, g, h \in Hosts : Alive(g, j) /\ Alive(h, j) => g = h

\* A job that is done stays done, unless a user requeues it: no thread, stale
\* snapshot or recovery brings it back.
DoneStays ==
  [][\A j \in rows \cap rows' : status[j] \in Done => status'[j] \in Done]_vars

\* The thread of a job has its entry in m_runningJobs, and the pginfo it works
\* with has not been deleted under it.
PginfoAlive ==
  \A h \in Hosts, j \in Ids : Alive(h, j) => j \in running[h] \ freed[h]

\* No host works on more jobs of the table than JobQueueMaxSimultaneousJobs.
Working(h) ==
  {j \in rows : \E n \in Copies :
                  cpc[<<h, j, n>>] \in {"prog", "work", "complete"}}

WithinMaxJobs == \A h \in Hosts : Cardinality(Working(h)) <= MaxJobs

\* Every job gets done, or is deleted.
JobsEnd ==
  \A j \in Ids : (j \in rows /\ status[j] \notin Done)
                   ~> (j \notin rows \/ status[j] \in Done)

\* A transcode that its program has reported as finished is not turned into an
\* error: the retry limit is for transcodes that would need one more run.
FinishedKept ==
  [][\A j \in rows \cap rows' :
       jtype[j] = "transcode" /\ status[j] = "FINISHED"
         => status'[j] # "ERRORED"]_vars

\* Who may touch a job: it has threads only on the host that its row names;
\* that host alone has claimed it, will start it without a claim, or recovers
\* it; and a host that recovers has no snapshot and no threads.
ThreadsOwned == \A t \in Threads : cpc[t] # "none" => hostname[t[2]] = t[1]

ClaimsOwned ==
  \A h \in Hosts : hpc[h] \in {"cancel", "process", "launch"}
                     => hostname[job[h].id] = h

SnapshotsOwned ==
  \A h \in Hosts : \A e \in todo[h] : e.host = h => hostname[e.id] = h

RecoveryOwned ==
  \A h \in Hosts :
    /\ \A j \in rtodo[h] : hostname[j] = h
    /\ hpc[h] # "recover" => rpc[h] = "off"
    /\ hpc[h] \in {"down", "recover"} =>
         todo[h] = {} /\ \A t \in Threads : t[1] = h => cpc[t] = "none"

Ownership == ThreadsOwned /\ ClaimsOwned /\ SnapshotsOwned /\ RecoveryOwned
=============================================================================
