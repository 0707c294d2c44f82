# TLA+ models of MythTV

This directory holds TLA+ specifications of parts of MythTV, the TLC
configurations that model-check them and proofs checked by TLAPS.  Line numbers
in this file refer to the source tree beside it.

## 1. The system

MythTV is a distributed digital video recorder.  A master backend, any number of
slave backends and any number of frontends share one SQL database; backends own
capture cards and disks, frontends play.  `mythtv/docs/doxygen-architecture-document.cpp`
names the libraries and the applications.

### Inventory

| Component | State it keeps | Operations | Talks to | What is hard | What makes it correct |
|---|---|---|---|---|---|
| **ThreadedFileWriter** (`libmythbase/threadedfilewriter.*`) | list of buffers, count of bytes, flags, descriptor, registration | Open, ReOpen, Write, Seek, Flush, SetBlocking, destructor; disk and sync threads | recorders, transcoder, file transfer; kernel; core context (files being written) | three threads under one lock that is released around `write(2)`; short writes and errors; timed and untimed waits | the stream reaches the file in order, once, at the right place; no loss without a cause; bounded memory; calls return |
| **JobQueue** (`libmythtv/jobqueue.*`) | table `jobqueue`; per host `m_runningJobs` and job threads | RecoverQueue, ProcessQueue, ProcessJob, job threads, QueueJob, DeleteJob, DeleteAllJobs, commands | database, `mythtranscode`, `mythcommflag`, frontends, HouseKeeper | several hosts on stale snapshots, no transactions, crashes, users who change rows | a job runs on one host only; done stays done; limits; every job ends |
| **Scheduler** (`mythbackend/scheduler.cpp`) | plan (`m_recList`), work list of matching showings on inputs, statuses and their backup, request queue | one scheduling pass (sort, first pass, retries, live TV, pruning), hand-over of due recordings, status updates, idle shutdown | TVRec through EncoderLink, database | a long chain of tentative moves and restores; the list is rebuilt while recordings start, fail or end | no tuner is booked twice; no program is recorded twice; making room loses nothing; importance decides; a due recording is started or marked failed |
| **TVRec** (`libmythtv/tv_rec.cpp`) | internal and desired state, flags, tuning requests, current and pending recording, chain, buffer, recorder | StartRecording, StopRecording, FinishRecording, SpawnLiveTV, StopLiveTV, SetChannel, SetLiveRecording, RecordPending; event loop | Scheduler, recorders, signal monitor, ring buffer, LiveTVChain | one lock that the event thread gives up in three places; calls that wait for it to sleep; every step of tuning can fail | marks and rows are let go of; the recorder writes the current recording; calls return; recordings end |
| **DeviceReadBuffer** (`recorders/DeviceReadBuffer.cpp`) | ring buffer with slack, pointers, fill level, pause, end and error flags | fill thread, Read, pause and unpause, Reset, Start, Stop | kernel device, recorder or stream handler | read(2) and the copy run without the lock; the consumer uses a fill level after the lock is released; Reset in between | what Read returns is what the device delivered, in order and once |
| **StreamHandler** (`recorders/streamhandler.cpp`) | listeners and reference counts, PID filters, thread state | AddListener, RemoveListener, Start, Stop | TVRec, EIT | last listener leaves while another arrives | the thread runs while anyone listens |
| **MythMediaBuffer** (`libmythtv/io`) | read-ahead buffer, positions, pause and stop flags | read-ahead thread, Read, Peek, Seek, Pause, Stop | player, remote file | seek against a read in progress; many conditions | bytes delivered are those of the file at the position |
| **LiveTVChain** (`libmythtv/livetvchain.cpp`) | list of programs, current position, switch target | AppendNewProgram, FinishedRecording, DeleteProgram, ReloadAll, SwitchTo | backend and frontend through table `tvchain` | the list changes between computing and using a position | a switch reaches the program meant |
| **AutoExpire** (`mythbackend/autoexpire.cpp`) | expire list, per file system needs | CalcParams, ExpireRecordings, ExpireLiveTV | database, MainServer | recordings become used between list and deletion | nothing in use is deleted; space gets free |
| **MainServer** (`mythbackend/mainserver.cpp`) | sockets, slaves, file transfers, deletion threads | protocol handlers, deletion, slave loss | everything | handlers in many threads, slaves that vanish | state of slaves agrees with Scheduler's |
| **MThreadPool** (`libmythbase/mthreadpool.cpp`) | running, available, to be deleted threads; queues of runnables; count of reserved threads | start, startReserved, tryStart, waitForDone, Stop, destruction | all | hand-over, expiry, reservation and shutdown race; joins under a lock | each runnable is run once; no thread is lost; calls return |
| **MDBManager** (`libmythbase/mythdbcon.cpp`) | connections per thread, in use counts | popConnection, pushConnection, purge | database | purge against use | a connection is used by one thread |
| **HouseKeeper** (`libmythbase/housekeeper.cpp`) | task list, last runs, threads | Run, queue, expiry | database | two hosts, one task | once per window |

Not considered for modelling: decoders and renderers, user interface, plugins,
guide data import, web services, vendored code.  `PROJECT.json` gives the reason
for each.

### Hazards

`PROJECT.json` lists under `hazards` what this code is exposed to and a test
hardly reaches, each at its line.  In short: for the file writer, the disk
thread works with the lock released while the client seeks, closes or destroys,
and a count is kept by hand beside the list it counts; for the device buffer, a
fill level outlives its lock; for the thread pool, hand-over and expiry race and
threads are joined under the lock they need; for the job queue, decisions are
made on old snapshots, SQL statements of different hosts interleave and hosts
die between two statements; for an input, teardown runs without the lock while
the next recording is made, and every step of tuning may fail half way; for a
scheduling pass, a long chain of tentative moves has to be undone completely.

Hazards that are known and not listed there: the writer's untimed wait
(threadedfilewriter.cpp:443), `errno` looked at after other calls (553), the
limit that SetBlocking changes without the lock (207); in the job queue the
limit of 90 s in DeleteAllJobs (jobqueue.cpp:823), stop followed by requeue
(347), the last allowed retry (2125), a row deleted by QueueJob (555); in the
scheduler the result of StartRecording that overwrites a newer status
(scheduler.cpp:2893), recordings that touch (1132).

## 2. Plan

Order: first what every recording depends on and what is most concurrent.

1. *(done)* `ThreadedFileWriter`: model, runs, proofs.
2. *(done)* `JobQueue`: model, runs, proofs.
3. *(done)* `DeviceReadBuffer` with the abstract queue `ByteFifo` that it
   implements.
4. *(done)* `MThreadPool`.
5. *(done)* `TVRec`: event thread, tuning requests, live TV, scheduled recordings.
6. *(done)* `SchedulerPlacement`: one pass of the scheduler.
7. *(done)* Proofs of every safety property of the writer, the job queue, the
   device buffer (with the step refinement of `ByteFifo`), the pool, the
   scheduling pass and the input.
8. Components still to model: the scheduler's main loop with HandleRecording
   and UpdateRecStatus, composed with what TVRec promises; `LiveTVChain`,
   `StreamHandler`, `MDBManager`, `HouseKeeper`, `MythMediaBuffer`, `AutoExpire`.

## 3. Modules

| Module | Contents |
|---|---|
| `ThreadedFileWriter` | state, actions, properties of the file writer |
| `ThreadedFileWriter_proofs` | its theorems |
| `JobQueue` | state, actions, properties of the job queue |
| `JobQueue_proofs` | its theorems about types and ownership |
| `JobQueueStatus_proofs` | its theorems about statuses, threads and limits |
| `ByteFifo` | what a buffer between device and recorder promises |
| `DeviceReadBuffer` | the ring buffer, which implements `ByteFifo` |
| `DeviceReadBuffer_proofs` | its theorems, the refinement included |
| `MThreadPool` | pool, its threads and its clients |
| `MThreadPool_proofs` | its theorems |
| `TVRec` | one input: event thread, recorder, clients |
| `TVRec_proofs` | its theorems about recorder, file and recordings |
| `TVRecOutcome_proofs` | its theorem about the outcome of recordings |
| `SchedulerPlacement` | one scheduling pass |
| `SchedulerPlacement_proofs` | its theorems |
| `MC...` | instances for TLC: model values, symmetry, the sample guide; one `.cfg` per run |

An operator named `X_Y` stands before an operator `X` and is `X` with one slip
in it.  No specification uses it; `PROJECT.json` (`mutants`) says which property
notices the slip.

### ThreadedFileWriter

*State.*  The members of the class keep their names (`m_writeBuffers`,
`m_totalBufferUse`, `m_ignoreWrites`, ...).  Bytes are numbered in the order
Write accepts them, so a buffer is a run `lo+1 .. hi` of numbers and a file is a
sequence of numbers.  `m_fd`, `offset` and `file` model the descriptor, the
kernel's file offset and the file.  `pc`, `dpc`, `spc` are the positions of the
client, the disk thread and the sync thread.  History variables record what was
accepted and for which position (`want`), what was written and lost, and three
facts that excuse a bad outcome: `dropped`, `disturbed`, `skipped`.

*Steps.*  One section of code under `m_bufLock` is one action; `write(2)` is an
action of its own because the lock is released around it; it may write any part
of what it is given (`WriteSome`) or fail (`WriteFails`), and whether the error is
still in `errno` when it is looked at again after relocking (line 553) is a
free choice.  `QWaitCondition` waits with a timeout end at any time; the one
without (443) ends only when woken.  Trimming of the empty buffers is part of
the action it follows in the code.  The client is one thread, as the class is
used; Open is done once, then calls follow in any order.

*Left out.*  The file named "-" (standard output), log messages and `m_warned`,
the wait of the constructor for its threads.

### JobQueue

*State.*  `rows`, `status`, `cmds`, `hostname`, `jrec`, `jtype`, `sched` are the
table; per host, `hpc`, `todo` (what is left of the snapshot), `job`, `window`,
`jobStatus`, `startedJobAlready` are the locals of ProcessQueue; `running`,
`freed`, `flag` are `m_runningJobs` (its keys, those whose `pginfo` is deleted or
null, the flag); `cpc`, `result`, `retrylimit` belong to the thread of a job or
the program it runs; `rpc`, `rtodo` are RecoverQueue; `upc`, `uid`, `ukey` are the
clients that queue, delete and requeue.

*Steps.*  One SQL statement is one action: the code uses no transactions.
What a thread does between statements is attached to one of them.  `ProcessJob`
reads, checks and starts under `m_runningJobsLock` and is one action after
PENDING; the end of the flagging and lookup threads is one action because the
code holds that lock from the status to the removal.  A status that a program
reads right before it writes one is read in the same step (`CompleteJob`,
`TranscodeExit`).  Flagging and metadata lookup have the same thread routine up
to wording, and are both the type "flag".  The status of programs is changed by
the programs themselves: `mythtranscode.cpp`, `mythcommflag.cpp`.
What a dangling `pginfo` compares equal to is a free choice (`seem`).
A crash kills a backend with its threads and programs and loses everything that
is not in the table.

*Left out.*  The event LOCAL_JOB (customEvent, 78-142), which nothing in the
repository sends; jobs without a recording, for which `pginfo` is null and
GetRunningJobID (1062) would dereference it; jobs of recordings in progress,
which GetJobsInQueue (1340) leaves out; preview jobs; programs that survive the
crash of their backend; `args`, `flags`, `comment`; failing SQL statements
other than the tested connections; the exit status 128 of mythcommflag, which
the program and the thread classify differently.

### DeviceReadBuffer and ByteFifo

*State.*  Members keep their names; pointers are offsets into the ring.  Bytes
are numbered as the device delivers them; `ring` holds the slack behind the end
too, into which read(2) may run.  `m_used` is a `size_t`, so it is counted modulo
`Width`.  `fpc`, `cpc` are the positions of the fill thread and of Read; `script`
is what the control thread still has to call.  `torn` records that a reset came
between the begin and the end of a Read.

*Steps.*  A section under the lock is one action.  read(2) and the copies in
Read are outside the lock and are actions of their own.  poll and the timed
waits end at any time.  `usage` tells who makes the control calls: in MpegRecorder
the thread that also reads (so never during a Read), in V4L2encStreamHandler any
thread.

*Refinement.*  `ImplementsFifo` is `ByteFifo!Spec` under the mapping at the end of
the module: the queue is the bytes between the pointers, without those that Read
has copied and not yet stepped over.  `ByteFifo` lets bytes out in order, each
once, and allows the buffer to be emptied; it promises nothing once `broken`.
`OwnControlNeverTears` says that MpegRecorder never gets there.

*Left out.*  The pipe that wakes poll (it only ends a wait early), statistics and
log messages, `m_maxPollWait`.

### MThreadPool

*State.*  The lists of threads, the queues (a list per priority, smaller numbers
first), the count of reserved threads, and per thread its flags and its runnable.
`holder` is the client that joins a thread with `m_lock` held; nobody who needs
the lock moves then.  `rstate` follows what became of a runnable.

*Steps.*  One section under `m_lock` is one action; the joins are actions of their
own.  A thread's wait is timed, so it may expire whenever it waits.  Creating a
thread may fail (`StartMayFail`).  Clients make any calls in any order; one of
them may destroy the pool once no other uses it.

*Left out.*  Names of threads, `autoDelete` of runnables, the list of all pools.

### TVRec

*State.*  Members keep their names; flags are a set.  `epc` is the position of the
event thread in its loop, `lock` the holder of `m_stateChangeLock`.  Recordings are
`Programs` (scheduled) and `LiveRecs` (those that live TV makes of itself).  Their
rows are `started`, `finished`, `status`, their marks `inUse`.  `dropped` records the
recordings that the code forgets at one of the places listed below under
TVRec's disagreements, so that the properties can say that there is no other.

*Steps.*  The functions that the event loop calls are actions; where the event
thread gives up the lock (it sleeps, tears a recorder down, waits for one to
start) others get in.  A client's call runs from one `WaitForEventThreadSleep` to
the next in one action.  The recorder's thread starts, pauses, reports a switch of
files (`RingBufferChanged`) or fails.  `Faults` names what may go wrong: channel,
monitor, signal, a signal after the deadline, file, recorder, device.  `crashed`
is the end of the process where the code follows a null pointer.

*Left out.*  EIT scans, antenna adjustment, conflicting inputs (their effect on
StartRecording is a free choice), the jobs queued at the end of a recording,
destruction of a TVRec, inputs without a signal monitor, analog inputs.

### SchedulerPlacement

*State.*  `guide` holds what the pass is about: times, rules in force, priorities,
setting, what is under way.  An entry of `m_workList` is a pair of showing and
input; the list is the position that comp_priority gives each entry.  `status`
and `saved` are the entries' recording statuses and their backup.  `rest`, `level`,
`sublevel`, `retry`, `moved`, `placing`, `session` are where the loops are.

*Steps.*  One turn of a loop is one action: marking what is under way, a sublevel,
the next program of the first pass, the next of a retry pass, the next conflict
moved away (`TryAnotherShowing`, the restore of everything included when one
cannot be moved), a live TV session, and the pruning at the end.  The pass is
sequential; all freedom is in `Init`, which enumerates guides and settings.

The second priority of an entry (`Pri2`), which decides between sublevels, is the sum of
the terms that AddNewRecords puts into its query: channel, input, preferred input,
quality of the showing and the user's own terms (4456-4541).  The model takes any
number for each entry; the run has entries that are all the same, one input
preferred, and one showing preferred.

*Left out.*  Rule types other than Single and All, hence find ids, duplicate
methods and what depends on the cache of IsSameProgram; child inputs
(`m_sgroupId` of several inputs); storage, database; the rest of Scheduler.

## 4. Runs

Each run takes at most a little over two minutes on two workers, and between them they take
every action of every specification.

### Passing

| Run | Bounds | Properties |
|---|---|---|
| `tfw_file` | 2 files (symmetric), 2 bytes, all calls, both blocking modes, 1 fault, opens may fail | `TypeOK`, `LossExplained`, `PlacedUnlessDisturbed`, `NoBufferLeak`, `RegistryCurrent` |
| `tfw_live` | 1 file, 4 bytes in blocks of 2, room for 2, both blocking modes, Flush, destructor, 1 fault, fair | `StreamOrder`, `Conservation`, `BufferUse`, `DataReachesDisk`, `CallsReturn` |
| `jq_claim` | 2 hosts (symmetric), 1 row, 2 commands, 1 crash, 2 threads per job and host | `Ownership`, `OneRunner` |
| `jq_done` | 2 hosts (symmetric), 1 row, transcode and flag, all results, 2 commands, database may fail, 1 crash | `TypeOK`, `PginfoAlive`, `DoneStays` |
| `jq_live` | 2 hosts limited to 1, 2 rows, 2 recordings, fair | `WithinMaxJobs`, `JobsEnd` |
| `jq_old` | 1 host, 1 row, daily recovery, delayed jobs, fair | `JobsEnd` |
| `drb_ring` | ring of 3 bytes, read(2) of up to 2, 5 bytes, 3 control sequences, both usages, fair | `RingAgrees`, `OwnControlNeverTears`, `EndAnnounced`, `ImplementsFifo`, `ControlReturns` |
| `pool_pool` | 2 threads, 2 runnables, 2 clients, limit 1, 2 queues, fair | `RunnablesKept`, `ThreadsAccounted`, `ReserveExact`, `AcceptedRuns`, `WaitsEnd` |
| `tvrec_calls` | 2 scheduled and 4 live recordings, 2 clients, 2 calls, all faults | `RecordingsAccounted`, `BufferIsCurrent`, `IdleClean`, `PointersPresent`, `OutcomeStands` |
| `tvrec_live` | 1 scheduled and 3 live recordings, 2 clients, 2 calls, channels, files and a device that fail, fair | `CallsReturn`, `RecordingsEnd` |
| `sched_pass` | 3 inputs on 2 tuners, 5 showings of 3 programs at 3 times, 4 rules, 3 orders of priority of rules and of entries, 2 recordings under way, live TV | `NoDoubleBooking`, `RecordedOnce`, `UnchallengedIsRecorded`, `PlanIsTrue`, `NothingLost` |

What they show: whatever the interleaving of the three threads, the writer keeps
the stream in order and accounts for every byte, and only the three recorded
causes put a byte in the wrong place; a job never runs on two hosts although
hosts work on old snapshots; a job that is done stays done although cancelling
and starting race; the thread of a job keeps a valid `pginfo`; hosts keep their
limit for user jobs; all jobs end when no backend crashes at a bad moment.  The
device buffer is a queue through wrap-around, slack, pauses and restarts, unless a
reset overtakes a Read, which cannot happen in MpegRecorder.  The pool loses no
runnable and no thread, and unless it jams (below) runs what it accepted.  An
input accounts for its recordings but at the places named below, its recorder
writes where it should, calls return but for a change of channel that got no file
(below), and recordings end.  A scheduling pass
neither books a tuner twice nor loses what it had promised, and importance
decides.

Why the bounds are enough.  The writer's buffer is one block of one byte in
`tfw_file`, so one block fills it and a second makes Write wait; in `tfw_live` a
third byte makes Write wait or overflow.  Short writes occur as soon as a buffer
holds two bytes, by appending in non-blocking mode in `tfw_file` and by blocks of
two in `tfw_live`; `MaxTries` is 2 so that a retry and a give-up both happen.  In the job queue one row is enough for all races between
hosts over that row, which is what claims are about; two rows are used where
jobs meet (limits, liveness); a second crash or a third command repeats what the
first ones show.  A ring of three bytes with reads of two reaches every
combination of wrap, slack and partial copy, and five bytes go round it once and
a half.  With one thread allowed and two that exist, the pool queues, hands over,
expires and exceeds its limit through a reservation.  Two calls on an input
reach start against stop, start against live TV and channel changes in
either order; `tvrec_race` needs three.  The invariants of `tvrec_calls` and the parts
of the inductive one were also checked with three calls, and with four and no fault but the channel's,
which takes longer than a run should.  In `sched_pass` it was checked that two moves for
one program, a restore after a move, a retry over a whole level and moves for
live TV all happen, and two inputs that share a tuner are in each other's way: a
model that compares inputs instead of groups breaks `NoDoubleBooking`.  `CallsReturn`
and `RecordingsEnd` were also checked with all faults, in nine minutes.  With a third
call the event thread can meet a missing chain (below), where the model has no
step, and `CallsReturn` fails for that reason.  The theorems have no such bounds.

Deadlock is checked in the job queue, which never stops.  The writer stops after
its destructor, the device buffer when it is deleted, the pool when it is
destroyed or jammed, an input when the process crashes or the calls are used
up, a scheduling pass at its end; their configurations say so.

### Violation

`tvrec_race` checks `NewRecordingSurvives`, which the comment in HandleTuning about
the lock that is released during a teardown means to ensure
(`PROJECT.json`, `findings`).  A recording ends by itself; the scheduler's
StartRecording of the next one is in post-roll and calls StopRecording, which sees
the state change and returns at once; StartRecording takes the lock that the
teardown has released and makes the new `m_curRecording`; the teardown finishes
and deletes it.

### Disagreements kept without a run

The models also show these; for the first ones the change that reproduces them
is named.

*Writer*
- In blocking mode Write waits for ever after a write error: the discarded
  bytes stay counted (threadedfilewriter.cpp:430), while the comment of
  SetBlocking says "ThreadedFileWriter::Write will wait for buffers to be freed as
  required" (608): `tfw_live` breaks `WriteReturns`.
- The destructor may drop the rest of the last buffer after a short write (139,
  492), while it "Commits all writes and closes the file." (135): `tfw_live`
  without faults breaks `DtorCommitsAll`.
- After an overflow and ReOpen a small write stays in memory, because the
  untimed wait (443) is not woken: `tfw_live` with ReOpen and an overflow breaks
  `DataReachesDisk`.
- Seek overtakes the write of the buffer taken last (301): `tfw_file` breaks
  `Placed`.
- After a ReOpen that failed, data is accepted and cannot be written, and Flush
  loops for ever (463): `tfw_live` with ReOpen and `OpenMayFail` breaks
  `CallsReturn`.

*Job queue*
- A transcode that succeeds in its last allowed run is marked FINISHED and then
  ERRORED, "Retry limit exceeded" (jobqueue.cpp:2125-2127): `jq_done` breaks
  `FinishedKept`.
- A job left PENDING by a crash is never recovered (1601, 1701): `jq_live` with a
  crash breaks `JobsEnd`.
- A job cancelled by DeleteAllJobs, which does not claim it (756; "we must claim
  this job before we can cancel it", 345), is run from an older snapshot:
  `jq_done` with DeleteAllJobs breaks `DoneStays`.
- A transcode in STOPPING is not counted against the maximum of jobs (207):
  `jq_live` with the type "transcode" breaks `WithinMaxJobs`, which the setting's
  help text promises.
- Two jobs of one recording run on two hosts at once: a job noted in `jobStatus`
  because another host has it (260-263) blocks nothing, since the lookup (276)
  searches the host's own `m_runningJobs`.
- A job that was stopped while running and then requeued keeps its host name and
  the STOP command; it can neither be claimed for cancelling (347) nor started
  and stays queued for ever: `jq_live` with Requeue and STOP breaks `JobsEnd`.
- DeleteAllJobs deletes the rows of jobs that still run when its 90 s are over:
  the test at 823 is true then too, and the branch that reports it is dead.

*Device buffer*
- With V4L2encStreamHandler a pause resets the ring between WaitForUsed (661) and
  the copy of a Read; Read then returns old bytes and `m_used -= len` (339) goes
  below zero: `torn` in `drb_ring`.
- WakePoll (228) uses the pipe while the thread that ends closes it (419).

*Thread pool*
- A thread whose runnable ends after Stop is put into `m_deleteThreads` (446);
  waitForDone (563) or TryStartInternal (386) joins it with `m_lock` held, and it
  needs `m_lock` in NotifyDone (483): neither goes on, and the destructor never
  returns, while "MThreaPool makes sure all it's threads have stopped running"
  (32-33): `pool_pool` breaks `DestructorReturns`.  `Jam` describes the state.
- A thread of a reserved start that becomes free takes a queued runnable (461), so
  that more than `maxThreadCount` threads work on ordinary runnables.

*TVRec* (the first four are where recordings get into `dropped`)
- A recording stopped while the signal is still waited for keeps `m_curRecording`
  and its mark; a later StartRecording of the same program takes it for one to be
  extended (tv_rec.cpp:456, 3671).
- The second SetChannel before a signal replaces the dummy's recording without
  finishing it (4806).
- A switch of files followed by a teardown before the recorder has taken the new
  file loses the next recording's row and mark.
- StopLiveTV before the frontend's channel change loses the recording that live TV
  was turned into.
- StopRecording acts on a state read before it had the lock (750): the state
  asked for is replaced, and a recording that was to begin does not.
- SpawnLiveTV does not look again at what the input does after its wait (2723).
- `kFlagFinishRecording`, set in live TV or when idle, is not cleared and ends
  the next recording at once (1408).
- SetChannel keeps the kind of its request (`requestType`, 3151) and, if a recorder is
  used, waits for `kFlagRingBufferReady` (3175) whatever becomes of the request.  The
  flag never comes when the recorder that is to pause has failed, nor when the change
  of channel fails (no channel, no file) or live TV is ended meanwhile: the state
  becomes None, the request that ends live TV is the last one, and SetChannel waits for
  ever, with `m_setChannelLock`, so that every later SetChannel does too, until something
  else makes a file.  `CallsReturn` says of each client that it comes back again and
  again or stays in exactly this wait for ever, with the recorder failed or the
  state None; without the second of these `tvrec_live` breaks it.
- A live TV recorder whose file could not be made is reported with
  `kFlagRingBufferReady` all the same if there was no file before (4241), so that a
  SetChannel returns as if it had succeeded.  If it was the channel that was not found
  (4725), `kFlagNeedToStartRecorder` stays set until the request that ends live TV clears
  it.
- CreateRecorder failing without a chain uses a deleted recording (4321), and
  SetLiveRecording follows `m_curRecording` without a test (2884).
- TeardownAll joins the recorder with the lock held.
- SetChannel also returns when `kFlagRingBufferReady` (set at 4808) is there from an
  earlier switch of files, with its tuning still waiting for the recorder to pause.  If the
  frontend then stops live TV, TuningFrequency reaches SwitchLiveTVRingBuffer, which
  follows `m_tvChain` (4793) after StopLiveTV has cleared it.  So does the switch of files
  at the end of a program (1475), when a StopRecording has replaced the state that
  StopLiveTV asked for.  Both take three calls; the model stops there.  `PointersPresent` makes its
  statement about live TV that begins, when there is no recorder yet.  That one needs
  a hypothesis too: with two frontends, one can stop live TV while the SetChannel
  of the other waits (section 5).
- TuningRestartRecorder finishes the recording (4441) before it knows whether there
  is a file for the next one; if there is none, the teardown with kFlagKillRec
  finishes it a second time and calls it failed.  StartRecording that has no file
  calls its program failed, even if it was finished while the call waited.
  `OutcomeStands` excepts both.
- After the race of `tvrec_race` the recorder that then starts writes a file while there
  is no `m_curRecording`; `BufferIsCurrent` excepts it.

*Scheduler*
- The loop that marks the other showings of what is under way ends at the first
  failing recording (scheduler.cpp:1403), so a program whose recording is sorted
  behind it is scheduled again (`Unmarked`).
- "It is pointless to preempt another livetv session." (1326): the sessions not
  yet tried are not considered, so a recording is moved from one session's input
  to another's.
- The retry passes are a heuristic: a program may stay in conflict although a
  plan with everything in it exists.  No property says otherwise.
- In the part that is not modelled: HandleRecording overwrites a status that
  UpdateRecStatus set while the lock was released (2893, 2913).

### Fairness

*Writer* (`FairSpec`): weak fairness of each of the three threads and of the
250 ms timer.  The lock is held for bounded sections only, all waits but one are
timed, and Qt threads are scheduled by the system.  The client need not begin
any call.  Without this, nothing needs ever be written.

*Job queue* (`FairSpec`): weak fairness of each host's queue thread (a loop with
a timed wait; a backend is restarted by the service manager), of recovery, of
each job thread and program (programs end; `ProgramBreathe`, which only reacts to
pause and resume, is excluded), of what a client has begun, and of the clock.
Users need not do anything.

*Device buffer* (`FairSpec`): weak fairness of the fill thread (its poll and waits
are timed), of a Read and of a sequence of control calls that have begun.

*Thread pool* (`FairSpec`): strong fairness of each thread and of each client that
is in a call: both need `m_lock`, a QMutex that others take again and again, for
short sections.  Runnables end.

*TVRec* (`FairSpec`): weak fairness of the event thread (its waits are timed);
strong fairness of the recorder's thread, of the clock and of each client's call
that has begun, which wait for a lock that is released over and over.  Frontends
need not make any call; for this reason `RecordingsEnd` leaves what live TV keeps
to the user.

*Scheduling pass*: sequential; no liveness is claimed beyond that it ends, which
the finite state graph without cycles shows.

## 5. Proofs

All proofs are checked by TLAPS with Z3, Zenon and LS4, for every value of the
constants that satisfies the named assumptions of the modules: sizes are
positive and bounds are numbers (`SizesAssumption`, `BoundsAssumption`,
`TimesAssumption`), model values that stand for "none" are not members of the
sets they are added to (`HostsAssumption`, `SetsAssumption`), guide, inputs and
rules are finite tables of the right types (`GuideAssumption`,
`InputsAssumption`, `RulesAssumption`).  TLC evaluates them in each run.  Each
inductive invariant was checked by TLC on the instances of section 4 before it
was proved.  `PROJECT.json` lists the theorems.

*ThreadedFileWriter_proofs.*  `Invariance` proves the inductive invariant `IInv`:
the properties themselves plus `Control` (what the positions of the threads say
about flags, descriptor, error count and the buffer in hand) and `Blame` (which
history flag must be set where bytes are about to be lost).  `StreamOrder` is not
inductive by itself: that `DiskTake` may overwrite `cur` needs that the disk
thread has finished it, which is `Control`.  `Chain` (the runs follow one
another) is handled by three lemmas, for taking the first buffer, for a new last
buffer and for one that grows.  From `Invariance` follow `TypeCorrect`,
`StreamIsOrdered`, `BytesConserved`, `BufferUseBounded` (which also proves
`WithinLimit`, that no run checks), `LossIsExplained`, `BuffersAccountedFor`,
`RegistryIsCurrent`.

`BytesInPlace` (`PlacedUnlessDisturbed`) rests on a second invariant,
`Placement`: the files hold only bytes the disk thread has reached (`OnDisk`);
when a file is opened nothing is on its way to the old one, unless close overtook
a write (`Opening`); and the bytes in hand, those in the list and the next one
Write accepts are meant for where the descriptor will stand when their turn comes
(`Aimed`: `offset`, `cpos`, `cur` and `want` agree).  Seek, ReOpen and a buffer that
is given up are the steps that could break `Aimed`; each sets `disturbed` or
`skipped` or finds the list empty.

*JobQueue_proofs.*  `TypeCorrect` is inductive as it stands.  `OneRunner` is
not: a host may hold a stale snapshot that names it as the owner.  `Ownership`
collects everybody who could start or touch a job: threads, claims, snapshots
and recovery, and says that the row names their host.  A row changes its host
only from none (a claim, lemma `Given` and `Claimed`) or to none by the recovery
of the host itself, which at that time has no threads, no claims and no
snapshot (lemma `FreeRow`).  `Owned` adds that rows not yet inserted name nobody
(`Fresh`).  `OwnershipHolds` and `OneRunnerHolds` assume that the master's daily
recovery is off (`"RecoverOld" \notin Ops`): it takes jobs from hosts that are
alive, and both fail with it.

*JobQueueStatus_proofs.*  The invariant `Life` relates the status of a row to
everybody who works on its job: a row without a host waits (`RowsWait`); a job that
a snapshot shows as queued for the host itself still waits and has no thread
(`Snaps`); so does a job that is claimed, until it is PENDING, and it is not met
again in the pass (`Claims`); a thread is the only one of its job on its host, its
entry of `m_runningJobs` is valid, and its position says which statuses the row
can have (`Busy`); recovery takes up only jobs that are not done (`Recs`).  None of
them is inductive without the others: that a job is not started twice needs
that the snapshot entry it is started from still tells the truth, which needs
that only its own thread changes its status, which is `Owned`.  From it follow

- `PginfoStaysAlive`, if nobody but the queue itself requeues jobs
  (`OnlyTheQueueRequeues`): a user's requeue of a job whose thread is at its last
  step starts a second thread, whose entry the first one then removes, and daily
  recovery takes jobs from hosts that are alive;
- `DoneJobsStayDone`, if also nobody calls DeleteAllJobs, which cancels a queued
  job that a host has already claimed and will set to PENDING (section 4);
- `JobLimitKept`, if there are no transcodes: one in STOPPING or RETRY is not
  counted by the code, and with it the limit is exceeded (section 4).  `Limits` says
  that the rows which count (`Load`) are within the limit, and below it on a host
  that may still start a job in its pass.  `Load` grows only when a host
  starts a job, which it does once per pass; what it counted at the beginning of
  the pass was `Load`, one snapshot entry per row (`LoadCounted`).

The runs `jq_done` and `jq_live` satisfy these hypotheses.

*DeviceReadBuffer_proofs.*  `Invariant` proves `IInv` for every size of the ring, of
read(2) and of the counter.  `RingAgrees` is not inductive: the number of bytes
that read(2) was allowed, and those it delivered before the pointer is
advanced, have to be counted too (`RingState`), as does what Read was promised
and has not stepped over (`left <= m_used`).  `FillState` and `ConsumerState` say what
the locals of the two threads mean at each position; `ScriptState` and `OwnState`
say that in MpegRecorder a thread that finds itself paused finds an empty ring, so
that its reset disturbs nobody; this gives `OwnControlIsSafe`.
`RingImplementsFifo` needs in addition `Contents`: the cells from the read pointer
on hold the last bytes the device delivered, oldest first; every step then maps
to a step of `ByteFifo` or to a stutter.  The theorem is about safety; `ByteFifo`
promises no more.

*MThreadPool_proofs.*  `IInv` is about who has what: the client inside a call holds
the lock and has the runnable that it starts (`LockState`), the destructor is alone and
empties the lists one after the other (`DeleteState`), a thread is in one list at
most and once, and its position says in which (`ListState`), a runnable has one
thread or one place in one queue (`HeldState`, `QueueState`), and the count of
reserved threads is the number of threads that hold a reservation
(`ReserveState`).  `RunnablesAlwaysKept` and `ThreadsAlwaysAccounted` count; the lemmas
about sequences without repetition carry the argument from positions to counts.

*SchedulerPlacement_proofs.*  `IInv` holds for every guide, set of rules, priorities
and inputs.  `NoDoubleBooking` and `RecordedOnce` must hold of what was saved as well,
because a failed move restores it; so what a status map must satisfy is a
predicate of the map, `Sound` (with `Booked`), that is required of `status` and, while
a move is tried, of `saved`.  Its parts: what is under way stays so (`Kept`), a showing
has one entry recorded (`Shown`), an entry is called another showing only
because its program is recorded (`Justified`) and all others of a recorded program
are (`OthersMarked`), nothing placed is less important than what was not
reached (`Ordered`), and what nothing important stands in the way of is recorded
(`Reached`).  While an entry is being placed only the others are free of
collisions, and those still to be moved are behind the ones moved (`MoveState`).
That sorting yields a total order in which importance decreases
(`OrderState`) rests on lemmas about lexicographic keys.  The theorems are
`TunersBookedOnce`, `ProgramsRecordedOnce`, `UnchallengedAreRecorded`,
`PlanAlwaysTrue` and, for the steps, `MovesLoseNothing`.

*TVRec_proofs.*  None of the properties is inductive, and most of what is needed is
about the queue: a request says what will happen to the recorder, and the properties
speak of the moment when it has.  `Inv` has these parts.  `LockHeld`: the event
thread has the lock but at five positions, so a client finds it at one of these.
`RecorderState` and `WaitState`: what flags and recorder are at each position.
`RequestState` and `QueueState`: requests are well formed, at most two are queued, and
which.  `NoneState`: in the state None everything is let go of (`Clean`), or a request
that will do it is in the queue and nothing new behind it (`KillAhead`); with
`CurrentState`, which says the same of the recording, this gives `IdleAlwaysClean`.
`ProgramState`: requests name the current recording; it is needed because a client
may replace `m_curRecording` while a request that names it is queued, which
`NothingNewWhenNone` excludes.  `BufferState`: unless a request to stop the recorder is
queued, file and recording agree, and if the recorder is still to be started,
what it will be given agrees; this gives `BufferAlwaysCurrent`.  `Accounted` is
`RecordingsAccounted`, which needs only that live TV takes recordings without a row
(`NextLiveType`) and that LiveFile closes or drops what it replaces.  Steps of
other threads than the event thread are reduced by one lemma (`OtherStep`) to six
forms.  `PointersAlwaysPresent` needs `ChainState`, that the chain is there wherever live
TV is about to begin, and assumes `OneFrontend`: the client that calls StopLiveTV is
the one that calls SetChannel, as in the runs; with two of them the chain can be
gone (section 4).  All else holds for any set of clients and calls.

*TVRecOutcome_proofs.*  `OutcomeAlwaysStands` proves the action property
`OutcomeStands`, from `Inv` and a second invariant, `OutcomeInv`.  First,
`StatusStep` lists every way in which a step can change a status: that of the
current recording (a signal, an end, a failure), of the recorder's next one
(RingBufferChanged), or of the one that the last tuning request names
(TuningNewRecorder).  Then `FinishedStatus` shows that for a finished recording only
Failed is left.  This needs to know where a finished recording can still be:

- as the current one (`Stale`), after TuningRestartRecorder had no file.  There is
  then a recorder and the state None was asked for (`StaleState`); a signal is waited
  for with a recorder only after a pause, hence in the dummy's name
  (`PauseState`, `SignalState`), and only live TV pauses (`WatchState`, `KilledBefore`);
- as the next one: it is opened again by the switch, so nothing is to be shown;
- in a request.  What a queued request names was not recorded yet (`NameState`),
  because it was so when StartRecording began it (`BegunState`) and no next file is
  left that could change it (`NextFileState`); so when the recorder is to be started
  for a finished recording, that one had failed already (`StartState`).

The parts were checked by TLC with two calls and all
faults, and with four calls and the channel's fault, before they were proved.

*Only model-checked:* liveness under fairness, which is out of the reach of the
prover (`DataReachesDisk` and the writer's `CallsReturn`, `JobsEnd`,
`ControlReturns`, `AcceptedRuns`, `WaitsEnd`, `RecordingsEnd` and the input's
`CallsReturn`).

## 6. Not modelled

Of the parts listed in section 1: LiveTVChain, StreamHandler, MythMediaBuffer,
AutoExpire, MDBManager, HouseKeeper and MainServer, and the main loop of Scheduler,
could be modelled and are left to the plan.  Decoders, renderers, device
drivers, user interface, guide import, metadata and web services, plugins and
vendored code carry little state whose interleaving matters, or behaviour that
the source does not define (hardware, external services); they make up most of
the source tree.
