-------------------------------- MODULE TVRec -------------------------------
(***************************************************************************)
(* libmythtv/tv_rec.cpp: the recorder of one input.  Clients (the scheduler *)
(* and the frontends' requests) start and stop recordings and live TV; the  *)
(* event thread runs the state machine and the tuning requests; the         *)
(* recorder's thread switches files and fails.                              *)
(*                                                                          *)
(* m_stateChangeLock is `lock`.  The event thread holds it in all of its    *)
(* loop but three places (it sleeps, tears a recorder down, waits for one   *)
(* to start); its actions are the functions that the loop calls, and one    *)
(* that has nothing to do is passed over.  A client holds the lock from one *)
(* WaitForEventThreadSleep to the next, which is one action.                *)
(*                                                                          *)
(* Steps of other threads that do not need the lock but commute with the    *)
(* steps of its holder are taken while nobody holds it (Free).              *)
(*                                                                          *)
(* The input is a digital tuner with a signal monitor.  Left out: EIT       *)
(* scans, antenna adjustment, conflicting inputs (their effect on           *)
(* StartRecording is a choice), jobs, destruction of a TVRec.               *)
(***************************************************************************)
EXTENDS Naturals, Sequences, FiniteSets

CONSTANTS
  Programs,     \* scheduled recordings
  LiveRecs,     \* recordings that live TV makes of itself (bound)
  Clients,
  Null,
  Event,        \* the event thread, as holder of the lock
  Ops,          \* calls that each client makes
  MaxCalls,     \* bound: calls in a behaviour
  Faults        \* what can go wrong: "channel", "monitor", "signal", "late" (a
                \* signal after the deadline), "file", "recorder", "device"

ASSUME SetsAssumption ==
  /\ Programs \cap LiveRecs = {}
  /\ Null \notin Programs \cup LiveRecs \cup Clients
  /\ Event \notin Clients \cup {Null}
  /\ MaxCalls \in Nat

VARIABLES
  lock,
  epc,                            \* the event thread
  m_internalState, m_desiredNextState, m_changeState,
  m_stateFlags,
  m_tuningRequests, m_lastTuningRequest,
  m_triggerEventSleepSignal, dozing,
  m_curRecording, m_recStatus,
  over,                           \* m_recordEndTime: 0 ahead, 1 passed, 2 by 60 s
  programOver,                    \* the program on air ended after m_curRecording began
  m_reachedRecordingDeadline,
  m_pseudoLiveTVRecording,
  m_pending,                      \* the entry of m_pendingRecordings for this input
  m_tvChain,                      \* there is one
  chainDummy,                     \* its last entry has the input type DUMMY
  m_buffer,                       \* the recording whose file it writes
  m_switchingBuffer,
  m_recorder, m_pause, m_nextRecording,  \* the RecorderBase
  status, started, finished, inUse,      \* recordings: status, rows in the database
  kept,                           \* recordings whose group is not LiveTV
  cpc, cont, program, cancelNext, result,  \* clients
  calls,
  dropped                         \* recordings forgotten at a place that is known to

eventVars == <<epc>>
stateVars == <<m_internalState, m_desiredNextState, m_changeState>>
tuneVars == <<m_tuningRequests, m_lastTuningRequest>>
sleepVars == <<m_triggerEventSleepSignal, dozing>>
liveVars == <<m_pseudoLiveTVRecording, m_tvChain, chainDummy>>
timeVars == <<over, programOver, m_reachedRecordingDeadline>>
recorderVars == <<m_recorder, m_pause, m_nextRecording>>
dbVars == <<status, started, finished, inUse, dropped>>
clientVars == <<cpc, cont, program, cancelNext, result, calls>>
vars == <<lock, eventVars, stateVars, m_stateFlags, tuneVars, sleepVars, m_curRecording,
          m_recStatus, timeVars, liveVars, m_pending, m_buffer, m_switchingBuffer,
          recorderVars, dbVars, kept, clientVars>>

Recs == Programs \cup LiveRecs
States == {"None", "WatchingLiveTV", "RecordingOnly"}
NoRec == {"CloseRec", "KillRec"}
PendingActions == {"WaitingForRecPause", "WaitingForSignal", "NeedToStartRecorder"}
Flags == PendingActions \cup {"SignalMonitorRunning", "DummyRecorderRunning", "RecorderRunning",
           "RingBufferReady", "FinishRecording", "CancelNextRecording", "KillRec"}
RequestFlags == NoRec \cup {"LiveTV", "Recording", "KillRingBuffer"}
Requests == [flags : SUBSET RequestFlags, program : Recs \cup {Null}]
Request(f, p) == [flags |-> f, program |-> p]
RecStatuses == {"Unknown", "Aborted", "Tuning", "Recording", "Failing", "Failed",
                "Cancelled", "TunerBusy"}

TypeOK ==
  /\ lock \in {Event, Null}
  /\ epc \in {"top", "tune", "teardown", "torn", "relock", "shut", "pause", "frequency",
              "signal", "start", "create", "starting", "pending", "ends", "live", "asleep",
              "crashed"}
  /\ m_internalState \in States
  /\ m_desiredNextState \in States \cup {"Error"}
  /\ m_changeState \in BOOLEAN
  /\ m_stateFlags \subseteq Flags
  /\ m_tuningRequests \in Seq(Requests)
  /\ m_lastTuningRequest \in Requests
  /\ m_triggerEventSleepSignal \in BOOLEAN
  /\ dozing \subseteq Clients
  /\ m_curRecording \in Recs \cup {Null}
  /\ m_recStatus \in RecStatuses
  /\ over \in 0 .. 2
  /\ programOver \in BOOLEAN
  /\ m_reachedRecordingDeadline \in BOOLEAN
  /\ m_pseudoLiveTVRecording \in Recs \cup {Null}
  /\ m_pending \in [ask : BOOLEAN, canceled : BOOLEAN] \cup {Null}
  /\ m_tvChain \in BOOLEAN /\ chainDummy \in BOOLEAN
  /\ m_buffer \in Recs \cup {Null}
  /\ m_switchingBuffer \in BOOLEAN
  /\ m_recorder \in {"none", "starting", "running", "error"}
  /\ m_pause \in {"no", "asked", "paused"}
  /\ m_nextRecording \in Recs \cup {Null}
  /\ status \in [Recs -> {"Unknown", "Recording", "Failing", "Failed", "Recorded"}]
  /\ started \subseteq Recs /\ finished \subseteq Recs /\ inUse \subseteq Recs
  /\ dropped \subseteq Recs
  /\ kept \subseteq Recs
  /\ cpc \in [Clients -> {"idle", "doze", "dozing", "relock", "startStop", "stop", "stop2"}]
  /\ cont \in [Clients -> {"start2", "start3", "start5", "stop3", "spawn2",
                           "stopLive2", "channel2", "channel3", "channel4", Null}]
  /\ program \in [Clients -> Programs \cup {Null}]
  /\ cancelNext \in [Clients -> BOOLEAN]
  /\ result \in [Programs -> RecStatuses \cup {Null}]
  /\ calls \in 0 .. MaxCalls

Init ==
  /\ lock = Null /\ epc = "asleep"
  /\ m_internalState = "None" /\ m_desiredNextState = "None" /\ m_changeState = FALSE
  /\ m_stateFlags = {}
  /\ m_tuningRequests = <<>> /\ m_lastTuningRequest = Request({}, Null)
  /\ m_triggerEventSleepSignal = TRUE /\ dozing = {}
  /\ m_curRecording = Null /\ m_recStatus = "Unknown"
  /\ over = 0 /\ programOver = FALSE /\ m_reachedRecordingDeadline = FALSE
  /\ m_pseudoLiveTVRecording = Null /\ m_pending = Null
  /\ m_tvChain = FALSE /\ chainDummy = FALSE
  /\ m_buffer = Null /\ m_switchingBuffer = FALSE
  /\ m_recorder = "none" /\ m_pause = "no" /\ m_nextRecording = Null
  /\ status = [r \in Recs |-> "Unknown"]
  /\ started = {} /\ finished = {} /\ inUse = {} /\ dropped = {}
  /\ kept = Programs
  /\ cpc = [c \in Clients |-> "idle"] /\ cont = [c \in Clients |-> Null]
  /\ program = [c \in Clients |-> Null]
  /\ cancelNext = [c \in Clients |-> FALSE]
  /\ result = [p \in Programs |-> Null]
  /\ calls = 0

-----------------------------------------------------------------------------
(* State and its change *)

GetState == IF m_changeState THEN "ChangingState" ELSE m_internalState

ChangeState(s) == m_desiredNextState' = s /\ m_changeState' = TRUE
NoStateChange == UNCHANGED <<m_desiredNextState, m_changeState>>

StateIsRecording(s) == s \in {"RecordingOnly", "WatchingLiveTV"}
RemoveRecording(s) == IF StateIsRecording(s) THEN "None" ELSE "Error"

\* A slip: the file is not to be closed after a recording.
RequestsOf_Open(from, to) ==
  CASE from = "None" /\ to = "WatchingLiveTV" -> <<Request({"LiveTV"}, Null)>>
    [] from = "WatchingLiveTV" /\ to = "None" -> <<Request({"KillRec", "KillRingBuffer"}, Null)>>
    [] from = "None" /\ to = "RecordingOnly" -> <<Request({"Recording"}, m_curRecording)>>
    [] from = "RecordingOnly" /\ to = "None" ->
         <<Request({"CloseRec"} \cup (m_stateFlags \cap {"KillRec"}), Null)>>
    [] OTHER -> <<>>

\* Tuning requests that a transition makes.
RequestsOf(from, to) ==
  CASE from = "None" /\ to = "WatchingLiveTV" -> <<Request({"LiveTV"}, Null)>>
    [] from = "WatchingLiveTV" /\ to = "None" -> <<Request({"KillRec", "KillRingBuffer"}, Null)>>
    [] from = "None" /\ to = "RecordingOnly" -> <<Request({"Recording"}, m_curRecording)>>
    [] from = "RecordingOnly" /\ to = "None" ->
         <<Request({"CloseRec", "KillRingBuffer"} \cup (m_stateFlags \cap {"KillRec"}), Null)>>
    [] OTHER -> <<>>

Known(from, to) == <<from, to>> \in {<<"None", "WatchingLiveTV">>, <<"WatchingLiveTV", "None">>,
                                     <<"WatchingLiveTV", "RecordingOnly">>,
                                     <<"None", "RecordingOnly">>, <<"RecordingOnly", "None">>}

EventFrame == UNCHANGED <<clientVars, kept>>

Free == lock = Null

\* The next function of HandleTuning, and of the loop, that has something to do.
PendingNext == IF m_pending = Null THEN "ends" ELSE "pending"
TuningNext(flags) ==
  IF "WaitingForSignal" \in flags THEN "signal"
  ELSE IF "NeedToStartRecorder" \in flags THEN "start" ELSE PendingNext
PauseNext(flags) == IF "WaitingForRecPause" \in flags THEN "pause" ELSE TuningNext(flags)

\* Woken, or a second passed, the event thread has the lock again.
Awake == epc = "asleep" /\ lock = Null
SomethingToDo ==
  \/ m_changeState \/ m_tuningRequests # <<>> \/ m_stateFlags \cap PendingActions # {}
  \/ m_pending # Null

\* The loop begins: a change of state that was asked for is made if it is known.
HandleStateChange ==
  /\ epc = "top" \/ (Awake /\ SomethingToDo)
  /\ lock' = Event
  /\ m_changeState' = FALSE
  /\ LET known == m_changeState /\ Known(m_internalState, m_desiredNextState)
     IN  /\ m_internalState' = IF known THEN m_desiredNextState ELSE m_internalState
         /\ m_tuningRequests' = m_tuningRequests \o
              (IF known THEN RequestsOf(m_internalState, m_desiredNextState) ELSE <<>>)
         /\ m_pseudoLiveTVRecording' = IF known /\ m_desiredNextState = "RecordingOnly"
                                         THEN Null ELSE m_pseudoLiveTVRecording
  /\ epc' = IF m_tuningRequests' # <<>> THEN "tune" ELSE PauseNext(m_stateFlags)
  /\ m_stateFlags' = IF m_changeState THEN m_stateFlags \ {"CancelNextRecording"} ELSE m_stateFlags
  /\ UNCHANGED <<m_desiredNextState, m_lastTuningRequest, sleepVars, m_curRecording,
                 m_recStatus, timeVars, m_tvChain, chainDummy, m_pending, m_buffer,
                 m_switchingBuffer, recorderVars, dbVars>>
  /\ EventFrame

-----------------------------------------------------------------------------
(* Recordings: what FinishedRecording and MarkAsInUse do *)

\* The status FinishedRecording leaves, and the rows it closes.
Final(st, r) == [st EXCEPT ![r] = IF @ \in {"Recording", "Recorded"} THEN "Recorded" ELSE "Failed"]

\* The same for the recording that a pointer names, if any.
FinalOf(st, r) == IF r = Null THEN st ELSE Final(st, r)
Of(r) == {r} \ {Null}

\* StartedRecording: r has a row that is not finished (it may have had others).
NewRow(r) ==
  /\ started' = started \cup {r}
  /\ finished' = finished \ {r}
  /\ status' = [status EXCEPT ![r] = "Unknown"]

Set(st, r, s) == IF r = Null THEN st ELSE [st EXCEPT ![r] = s]

\* The recording for which live TV makes a file: the scheduled one that is to be
\* made, or a new one while the bound allows it.
NextLive(pseudo) ==
  IF pseudo \in Programs \ started THEN {pseudo}
  ELSE IF LiveRecs \subseteq started THEN {} ELSE {CHOOSE r \in LiveRecs : r \notin started}

-----------------------------------------------------------------------------
(* HandleTuning *)

Front == Head(m_tuningRequests)

\* A slip: the dummy recorder's flag is left.
TuningShutdowns_Dummy ==
  /\ epc = "tune"
  /\ m_tuningRequests # <<>>
  /\ LET noRec == Front.flags \cap NoRec # {}
         dummy == noRec /\ "DummyRecorderRunning" \in m_stateFlags
         teardown == noRec /\ (\/ "RecorderRunning" \in m_stateFlags
                               \/ m_curRecording # Null /\ status'[m_curRecording] \in {"Failed", "Failing"})
     IN  /\ status' = IF dummy THEN FinalOf(status, m_curRecording) ELSE status
         /\ finished' = IF dummy THEN finished \cup Of(m_curRecording) ELSE finished
         /\ inUse' = IF dummy THEN inUse \ {m_curRecording} ELSE inUse
         /\ m_stateFlags' = m_stateFlags \ ({"SignalMonitorRunning", "WaitingForSignal"} \cup{})
         /\ dropped' = IF noRec /\ ~teardown THEN dropped \cup (Of(m_curRecording) \ finished') ELSE dropped
         /\ epc' = IF teardown THEN "teardown" ELSE "shut"
         /\ lock' = IF teardown THEN Null ELSE lock
  /\ UNCHANGED <<stateVars, tuneVars, sleepVars, m_curRecording, m_recStatus, timeVars, liveVars,
                 m_pending, m_buffer, m_switchingBuffer, recorderVars, started>>
  /\ EventFrame

\* TuningShutdowns, up to the teardown of the recorder.
TuningShutdowns ==
  /\ epc = "tune"
  /\ m_tuningRequests # <<>>
  /\ LET noRec == Front.flags \cap NoRec # {}
         dummy == noRec /\ "DummyRecorderRunning" \in m_stateFlags
         teardown == noRec /\ (\/ "RecorderRunning" \in m_stateFlags
                               \/ m_curRecording # Null /\ status'[m_curRecording] \in {"Failed", "Failing"})
     IN  /\ status' = IF dummy THEN FinalOf(status, m_curRecording) ELSE status
         /\ finished' = IF dummy THEN finished \cup Of(m_curRecording) ELSE finished
         /\ inUse' = IF dummy THEN inUse \ {m_curRecording} ELSE inUse
         /\ m_stateFlags' = m_stateFlags \ ({"SignalMonitorRunning", "WaitingForSignal"} \cup
                              (IF dummy THEN {"DummyRecorderRunning"} ELSE {}))
         /\ dropped' = IF noRec /\ ~teardown THEN dropped \cup (Of(m_curRecording) \ finished') ELSE dropped
         /\ epc' = IF teardown THEN "teardown" ELSE "shut"
         /\ lock' = IF teardown THEN Null ELSE lock
  /\ UNCHANGED <<stateVars, tuneVars, sleepVars, m_curRecording, m_recStatus, timeVars, liveVars,
                 m_pending, m_buffer, m_switchingBuffer, recorderVars, started>>
  /\ EventFrame

\* TeardownRecorder: the recorder's thread is joined, the recorder deleted with
\* the file it was to switch to.
TeardownStop ==
  /\ epc = "teardown"
  /\ lock = Null
  /\ m_recorder' = "none" /\ m_pause' = "no" /\ m_nextRecording' = Null
  /\ dropped' = dropped \cup Of(m_nextRecording)
  /\ m_stateFlags' = m_stateFlags \ {"RecorderRunning", "NeedToStartRecorder"}
  /\ epc' = "torn"
  /\ UNCHANGED <<lock, stateVars, tuneVars, sleepVars, m_curRecording, m_recStatus, timeVars,
                 liveVars, m_pending, m_buffer, m_switchingBuffer, status, started, finished, inUse>>
  /\ EventFrame

\* A slip: the recording is finished and not forgotten.
TeardownFinish_Kept ==
  /\ epc = "torn"
  /\ status' = FinalOf(IF "KillRec" \in Front.flags THEN Set(status, m_curRecording, "Failed")
                                                    ELSE status, m_curRecording)
  /\ finished' = finished \cup Of(m_curRecording)
  /\ inUse' = inUse \ {m_curRecording}
  /\ UNCHANGED m_curRecording
  /\ epc' = "relock"
  /\ UNCHANGED <<lock, stateVars, m_stateFlags, tuneVars, sleepVars, m_recStatus, timeVars, liveVars,
                 m_pending, m_buffer, m_switchingBuffer, recorderVars, started, dropped>>
  /\ EventFrame

\* Its end: the recording is finished and forgotten, without the lock.
TeardownFinish ==
  /\ epc = "torn"
  /\ status' = FinalOf(IF "KillRec" \in Front.flags THEN Set(status, m_curRecording, "Failed")
                                                    ELSE status, m_curRecording)
  /\ finished' = finished \cup Of(m_curRecording)
  /\ inUse' = inUse \ {m_curRecording}
  /\ m_curRecording' = Null
  /\ epc' = "relock"
  /\ UNCHANGED <<lock, stateVars, m_stateFlags, tuneVars, sleepVars, m_recStatus, timeVars, liveVars,
                 m_pending, m_buffer, m_switchingBuffer, recorderVars, started, dropped>>
  /\ EventFrame

TeardownEnd ==
  /\ epc = "relock"
  /\ lock = Null
  /\ lock' = Event
  /\ epc' = "shut"
  /\ UNCHANGED <<stateVars, m_stateFlags, tuneVars, sleepVars, m_curRecording, m_recStatus, timeVars,
                 liveVars, m_pending, m_buffer, m_switchingBuffer, recorderVars, dbVars>>
  /\ EventFrame

\* The rest of TuningShutdowns; the request leaves the queue.
RequestTaken ==
  /\ epc = "shut"
  /\ LET kill == "KillRingBuffer" \in Front.flags /\ m_buffer # Null
         new == Front.flags \cap {"Recording", "LiveTV"} # {}
         wait == new /\ m_recorder # "none"
     IN  /\ m_buffer' = IF kill THEN Null ELSE m_buffer
         /\ m_switchingBuffer' = IF kill THEN FALSE ELSE m_switchingBuffer
         /\ m_stateFlags' = (m_stateFlags \ (PendingActions \cup
                                             (IF kill THEN {"DummyRecorderRunning"} ELSE {})))
                            \cup (IF wait THEN {"WaitingForRecPause"} ELSE {})
         /\ epc' = IF new /\ ~wait THEN "frequency" ELSE PauseNext(m_stateFlags')
  /\ m_lastTuningRequest' = Front
  /\ m_tuningRequests' = Tail(m_tuningRequests)
  /\ UNCHANGED <<lock, stateVars, sleepVars, m_curRecording, m_recStatus, timeVars, liveVars,
                 m_pending, recorderVars, dbVars>>
  /\ EventFrame

\* A tuning that waits for the recorder to pause.
WaitForRecPause ==
  /\ epc = "pause"
  /\ LET ready == m_recorder # "none" /\ m_pause = "paused"
     IN  /\ epc' = IF ready THEN "frequency" ELSE PendingNext
         /\ m_stateFlags' = IF ready THEN m_stateFlags \ {"WaitingForRecPause"} ELSE m_stateFlags
  /\ UNCHANGED <<lock, stateVars, tuneVars, sleepVars, m_curRecording, m_recStatus, timeVars, liveVars,
                 m_pending, m_buffer, m_switchingBuffer, recorderVars, dbVars>>
  /\ EventFrame

\* CreateLiveTVRingBuffer, or SwitchLiveTVRingBuffer for a recorder that is told
\* later: r, a new row, becomes the recording; the last one is finished unless it
\* was a dummy ("finished before this is called") or there was no file.
\* st, fin, use: what the caller has done to status, finished and inUse.
LiveFile(r, dummy, st, fin, use) ==
  LET ends == m_buffer # Null /\ ~chainDummy
      marked == IF ends \/ m_buffer = Null THEN use \ {m_curRecording} ELSE use
  IN  /\ status' = Set(IF ends THEN FinalOf(st, m_curRecording) ELSE st, r, "Unknown")
      /\ finished' = IF ends THEN fin \cup Of(m_curRecording) ELSE fin
      /\ inUse' = marked \cup {r}
      /\ dropped' = IF ends THEN dropped ELSE dropped \cup (Of(m_curRecording) \ (fin \ marked))
      /\ started' = started \cup {r}
      /\ kept' = IF m_pseudoLiveTVRecording # Null /\ ~dummy THEN kept \cup {r} ELSE kept
      /\ m_curRecording' = r
      /\ m_buffer' = r
      /\ m_switchingBuffer' = FALSE
      /\ chainDummy' = dummy
      /\ programOver' = FALSE

\* Live TV cannot make its file: the channel is unknown (so is every channel once
\* the bound on live recordings is reached) ...
NoLiveChannel(pseudo) ==
  ("channel" \in Faults \/ NextLive(pseudo) = {}) /\ UNCHANGED <<started, dropped>>

\* ... or the file is not opened, after the row was made.
NoLiveBuffer(pseudo) ==
  /\ "file" \in Faults
  /\ \E r \in NextLive(pseudo) : started' = started \cup {r} /\ dropped' = dropped \cup {r}

NoLiveFile(pseudo) == NoLiveChannel(pseudo) \/ NoLiveBuffer(pseudo)

Live == "LiveTV" \in m_lastTuningRequest.flags

FrequencyFrame ==
  UNCHANGED <<lock, m_internalState, m_lastTuningRequest, sleepVars, m_recStatus, over,
              m_pseudoLiveTVRecording, m_tvChain, m_pending, recorderVars, clientVars>>

\* TuningFrequency: the channel cannot be set.
TuningFails ==
  /\ epc = "frequency"
  /\ "channel" \in Faults
  /\ status' = Set(status, m_curRecording, "Failed")
  /\ IF m_internalState # "None"
       THEN ChangeState("None") /\ UNCHANGED m_tuningRequests
       ELSE NoStateChange /\ m_tuningRequests' = Append(m_tuningRequests, Request({"KillRec"}, Null))
  /\ epc' = TuningNext(m_stateFlags)
  /\ UNCHANGED <<m_stateFlags, m_curRecording, programOver, m_reachedRecordingDeadline, chainDummy,
                 m_buffer, m_switchingBuffer, started, finished, inUse, dropped, kept>>
  /\ FrequencyFrame

\* The channel is one that the recorder's stream has already.
TuningOnSameMultiplex ==
  /\ epc = "frequency"
  /\ m_recorder # "none"
  /\ "SignalMonitorRunning" \notin m_stateFlags
  /\ m_stateFlags' = m_stateFlags \cup {"NeedToStartRecorder"}
  /\ epc' = TuningNext(m_stateFlags')
  /\ UNCHANGED <<m_desiredNextState, m_changeState, m_tuningRequests, m_curRecording, programOver,
                 m_reachedRecordingDeadline, chainDummy, m_buffer, m_switchingBuffer, dbVars, kept>>
  /\ FrequencyFrame

\* The flags that a signal monitor which starts, or does not, leaves.
Monitored(flags, error) ==
  IF error THEN (flags \cup {"SignalMonitorRunning"}) \ {"WaitingForSignal"}
           ELSE flags \cup {"SignalMonitorRunning", "WaitingForSignal", "NeedToStartRecorder"}

MonitorErrors == IF "monitor" \in Faults THEN BOOLEAN ELSE {FALSE}

\* For a recording.
TuningRecording ==
  /\ epc = "frequency"
  /\ ~Live
  /\ \E error \in MonitorErrors :
       /\ m_stateFlags' = Monitored(m_stateFlags, error)
       /\ m_reachedRecordingDeadline' = (m_reachedRecordingDeadline /\ (error \/ m_curRecording = Null))
  /\ epc' = TuningNext(m_stateFlags')
  /\ UNCHANGED <<m_desiredNextState, m_changeState, m_tuningRequests, m_curRecording, programOver,
                 chainDummy, m_buffer, m_switchingBuffer, dbVars, kept>>
  /\ FrequencyFrame

\* For live TV, which shows a dummy until there is a signal.
TuningLive ==
  /\ epc = "frequency"
  /\ Live /\ m_tvChain
  /\ \E r \in NextLive(Null), error \in MonitorErrors :
       /\ LiveFile(r, TRUE, status, finished, inUse)
       /\ m_stateFlags' = Monitored(m_stateFlags, error)
                            \cup {"DummyRecorderRunning", "RingBufferReady"}
       /\ m_reachedRecordingDeadline' = (m_reachedRecordingDeadline /\ error)
  /\ epc' = TuningNext(m_stateFlags')
  /\ UNCHANGED <<m_desiredNextState, m_changeState, m_tuningRequests>>
  /\ FrequencyFrame

\* No file for the dummy (no action is pending here that could be cleared).
TuningLiveFails ==
  /\ epc = "frequency"
  /\ Live
  /\ NoLiveFile(Null)
  /\ ChangeState("None")
  /\ epc' = TuningNext(m_stateFlags)
  /\ UNCHANGED <<m_stateFlags, m_tuningRequests, m_curRecording, programOver, m_reachedRecordingDeadline,
                 chainDummy, m_buffer, m_switchingBuffer, status, finished, inUse, kept>>
  /\ FrequencyFrame

TuningFrequency == TuningFails \/ TuningOnSameMultiplex \/ TuningRecording \/ TuningLive \/ TuningLiveFails

\* TuningSignalCheck and what it tells about the recording.
Signal(newStatus, flags, deadline) ==
  /\ m_recStatus' = newStatus
  /\ status' = Set(status, m_curRecording, newStatus)
  /\ m_stateFlags' = m_stateFlags \ flags
  /\ m_reachedRecordingDeadline' = deadline
  /\ epc' = IF "WaitingForSignal" \in m_stateFlags' THEN PendingNext ELSE TuningNext(m_stateFlags')

TuningSignalCheck ==
  /\ epc = "signal"
  /\ LET stop == {"SignalMonitorRunning", "WaitingForSignal"}
     IN  \/ \E s \in {"Recording", "Failing"} :      \* good, perhaps late
              /\ s = "Failing" => m_curRecording # Null /\ "late" \in Faults
              /\ Signal(s, stop, m_reachedRecordingDeadline)
         \/ /\ "signal" \in Faults                   \* failed or timed out
            /\ Signal("Failed", stop \cup {"NeedToStartRecorder"}, m_reachedRecordingDeadline)
         \/ /\ "late" \in Faults                     \* the deadline passes
            /\ m_curRecording # Null /\ ~m_reachedRecordingDeadline
            /\ Signal("Failing", {}, TRUE)
  /\ UNCHANGED <<lock, stateVars, tuneVars, sleepVars, m_curRecording, over, programOver, liveVars,
                 m_pending, m_buffer, m_switchingBuffer, recorderVars, started, finished, inUse, dropped>>
  /\ EventFrame

\* No news.
NoSignalCheck ==
  /\ epc = "signal"
  /\ epc' = PendingNext
  /\ UNCHANGED <<lock, stateVars, m_stateFlags, tuneVars, sleepVars, m_curRecording, m_recStatus, timeVars,
                 liveVars, m_pending, m_buffer, m_switchingBuffer, recorderVars, dbVars>>
  /\ EventFrame

StartFrame ==
  UNCHANGED <<m_internalState, tuneVars, sleepVars, m_reachedRecordingDeadline,
              m_pseudoLiveTVRecording, m_tvChain, m_pending, clientVars>>

\* TuningNewRecorder finishes the dummy first.
HadDummy == "DummyRecorderRunning" \in m_stateFlags
StatusAfterDummy == IF HadDummy THEN FinalOf(status, m_curRecording) ELSE status
FinishedAfterDummy == IF HadDummy THEN finished \cup Of(m_curRecording) ELSE finished
InUseAfterDummy == IF HadDummy THEN inUse \ {m_curRecording} ELSE inUse

\* TuningNewRecorderReal gets a file from live TV, whatever was asked for ...
NewRecorderLive ==
  /\ epc = "start" /\ m_recorder = "none"
  /\ m_tvChain
  /\ \E r \in NextLive(m_pseudoLiveTVRecording) :
       LiveFile(r, FALSE, StatusAfterDummy, FinishedAfterDummy, InUseAfterDummy)
  /\ m_stateFlags' = (m_stateFlags \ {"DummyRecorderRunning"})
                       \cup (IF m_buffer = Null THEN {"RingBufferReady"} ELSE {})
  /\ epc' = "create"
  /\ UNCHANGED <<lock, m_desiredNextState, m_changeState, m_recStatus, over, recorderVars>>
  /\ StartFrame

\* ... or makes that of the recording.
NewRecorderFile ==
  /\ epc = "start" /\ m_recorder = "none"
  /\ ~m_tvChain
  /\ m_buffer' = IF Live THEN m_buffer ELSE m_lastTuningRequest.program
  /\ m_buffer' # Null
  /\ m_switchingBuffer' = FALSE
  /\ m_stateFlags' = m_stateFlags \ {"DummyRecorderRunning"}
  /\ status' = StatusAfterDummy /\ finished' = FinishedAfterDummy /\ inUse' = InUseAfterDummy
  /\ epc' = "create"
  /\ UNCHANGED <<lock, m_desiredNextState, m_changeState, m_curRecording, m_recStatus, over, programOver,
                 chainDummy, recorderVars, started, dropped, kept>>
  /\ StartFrame

\* The request has lost its recording, which TuningNewRecorderReal dereferences.
NewRecorderCrash ==
  /\ epc = "start" /\ m_recorder = "none"
  /\ ~m_tvChain /\ ~Live
  /\ m_lastTuningRequest.program = Null
  /\ epc' = "crashed"
  /\ UNCHANGED <<lock, m_desiredNextState, m_changeState, m_stateFlags, m_curRecording, m_recStatus,
                 over, programOver, chainDummy, m_buffer, m_switchingBuffer, recorderVars, dbVars, kept>>
  /\ StartFrame

\* TuningNewRecorder when there is no recorder in the end.
NewRecorderFailed ==
  /\ m_recStatus' = "Failed"
  /\ ChangeState("None")
  /\ epc' = PendingNext

\* No file.  Live TV that had none calls it ready nevertheless, and no longer needs
\* a recorder if the new one was not opened.
NewRecorderNoFile ==
  /\ epc = "start" /\ m_recorder = "none"
  /\ IF m_tvChain
       THEN /\ \/ /\ NoLiveChannel(m_pseudoLiveTVRecording)
                  /\ m_stateFlags' = (m_stateFlags \ {"DummyRecorderRunning"})
                                       \cup (IF m_buffer = Null THEN {"RingBufferReady"} ELSE {})
               \/ /\ NoLiveBuffer(m_pseudoLiveTVRecording)
                  /\ m_stateFlags' = IF m_buffer = Null
                       THEN (m_stateFlags \ ({"DummyRecorderRunning"} \cup PendingActions))
                              \cup {"RingBufferReady"}
                       ELSE m_stateFlags \ {"DummyRecorderRunning"}
            /\ UNCHANGED <<m_buffer, m_switchingBuffer>>
       ELSE /\ "file" \in Faults \/ Live
            /\ Live => m_buffer = Null
            /\ m_buffer' = Null /\ m_switchingBuffer' = FALSE
            /\ m_stateFlags' = m_stateFlags \ ({"DummyRecorderRunning"} \cup
                                 (IF Live THEN {} ELSE PendingActions))
            /\ UNCHANGED <<started, dropped>>
  /\ status' = Set(StatusAfterDummy, m_lastTuningRequest.program, "Failed")
  /\ finished' = FinishedAfterDummy /\ inUse' = InUseAfterDummy
  /\ NewRecorderFailed
  /\ UNCHANGED <<lock, m_curRecording, over, programOver, chainDummy, recorderVars, kept>>
  /\ StartFrame

\* The recorder is made and its thread started; the lock is released to wait.
CreateRecorder ==
  /\ epc = "create"
  /\ m_recorder' = "starting" /\ UNCHANGED <<m_pause, m_nextRecording>>
  /\ lock' = Null
  /\ epc' = "starting"
  /\ UNCHANGED <<m_desiredNextState, m_changeState, m_stateFlags, m_curRecording, m_recStatus, over,
                 programOver, chainDummy, m_buffer, m_switchingBuffer, dbVars, kept>>
  /\ StartFrame

\* There is none, or it cannot be initialized: TeardownRecorder(kFlagKillRec).
CreateRecorderFails ==
  /\ epc = "create"
  /\ "recorder" \in Faults
  /\ status' = Set(status, m_curRecording, "Failed")
  /\ finished' = finished \cup Of(m_curRecording)
  /\ inUse' = inUse \ {m_curRecording}
  /\ m_curRecording' = Null
  /\ m_stateFlags' = m_stateFlags \ {"RecorderRunning", "NeedToStartRecorder"}
  /\ NewRecorderFailed
  /\ UNCHANGED <<lock, over, programOver, chainDummy, m_buffer, m_switchingBuffer, recorderVars,
                 started, dropped, kept>>
  /\ StartFrame

\* The recorder records, or has failed; both count as running.
RecorderStarted ==
  /\ epc = "starting"
  /\ lock = Null
  /\ m_recorder # "starting"
  /\ lock' = Event
  /\ m_stateFlags' = (m_stateFlags \ {"NeedToStartRecorder"}) \cup {"RecorderRunning", "RingBufferReady"}
  /\ epc' = PendingNext
  /\ UNCHANGED <<m_desiredNextState, m_changeState, m_curRecording, m_recStatus, over, programOver,
                 chainDummy, m_buffer, m_switchingBuffer, recorderVars, dbVars, kept>>
  /\ StartFrame

\* TuningRestartRecorder: the recording is finished, the recorder goes on with a
\* new file.  After a dummy the event thread sets the file; otherwise it is given
\* to the recorder as the next one and the switch made at once (RingBufferChanged).
TuningRestartRecorder ==
  /\ epc = "start" /\ m_recorder # "none"
  /\ m_tvChain
  /\ \E r \in NextLive(m_pseudoLiveTVRecording) :
       IF HadDummy
         THEN /\ LiveFile(r, FALSE, FinalOf(status, m_curRecording),
                          finished \cup Of(m_curRecording), inUse \ {m_curRecording})
              /\ UNCHANGED <<over, m_nextRecording>>
         ELSE /\ status' = Set(FinalOf(status, m_curRecording), r, "Recording")
              /\ finished' = finished \cup Of(m_curRecording)
              /\ inUse' = (inUse \ {m_curRecording}) \cup {r}
              /\ dropped' = dropped \cup Of(m_nextRecording)
              /\ started' = started \cup {r}
              /\ kept' = IF m_pseudoLiveTVRecording # Null THEN kept \cup {r} ELSE kept
              /\ m_curRecording' = r /\ m_buffer' = r /\ m_switchingBuffer' = FALSE
              /\ chainDummy' = FALSE /\ programOver' = FALSE
              /\ over' = 0
              /\ m_nextRecording' = Null
  /\ m_pause' = "no" /\ UNCHANGED m_recorder
  /\ m_stateFlags' = (m_stateFlags \ {"NeedToStartRecorder", "DummyRecorderRunning"})
                       \cup (IF HadDummy THEN {} ELSE {"RingBufferReady"})
  /\ epc' = PendingNext
  /\ UNCHANGED <<lock, m_desiredNextState, m_changeState, m_recStatus>>
  /\ StartFrame

\* The same without a file: the recorder goes on, and the state is to change.
TuningRestartFails ==
  /\ epc = "start" /\ m_recorder # "none"
  /\ IF m_tvChain THEN NoLiveFile(m_pseudoLiveTVRecording) ELSE UNCHANGED <<started, dropped>>
  /\ status' = FinalOf(status, m_curRecording)
  /\ finished' = finished \cup Of(m_curRecording)
  /\ inUse' = inUse \ {m_curRecording}
  /\ ChangeState("None")
  /\ m_pause' = "no" /\ UNCHANGED <<m_recorder, m_nextRecording>>
  /\ m_stateFlags' = m_stateFlags \ {"NeedToStartRecorder", "DummyRecorderRunning"}
  /\ epc' = PendingNext
  /\ UNCHANGED <<lock, m_curRecording, m_recStatus, over, programOver, chainDummy, m_buffer,
                 m_switchingBuffer, kept>>
  /\ StartFrame

HandleTuning ==
  \/ TuningShutdowns \/ TeardownStop \/ TeardownFinish \/ TeardownEnd \/ RequestTaken
  \/ WaitForRecPause \/ TuningFrequency \/ TuningSignalCheck \/ NoSignalCheck
  \/ NewRecorderLive \/ NewRecorderFile \/ NewRecorderCrash \/ NewRecorderNoFile \/ CreateRecorder
  \/ CreateRecorderFails \/ RecorderStarted \/ TuningRestartRecorder \/ TuningRestartFails

-----------------------------------------------------------------------------
(* The rest of the loop *)

LoopFrame == UNCHANGED <<m_internalState, tuneVars, m_reachedRecordingDeadline, m_tvChain,
                         clientVars>>

\* CheckForRecGroupChange, as it leaves m_pseudoLiveTVRecording.
PseudoChecked ==
  IF m_internalState = "None" \/ m_curRecording = Null THEN m_pseudoLiveTVRecording
  ELSE IF m_curRecording \notin kept THEN Null
  ELSE IF m_pseudoLiveTVRecording = Null THEN m_curRecording ELSE m_pseudoLiveTVRecording

\* HandlePendingRecordings: an entry whose time is long past goes, the user is
\* asked; a live TV recording that is kept cancels it (if it ends later).
HandlePendingRecordings ==
  /\ epc = "pending"
  /\ epc' = "ends"
  /\ \/ m_pending' = Null /\ UNCHANGED m_pseudoLiveTVRecording
     \/ /\ LET asked == m_pending.ask /\ GetState = "WatchingLiveTV"
           IN  /\ m_pseudoLiveTVRecording' = IF asked THEN PseudoChecked ELSE m_pseudoLiveTVRecording
               /\ \E longer \in BOOLEAN :
                    m_pending' = [ask |-> FALSE, canceled |->
                      m_pending.canceled \/ (asked /\ longer /\ m_pseudoLiveTVRecording' # Null)]
  /\ UNCHANGED <<lock, m_desiredNextState, m_changeState, m_stateFlags, sleepVars, m_curRecording,
                 m_recStatus, over, programOver, chainDummy, m_buffer, m_switchingBuffer, recorderVars,
                 dbVars, kept>>
  /\ LoopFrame

\* Live TV: what was to be recorded is over ...
EndPseudo == m_pseudoLiveTVRecording # Null /\ (over >= 1 \/ "FinishRecording" \in m_stateFlags)

\* ... or the program is: SwitchLiveTVRingBuffer gives the recorder its next file.
SwitchDue ==
  /\ m_pseudoLiveTVRecording = Null /\ m_pending = Null /\ m_curRecording # Null
  /\ programOver /\ ~m_switchingBuffer

\* A slip: the signal is set, nobody is woken.
LoopEnds_Silent ==
  IF m_tuningRequests = <<>> /\ ~m_changeState'
    THEN /\ epc' = "asleep" /\ lock' = Null
         /\ m_triggerEventSleepSignal' = TRUE /\ UNCHANGED dozing
    ELSE epc' = "top" /\ lock' = Event /\ UNCHANGED sleepVars

\* The loop ends.  With nothing left to do the lock is released, the event thread
\* sleeps and those who wait for that are told.
LoopEnds ==
  IF m_tuningRequests = <<>> /\ ~m_changeState'
    THEN /\ epc' = "asleep" /\ lock' = Null
         /\ m_triggerEventSleepSignal' = TRUE /\ dozing' = {}
    ELSE epc' = "top" /\ lock' = Event /\ UNCHANGED sleepVars

\* A slip: only FinishRecording ends a recording.
CheckEnd_Asked ==
  /\ epc = "ends" \/ (Awake /\ ~SomethingToDo)
  /\ LET ends == /\ GetState = "RecordingOnly"
                 /\ "FinishRecording" \in m_stateFlags
         error == m_curRecording # Null /\ m_recorder = "error"
     IN  /\ IF ends \/ (error /\ GetState # "WatchingLiveTV") THEN ChangeState("None") ELSE NoStateChange
         /\ m_stateFlags' = IF ends THEN m_stateFlags \ {"FinishRecording"} ELSE m_stateFlags
         /\ status' = IF error THEN Set(status, m_curRecording, "Failed") ELSE status
  /\ IF GetState = "WatchingLiveTV" /\ (EndPseudo \/ SwitchDue)
       THEN epc' = "live" /\ lock' = Event /\ UNCHANGED sleepVars ELSE LoopEnds
  /\ UNCHANGED <<m_curRecording, m_recStatus, over, programOver, m_pseudoLiveTVRecording, chainDummy,
                 m_pending, m_buffer, m_switchingBuffer, recorderVars, started, finished, inUse,
                 dropped, kept>>
  /\ LoopFrame

\* The recording is over, or somebody asked to finish it; the recorder failed.
CheckEnd ==
  /\ epc = "ends" \/ (Awake /\ ~SomethingToDo)
  /\ LET ends == /\ GetState = "RecordingOnly"
                 /\ \/ over >= IF m_pending # Null THEN 2 ELSE 1
                    \/ "FinishRecording" \in m_stateFlags
         error == m_curRecording # Null /\ m_recorder = "error"
     IN  /\ IF ends \/ (error /\ GetState # "WatchingLiveTV") THEN ChangeState("None") ELSE NoStateChange
         /\ m_stateFlags' = IF ends THEN m_stateFlags \ {"FinishRecording"} ELSE m_stateFlags
         /\ status' = IF error THEN Set(status, m_curRecording, "Failed") ELSE status
  /\ IF GetState = "WatchingLiveTV" /\ (EndPseudo \/ SwitchDue)
       THEN epc' = "live" /\ lock' = Event /\ UNCHANGED sleepVars ELSE LoopEnds
  /\ UNCHANGED <<m_curRecording, m_recStatus, over, programOver, m_pseudoLiveTVRecording, chainDummy,
                 m_pending, m_buffer, m_switchingBuffer, recorderVars, started, finished, inUse,
                 dropped, kept>>
  /\ LoopFrame

CheckLiveFrame ==
  /\ LoopEnds
  /\ UNCHANGED <<m_curRecording, m_recStatus, over, programOver, m_pending, m_buffer,
                 m_recorder, m_pause, status, finished>>
  /\ LoopFrame

CheckLive ==
  /\ epc = "live"
  /\ EndPseudo
  /\ m_pseudoLiveTVRecording' = Null
  /\ NoStateChange
  /\ UNCHANGED <<m_stateFlags, chainDummy, m_switchingBuffer, m_nextRecording, started, inUse, dropped, kept>>
  /\ CheckLiveFrame

SwitchLive ==
  /\ epc = "live"
  /\ SwitchDue
  /\ m_switchingBuffer' = TRUE
  /\ \/ /\ NoLiveFile(Null)
        /\ ChangeState("None")
        /\ UNCHANGED <<m_stateFlags, chainDummy, m_nextRecording, inUse>>
     \/ \E r \in NextLive(Null) :
          /\ m_tvChain
          /\ started' = started \cup {r} /\ inUse' = inUse \cup {r}
          /\ chainDummy' = FALSE
          /\ IF m_recorder # "none"
               THEN /\ m_nextRecording' = r
                    /\ dropped' = dropped \cup Of(m_nextRecording)
                    /\ m_stateFlags' = m_stateFlags \cup {"RingBufferReady"}
               ELSE dropped' = dropped \cup {r} /\ UNCHANGED <<m_nextRecording, m_stateFlags>>
          /\ NoStateChange
  /\ UNCHANGED <<m_pseudoLiveTVRecording, kept>>
  /\ CheckLiveFrame

EventThread ==
  \/ HandleStateChange \/ HandleTuning \/ HandlePendingRecordings \/ CheckEnd \/ CheckLive
  \/ SwitchLive

-----------------------------------------------------------------------------
(* The recorder's thread, time, the user *)

ElseFrame == UNCHANGED <<epc, stateVars, tuneVars, sleepVars, m_recStatus, m_pending, clientVars>>

\* RecorderBase::run begins to record, or fails.
RecorderRuns ==
  /\ Free
  /\ m_recorder = "starting"
  /\ m_recorder' \in {"running"} \cup (IF "device" \in Faults THEN {"error"} ELSE {})
  /\ UNCHANGED <<lock, m_stateFlags, m_curRecording, timeVars, liveVars, m_buffer, m_switchingBuffer,
                 m_pause, m_nextRecording, dbVars, kept>>
  /\ ElseFrame

RecorderErrs ==
  /\ Free
  /\ "device" \in Faults
  /\ m_recorder = "running"
  /\ m_recorder' = "error"
  /\ UNCHANGED <<lock, m_stateFlags, m_curRecording, timeVars, liveVars, m_buffer, m_switchingBuffer,
                 m_pause, m_nextRecording, dbVars, kept>>
  /\ ElseFrame

\* RecorderBase::PauseAndWait.
RecorderPauses ==
  /\ Free
  /\ m_recorder = "running" /\ m_pause = "asked"
  /\ m_pause' = "paused"
  /\ UNCHANGED <<lock, m_stateFlags, m_curRecording, timeVars, liveVars, m_buffer, m_switchingBuffer,
                 m_recorder, m_nextRecording, dbVars, kept>>
  /\ ElseFrame

\* A slip: the mark of the last recording stays.
RingBufferChanged_Marked ==
  /\ m_recorder = "running" /\ m_pause # "paused"
  /\ m_nextRecording # Null
  /\ lock = Null
  /\ status' = [FinalOf(status, m_curRecording) EXCEPT ![m_nextRecording] = "Recording"]
  /\ finished' = (finished \cup Of(m_curRecording)) \ {m_nextRecording}
  /\ inUse' = inUse \cup {m_nextRecording}
  /\ m_curRecording' = m_nextRecording
  /\ over' = 0 /\ programOver' = FALSE /\ UNCHANGED m_reachedRecordingDeadline
  /\ m_buffer' = m_nextRecording /\ m_switchingBuffer' = FALSE
  /\ m_stateFlags' = m_stateFlags \ {"DummyRecorderRunning"}
  /\ m_nextRecording' = Null
  /\ UNCHANGED <<lock, liveVars, m_recorder, m_pause, started, dropped, kept>>
  /\ ElseFrame

\* A slip: SetRingBuffer is not called.
RingBufferChanged_Unset ==
  /\ m_recorder = "running" /\ m_pause # "paused"
  /\ m_nextRecording # Null
  /\ lock = Null
  /\ status' = [FinalOf(status, m_curRecording) EXCEPT ![m_nextRecording] = "Recording"]
  /\ finished' = (finished \cup Of(m_curRecording)) \ {m_nextRecording}
  /\ inUse' = (inUse \ {m_curRecording}) \cup {m_nextRecording}
  /\ m_curRecording' = m_nextRecording
  /\ over' = 0 /\ programOver' = FALSE /\ UNCHANGED m_reachedRecordingDeadline
  /\ UNCHANGED m_buffer /\ m_switchingBuffer' = FALSE
  /\ m_stateFlags' = m_stateFlags \ {"DummyRecorderRunning"}
  /\ m_nextRecording' = Null
  /\ UNCHANGED <<lock, liveVars, m_recorder, m_pause, started, dropped, kept>>
  /\ ElseFrame

\* CheckForRingBufferSwitch in the recorder's thread, with RingBufferChanged.
RingBufferChanged ==
  /\ m_recorder = "running" /\ m_pause # "paused"
  /\ m_nextRecording # Null
  /\ lock = Null
  /\ status' = [FinalOf(status, m_curRecording) EXCEPT ![m_nextRecording] = "Recording"]
  /\ finished' = (finished \cup Of(m_curRecording)) \ {m_nextRecording}
  /\ inUse' = (inUse \ {m_curRecording}) \cup {m_nextRecording}
  /\ m_curRecording' = m_nextRecording
  /\ over' = 0 /\ programOver' = FALSE /\ UNCHANGED m_reachedRecordingDeadline
  /\ m_buffer' = m_nextRecording /\ m_switchingBuffer' = FALSE
  /\ m_stateFlags' = m_stateFlags \ {"DummyRecorderRunning"}
  /\ m_nextRecording' = Null
  /\ UNCHANGED <<lock, liveVars, m_recorder, m_pause, started, dropped, kept>>
  /\ ElseFrame

\* Time passes: the end of the recording, of the program on air, where it is looked at.
TimePasses ==
  /\ Free
  /\ m_curRecording # Null
  /\ \/ /\ m_internalState = "RecordingOnly" \/ m_pseudoLiveTVRecording # Null
        /\ over < (IF m_pending = Null THEN 1 ELSE 2)
        /\ over' = over + 1 /\ UNCHANGED programOver
     \/ /\ m_internalState = "WatchingLiveTV"
        /\ ~programOver /\ programOver' = TRUE /\ UNCHANGED over
  /\ UNCHANGED <<lock, m_stateFlags, m_curRecording, m_reachedRecordingDeadline, liveVars, m_buffer,
                 m_switchingBuffer, recorderVars, dbVars, kept>>
  /\ ElseFrame

\* The user changes the recording group of what is recorded by live TV (a row).
KeepLive ==
  /\ \E c \in Clients : "SetLiveRecording" \in Ops[c]
  /\ m_internalState = "WatchingLiveTV"
  /\ m_curRecording \in LiveRecs
  /\ kept' = (kept \ {m_curRecording}) \cup ({m_curRecording} \ kept)
  /\ calls < MaxCalls /\ calls' = calls + 1
  /\ UNCHANGED <<lock, m_stateFlags, m_curRecording, timeVars, liveVars, m_buffer, m_switchingBuffer,
                 recorderVars, dbVars, epc, stateVars, tuneVars, sleepVars, m_recStatus, m_pending,
                 cpc, cont, program, cancelNext, result>>

-----------------------------------------------------------------------------
(* Clients: WaitForEventThreadSleep *)

WaitFrame == UNCHANGED <<epc, stateVars, m_stateFlags, tuneVars, m_curRecording, m_recStatus, timeVars,
                         liveVars, m_pending, m_buffer, m_switchingBuffer, recorderVars, dbVars, kept,
                         program, cancelNext, result, calls>>

\* The wait begins; the client goes on at `next`.
Wait(c, next) ==
  /\ cpc' = [cpc EXCEPT ![c] = "doze"]
  /\ cont' = [cont EXCEPT ![c] = next]

Doze(c) ==
  /\ Free
  /\ cpc[c] = "doze"
  /\ IF m_triggerEventSleepSignal
       THEN /\ m_triggerEventSleepSignal' = FALSE /\ UNCHANGED dozing
            /\ cpc' = [cpc EXCEPT ![c] = "relock"]
       ELSE /\ dozing' = dozing \cup {c} /\ UNCHANGED m_triggerEventSleepSignal
            /\ cpc' = [cpc EXCEPT ![c] = "dozing"]
  /\ UNCHANGED <<lock, cont>>
  /\ WaitFrame

Woken(c) ==
  /\ Free
  /\ cpc[c] = "dozing"
  /\ c \notin dozing
  /\ m_triggerEventSleepSignal' = FALSE
  /\ cpc' = [cpc EXCEPT ![c] = "relock"]
  /\ UNCHANGED <<lock, dozing, cont>>
  /\ WaitFrame

\* With the lock again it looks whether the event thread has nothing to do; if so,
\* the client goes on.
Resumes(c, at) ==
  /\ cpc[c] = "relock" /\ cont[c] = at
  /\ lock = Null
  /\ m_tuningRequests = <<>> /\ ~m_changeState

Relock(c) ==
  /\ cpc[c] = "relock"
  /\ lock = Null
  /\ m_tuningRequests # <<>> \/ m_changeState
  /\ cpc' = [cpc EXCEPT ![c] = "doze"]
  /\ UNCHANGED <<lock, sleepVars, cont>>
  /\ WaitFrame

\* The call ends.
Returns(c) == cpc' = [cpc EXCEPT ![c] = "idle"] /\ cont' = [cont EXCEPT ![c] = Null]

\* A call begins; one that needs the lock at once gets it.
Begins(c, op) ==
  /\ op \in Ops[c]
  /\ cpc[c] = "idle"
  /\ calls < MaxCalls /\ calls' = calls + 1

-----------------------------------------------------------------------------
(* StartRecording *)

StartRecordingFrame == UNCHANGED <<lock, epc, m_internalState, tuneVars, sleepVars,
                                   m_reachedRecordingDeadline, m_buffer, kept>>

StartRecording(c, p) ==
  /\ Begins(c, "StartRecording")
  /\ lock = Null
  /\ p \notin finished                       \* the scheduler's order: one call at a
  /\ \A d \in Clients : program[d] # p        \* time, none for what is recorded
  /\ program' = [program EXCEPT ![c] = p]
  /\ m_recStatus' = IF m_recStatus = "Failing" THEN m_recStatus ELSE "Aborted"
  /\ result' = [result EXCEPT ![p] = Null]
  /\ Wait(c, "start2")
  /\ UNCHANGED <<m_desiredNextState, m_changeState, m_stateFlags, m_curRecording, over, programOver,
                 liveVars, m_pending, m_switchingBuffer, recorderVars, dbVars, cancelNext>>
  /\ StartRecordingFrame

\* The call returns s.
StartReturns(c, s) ==
  /\ result' = [result EXCEPT ![program[c]] = s]
  /\ program' = [program EXCEPT ![c] = Null]
  /\ cancelNext' = [cancelNext EXCEPT ![c] = FALSE]
  /\ Returns(c)

\* The program is the current recording: only its end is moved ...
Extends(c) ==
  m_internalState # "WatchingLiveTV" /\ m_recStatus # "Failing" /\ m_curRecording = program[c]

StartExtends(c) ==
  /\ Resumes(c, "start2")
  /\ Extends(c)
  /\ over' = 0
  /\ m_stateFlags' = m_stateFlags \ {"CancelNextRecording"}
  /\ m_recStatus' = "Recording"
  /\ StartReturns(c, "Recording")
  /\ UNCHANGED <<m_desiredNextState, m_changeState, m_curRecording, programOver, liveVars, m_pending,
                 m_switchingBuffer, recorderVars, dbVars, calls>>
  /\ StartRecordingFrame

\* ... or the entry of the pending recording is looked at.
StartAsks(c) ==
  /\ Resumes(c, "start2")
  /\ ~Extends(c)
  /\ m_pending' = IF m_pending = Null THEN Null ELSE [m_pending EXCEPT !.ask = FALSE]
  /\ cancelNext' = [cancelNext EXCEPT ![c] = m_pending # Null /\ m_pending.canceled]
  /\ Wait(c, "start3")
  /\ UNCHANGED <<m_desiredNextState, m_changeState, m_stateFlags, m_curRecording, m_recStatus, over,
                 programOver, liveVars, m_switchingBuffer, recorderVars, dbVars, program, result, calls>>
  /\ StartRecordingFrame

\* SwitchRecordingRingBuffer: the recorder goes on with the next file ...
CanSwitch == ~m_switchingBuffer /\ m_recorder # "none" /\ m_curRecording # Null

StartSwitches(c) ==
  /\ Resumes(c, "start3")
  /\ ~cancelNext[c] /\ GetState = "RecordingOnly"
  /\ CanSwitch
  /\ inUse' = inUse \cup {program[c]}
  /\ started' = started \cup {program[c]}
  /\ m_nextRecording' = program[c]
  /\ dropped' = dropped \cup Of(m_nextRecording)
  /\ over' = 0
  /\ m_switchingBuffer' = TRUE
  /\ m_stateFlags' = (m_stateFlags \ {"CancelNextRecording"}) \cup {"RingBufferReady"}
  /\ m_recStatus' = "Recording"
  /\ m_pending' = Null
  /\ StartReturns(c, "Recording")
  /\ UNCHANGED <<m_desiredNextState, m_changeState, m_curRecording, programOver, liveVars, m_recorder,
                 m_pause, status, finished, calls>>
  /\ StartRecordingFrame

\* ... or cannot (another channel or profile; no file): the recording is stopped.
StartStops(c) ==
  /\ Resumes(c, "start3")
  /\ ~cancelNext[c] /\ GetState = "RecordingOnly"
  /\ \/ UNCHANGED <<status, started, finished>>
     \/ /\ "file" \in Faults /\ CanSwitch
        /\ started' = started \cup {program[c]}
        /\ finished' = finished \cup {program[c]}
        /\ status' = [status EXCEPT ![program[c]] = "Failed"]
  /\ cpc' = [cpc EXCEPT ![c] = "stop"]
  /\ UNCHANGED <<m_desiredNextState, m_changeState, m_stateFlags, m_curRecording, m_recStatus, over,
                 programOver, liveVars, m_pending, m_switchingBuffer, recorderVars, inUse, dropped, cont,
                 program, cancelNext, result, calls>>
  /\ StartRecordingFrame

\* Then the state decides: begin to record ...
StartBegins(c) ==
  /\ ~cancelNext'[c] /\ GetState = "None"
  /\ m_tvChain' = FALSE /\ UNCHANGED <<m_pseudoLiveTVRecording, chainDummy>>
  /\ over' = 0 /\ programOver' = FALSE
  /\ m_curRecording' = program[c]
  /\ dropped' = dropped \cup Of(m_curRecording)
  /\ inUse' = inUse \cup {program[c]}
  /\ NewRow(program[c])
  /\ m_stateFlags' = m_stateFlags \ {"CancelNextRecording"}
  /\ m_recStatus' = IF m_recStatus = "Failing" THEN m_recStatus ELSE "Tuning"
  /\ ChangeState("RecordingOnly")

\* ... let live TV make the recording ...
StartInLive(c) ==
  /\ ~cancelNext'[c] /\ GetState = "WatchingLiveTV"
  /\ m_pseudoLiveTVRecording' = program[c] /\ UNCHANGED <<m_tvChain, chainDummy>>
  /\ over' = 0 /\ UNCHANGED programOver
  /\ m_recStatus' = "Recording"
  /\ NoStateChange
  /\ UNCHANGED <<m_curRecording, dbVars, m_stateFlags>>

\* ... or refuse.
StartRefused(c) ==
  /\ cancelNext'[c] \/ GetState \notin {"None", "WatchingLiveTV"}
  /\ m_recStatus' = IF cancelNext'[c] THEN "Cancelled" ELSE "TunerBusy"
  /\ NoStateChange
  /\ UNCHANGED <<liveVars, over, programOver, m_curRecording, dbVars, m_stateFlags>>

\* The recording is not cancelled by recordings on conflicting inputs that could not
\* be stopped (only looked at with an entry), and no other one is in the way; or
\* StopRecording came back.
StartDecides(c) ==
  /\ \/ /\ Resumes(c, "start3")
        /\ \E conflict \in BOOLEAN :
             /\ conflict => m_pending # Null
             /\ cancelNext' = [cancelNext EXCEPT ![c] = @ \/ conflict]
        /\ cancelNext'[c] \/ GetState # "RecordingOnly"
     \/ /\ cpc[c] = "startStop" /\ lock = Null
        /\ UNCHANGED cancelNext
  /\ StartBegins(c) \/ StartInLive(c) \/ StartRefused(c)
  /\ m_pending' = Null
  /\ Wait(c, "start5")
  /\ UNCHANGED <<m_switchingBuffer, recorderVars, program, result, calls>>
  /\ StartRecordingFrame

StartEnds(c) ==
  /\ Resumes(c, "start5")
  /\ m_recStatus' = IF /\ m_curRecording # Null /\ status[m_curRecording] = "Failed"
                       /\ m_recStatus \in {"Recording", "Tuning", "Failing"}
                      THEN "Failed" ELSE m_recStatus
  /\ StartReturns(c, m_recStatus')
  /\ UNCHANGED <<m_desiredNextState, m_changeState, m_stateFlags, m_curRecording, over, programOver,
                 liveVars, m_pending, m_switchingBuffer, recorderVars, dbVars, calls>>
  /\ StartRecordingFrame

-----------------------------------------------------------------------------
(* StopRecording *)

StopFrame == UNCHANGED <<lock, epc, m_internalState, tuneVars, sleepVars, m_curRecording, timeVars, liveVars,
                         m_pending, m_buffer, m_switchingBuffer, recorderVars, status, started, finished,
                         inUse, kept, program, cancelNext, result>>

StopRecording(c) ==
  /\ Begins(c, "StopRecording")
  /\ cpc' = [cpc EXCEPT ![c] = "stop"]
  /\ UNCHANGED <<m_desiredNextState, m_changeState, m_stateFlags, m_recStatus, dropped, cont>>
  /\ StopFrame

\* Where it returns to.
StopReturn(c) == [cpc EXCEPT ![c] = IF program[c] = Null THEN "idle" ELSE "startStop"]

\* The state is read without the lock.
StopLooks(c) ==
  /\ cpc[c] = "stop"
  /\ cpc' = IF StateIsRecording(GetState) THEN [cpc EXCEPT ![c] = "stop2"] ELSE StopReturn(c)
  /\ UNCHANGED <<m_desiredNextState, m_changeState, m_stateFlags, m_recStatus, dropped, cont, calls>>
  /\ StopFrame

\* With the lock it is read again.  If it is changing now, what was to be changed
\* to is replaced by Error, and a recording that was to begin is not.
StopAsks(c) ==
  /\ cpc[c] = "stop2"
  /\ lock = Null
  /\ \E killFile \in {FALSE} \cup (IF program[c] = Null THEN {TRUE} ELSE {}) :
       m_stateFlags' = m_stateFlags \cup (IF killFile THEN {"KillRec"} ELSE {})
  /\ ChangeState(RemoveRecording(GetState))
  /\ dropped' = IF m_changeState /\ m_internalState = "None" THEN dropped \cup Of(m_curRecording) ELSE dropped
  /\ Wait(c, "stop3")
  /\ UNCHANGED <<m_recStatus, calls>>
  /\ StopFrame

StopEnds(c) ==
  /\ Resumes(c, "stop3")
  /\ m_stateFlags' = m_stateFlags \ {"CancelNextRecording", "KillRec"}
  /\ m_recStatus' = "Unknown"
  /\ cpc' = StopReturn(c)
  /\ cont' = [cont EXCEPT ![c] = Null]
  /\ UNCHANGED <<m_desiredNextState, m_changeState, dropped, calls>>
  /\ StopFrame

\* FinishRecording sets a flag.
FinishRecording(c) ==
  /\ Begins(c, "FinishRecording")
  /\ lock = Null
  /\ m_stateFlags' = m_stateFlags \cup {"FinishRecording"}
  /\ UNCHANGED <<m_desiredNextState, m_changeState, m_recStatus, dropped, cpc, cont>>
  /\ StopFrame

-----------------------------------------------------------------------------
(* Live TV *)

LiveFrame == UNCHANGED <<lock, epc, m_internalState, sleepVars, m_curRecording, m_recStatus, programOver,
                         m_reachedRecordingDeadline, m_pending, m_buffer, m_switchingBuffer,
                         started, finished, inUse, dropped, kept, program, cancelNext, result>>

\* A frontend asks for live TV on an input that it found free; it may have
\* begun to record since.  Its chain is new and has no entries.
SpawnLiveTV(c) ==
  /\ Begins(c, "SpawnLiveTV")
  /\ lock = Null
  /\ ~m_tvChain
  /\ m_tvChain' = TRUE /\ chainDummy' = FALSE
  /\ ChangeState("WatchingLiveTV")
  /\ Wait(c, "spawn2")
  /\ UNCHANGED <<m_stateFlags, tuneVars, over, m_pseudoLiveTVRecording, recorderVars, status>>
  /\ LiveFrame

SpawnEnds(c) ==
  /\ Resumes(c, "spawn2")
  /\ m_stateFlags' = m_stateFlags \cup {"CancelNextRecording"}
  /\ Returns(c)
  /\ UNCHANGED <<m_desiredNextState, m_changeState, tuneVars, over, liveVars, recorderVars, status,
                 calls>>
  /\ LiveFrame

\* A pseudo recording is new: the scheduler hears of it.
Notified == m_pseudoLiveTVRecording = Null /\ m_pseudoLiveTVRecording' # Null
NotifyScheduler ==
  /\ status' = IF Notified THEN Set(status, m_curRecording, "Recording") ELSE status
  /\ over' = IF m_pseudoLiveTVRecording' # Null THEN 0 ELSE over

\* What the user wants to keep goes on as a recording.
StopLiveTV(c) ==
  /\ Begins(c, "StopLiveTV")
  /\ lock = Null
  /\ m_internalState = "WatchingLiveTV"
  /\ m_pseudoLiveTVRecording' = PseudoChecked
  /\ NotifyScheduler
  /\ m_stateFlags' = IF Notified THEN m_stateFlags \ {"CancelNextRecording"} ELSE m_stateFlags
  /\ ChangeState(IF m_pseudoLiveTVRecording' # Null THEN "RecordingOnly" ELSE "None")
  /\ Wait(c, "stopLive2")
  /\ UNCHANGED <<tuneVars, m_tvChain, chainDummy, recorderVars>>
  /\ LiveFrame

StopLiveEnds(c) ==
  /\ Resumes(c, "stopLive2")
  /\ m_tvChain' = FALSE
  /\ Returns(c)
  /\ UNCHANGED <<m_desiredNextState, m_changeState, m_stateFlags, tuneVars, over, m_pseudoLiveTVRecording,
                 chainDummy, recorderVars, status, calls>>
  /\ LiveFrame

\* The frontend says that the recording group changed.
SetLiveRecording(c) ==
  /\ Begins(c, "SetLiveRecording")
  /\ lock = Null
  /\ m_internalState = "WatchingLiveTV" /\ m_curRecording # Null
  /\ m_pseudoLiveTVRecording' = PseudoChecked
  /\ status' = IF Notified THEN Set(status, m_curRecording, "Recording") ELSE status
  /\ over' = IF Notified THEN 0 ELSE over
  /\ m_stateFlags' = IF Notified THEN m_stateFlags \ {"CancelNextRecording"}
                     ELSE IF m_pseudoLiveTVRecording # m_pseudoLiveTVRecording'
                     THEN m_stateFlags \cup {"CancelNextRecording"} ELSE m_stateFlags
  /\ UNCHANGED <<m_desiredNextState, m_changeState, tuneVars, m_tvChain, chainDummy, recorderVars, cpc,
                 cont>>
  /\ LiveFrame

\* The frontend that watches, and so has the chain, pauses the recorder and
\* changes the channel.
PauseRecorder(c) ==
  /\ Begins(c, "SetChannel")
  /\ lock = Null
  /\ m_internalState = "WatchingLiveTV" /\ m_tvChain
  /\ m_pause' = IF m_recorder # "none" /\ m_pause = "no" THEN "asked" ELSE m_pause
  /\ UNCHANGED <<m_recorder, m_nextRecording>>
  /\ \A d \in Clients : cont[d] \notin {"channel2", "channel3", "channel4"}
  /\ Wait(c, "channel2")                        \* SetChannel begins
  /\ UNCHANGED <<m_desiredNextState, m_changeState, m_stateFlags, tuneVars, over, liveVars, status>>
  /\ LiveFrame

\* SetChannel makes a request like the last one (requestType), and will wait for a
\* new file if that one used a recorder.
SetChannel(c) ==
  /\ Resumes(c, "channel2")
  /\ m_stateFlags' = m_stateFlags \ {"RingBufferReady"}
  /\ m_tuningRequests' = Append(m_tuningRequests,
       Request(m_lastTuningRequest.flags \cap ({"LiveTV", "Recording"} \cup NoRec), Null))
  /\ Wait(c, IF m_lastTuningRequest.flags \cap {"LiveTV", "Recording"} # {} THEN "channel3" ELSE "channel4")
  /\ UNCHANGED <<m_desiredNextState, m_changeState, m_lastTuningRequest, over, liveVars, recorderVars,
                 status, calls>>
  /\ LiveFrame

\* It waits for the file however often the event thread sleeps, whatever became of
\* its request.
SetChannelEnds(c) ==
  /\ \/ /\ Resumes(c, "channel3")
        /\ IF "RingBufferReady" \in m_stateFlags THEN Returns(c) ELSE Wait(c, "channel3")
     \/ /\ Resumes(c, "channel4")
        /\ Returns(c)
  /\ UNCHANGED <<m_desiredNextState, m_changeState, m_stateFlags, tuneVars, over, liveVars, recorderVars,
                 status, calls>>
  /\ LiveFrame

-----------------------------------------------------------------------------
(* Pending recordings: these calls need m_pendingRecLock or both locks *)

PendFrame == UNCHANGED <<lock, epc, stateVars, m_stateFlags, tuneVars, sleepVars, m_curRecording, m_recStatus,
                         timeVars, liveVars, m_buffer, m_switchingBuffer, recorderVars, dbVars, kept,
                         cpc, cont, program, cancelNext, result>>

RecordPending(c) ==
  /\ Begins(c, "RecordPending")
  /\ lock = Null
  /\ m_pending' = [ask |-> TRUE, canceled |-> FALSE]
  /\ PendFrame

CancelNextRecording(c) ==
  /\ Begins(c, "RecordPending")
  /\ m_pending # Null
  /\ \E cancel \in BOOLEAN :
       /\ cancel => lock = Null
       /\ m_pending' = IF cancel THEN [ask |-> FALSE, canceled |-> TRUE]
                                 ELSE [m_pending EXCEPT !.canceled = FALSE]
  /\ PendFrame

-----------------------------------------------------------------------------
\* What a client does inside a call.
Continue(c) ==
  \/ Doze(c) \/ Woken(c) \/ Relock(c)
  \/ StartExtends(c) \/ StartAsks(c) \/ StartSwitches(c) \/ StartStops(c) \/ StartDecides(c)
  \/ StartEnds(c)
  \/ StopLooks(c) \/ StopAsks(c) \/ StopEnds(c)
  \/ SpawnEnds(c) \/ StopLiveEnds(c) \/ SetChannel(c) \/ SetChannelEnds(c)

Call(c) ==
  \/ \E p \in Programs : StartRecording(c, p)
  \/ StopRecording(c) \/ FinishRecording(c) \/ SpawnLiveTV(c) \/ StopLiveTV(c)
  \/ SetLiveRecording(c) \/ PauseRecorder(c) \/ RecordPending(c) \/ CancelNextRecording(c)

Recorder == RecorderRuns \/ RecorderErrs \/ RecorderPauses \/ RingBufferChanged

Next ==
  \/ EventThread \/ Recorder \/ TimePasses \/ KeepLive
  \/ \E c \in Clients : Call(c) \/ Continue(c)

Spec == Init /\ [][Next]_vars

\* The event thread's waits have limits; whoever waits for the lock gets it some
\* time, and time passes whoever holds it.
FairSpec ==
  /\ Spec
  /\ WF_vars(EventThread) /\ SF_vars(Recorder) /\ SF_vars(TimePasses)
  /\ \A c \in Clients : SF_vars(Continue(c))

-----------------------------------------------------------------------------
(* Properties *)

\* Nothing is to be done.
Settled == epc = "asleep" /\ m_tuningRequests = <<>> /\ ~m_changeState

\* A recording that is marked in use, or has a row that is not finished, is the
\* current or the next one: no other place loses one than those that do
\* (`dropped`).  A lost mark keeps the recording from being deleted.
RecordingsAccounted ==
  /\ TypeOK
  /\ inUse \cup (started \ finished) \subseteq {m_curRecording, m_nextRecording} \cup dropped

\* Whenever the event thread sleeps, a running recorder writes the file of the
\* current recording, through every switch of files and channels, unless a teardown
\* has taken a new recording away (NewRecordingSurvives).
BufferIsCurrent ==
  epc = "asleep" /\ "RecorderRunning" \in m_stateFlags => m_buffer = m_curRecording \/ m_curRecording = Null

\* An input that is settled in the state None has let go of everything: no
\* recorder, file, monitor, dummy, and no recording that is still to be finished.
IdleClean ==
  Settled /\ m_internalState = "None" =>
    /\ m_recorder = "none" /\ m_buffer = Null
    /\ m_stateFlags \cap {"RecorderRunning", "DummyRecorderRunning", "SignalMonitorRunning"} = {}
    /\ m_curRecording \in {Null} \cup finished \cup dropped

\* What the event thread dereferences without a test is there: m_curRecording when
\* the dummy recorder runs (TuningShutdowns, TuningNewRecorder), and the frontend's
\* chain in TuningFrequency for live TV that begins, though StopLiveTV and
\* StartRecording take it away.
PointersPresent ==
  /\ "DummyRecorderRunning" \in m_stateFlags => m_curRecording # Null
  /\ epc = "frequency" /\ Live /\ m_recorder = "none" => m_tvChain

\* What became of a scheduled recording is not changed once it is finished, unless
\* it begins again (StartRecording may find that it has no file).  The one that is
\* still current may yet be called failed: by a teardown, after a change of channel
\* that finished it and then had no file.
OutcomeStands ==
  [][\A p \in Programs \cap finished \cap finished' :
       \/ status'[p] = status[p]
       \/ /\ status'[p] = "Failed"
          /\ p = m_curRecording \/ \E c \in Clients : program[c] = p /\ cont[c] = "start3"]_vars

\* A recording that StartRecording has just made is not the one that the event
\* thread, which tears down the last one without the lock, then finishes.
NewRecordingSurvives == epc = "torn" => ~(m_changeState /\ m_desiredNextState = "RecordingOnly")

\* Every call comes back, though two clients share one sleep signal, but for one:
\* SetChannel waits for ever, with m_setChannelLock, for the file of a channel that
\* is not to come, because the recorder that was to pause has failed, or because
\* live TV was given up and the state is None.
CallsReturn ==
  \A c \in Clients :
    \/ []<>(cpc[c] = "idle")
    \/ <>[](epc = "crashed")
    \/ <>[](/\ cont[c] = "channel3" /\ "RingBufferReady" \notin m_stateFlags
            /\ m_recorder = "error" \/ m_internalState = "None")

\* Every scheduled recording that has begun is finished, or lost at a place that is
\* known to, or left to live TV, which the user ends.
RecordingsEnd ==
  \A p \in Programs :
    p \in started \ finished ~>
      p \in finished \cup dropped \/ m_internalState = "WatchingLiveTV" \/ epc = "crashed"
=============================================================================
