------------------------- MODULE TVRecOutcome_proofs -------------------------
(***************************************************************************)
(* What became of a scheduled recording (tv_rec.cpp): the proof that the    *)
(* status of a finished recording stands, on top of the invariant of        *)
(* TVRec_proofs.                                                            *)
(*                                                                          *)
(* The places that write a status write that of the current recording, of   *)
(* the recorder's next one, or of the one that the last tuning request      *)
(* names.  So the invariant follows a finished recording through these      *)
(* three: while one is still current (Stale) there is a recorder and the    *)
(* input is on its way to None, a signal is waited for with a recorder only *)
(* in the dummy's name, and what requests name was not recorded yet.        *)
(*                                                                          *)
(* As in TVRec_proofs the steps of the event thread and RingBufferChanged   *)
(* are taken one by one, and OtherRows says what all others do to the rows. *)
(***************************************************************************)
EXTENDS TVRec_proofs

-----------------------------------------------------------------------------
(* The parts of the invariant *)

\* The rows: what is finished was begun, what is current or next was begun, and
\* only a recorder has a next recording.
RowState ==
  /\ finished \subseteq started
  /\ Of(m_curRecording) \cup Of(m_nextRecording) \subseteq started
  /\ m_recorder = "none" => m_nextRecording = Null

\* The dummy recorder runs for a recording of live TV only.
DummyState ==
  /\ "DummyRecorderRunning" \in m_stateFlags => m_curRecording \in LiveRecs
  /\ epc = "starting" => "DummyRecorderRunning" \notin m_stateFlags

\* A signal is waited for only between the tuning and the start of a recorder,
\* and no change of state is asked for there; what is tuned was asked for by the
\* last request.
SignalState ==
  /\ epc \in {"start", "create", "starting", "teardown", "torn", "relock", "shut"} =>
       "WaitingForSignal" \notin m_stateFlags
  /\ epc = "signal" => "WaitingForSignal" \in m_stateFlags
  /\ epc \in {"signal", "start", "create"} => ~m_changeState
  /\ epc = "frequency" \/ "WaitingForRecPause" \in m_stateFlags => New(m_lastTuningRequest)
  /\ epc \in {"torn", "relock"} => "NeedToStartRecorder" \notin m_stateFlags

\* Live TV: no request for a recording is in the queue, and if the last one taken
\* was for a recording, one that stops it is next.
WatchState ==
  /\ m_internalState = "WatchingLiveTV" => \A i \in Queue : ~ForRecording(m_tuningRequests[i])
  /\ m_internalState = "WatchingLiveTV" /\ ForRecording(m_lastTuningRequest) =>
       epc \in Shutting /\ Kill(Front)
  /\ m_internalState = "None" /\ New(m_lastTuningRequest) => KillAhead

\* Before every request for a recording in the queue is one that stops the recorder.
KilledBefore ==
  \A i \in Queue : ForRecording(m_tuningRequests[i]) =>
    \E j \in Queue : j < i /\ Kill(m_tuningRequests[j])

\* Only live TV pauses its recorder; tuning with a recorder is done while it is
\* paused, and then a signal is waited for in the dummy's name.
PauseState ==
  /\ m_recorder = "none" => m_pause = "no"
  /\ epc = "frequency" /\ m_recorder # "none" => m_pause = "paused"
  /\ "WaitingForSignal" \in m_stateFlags /\ m_recorder # "none" =>
       m_pause = "paused" /\ m_curRecording \notin Programs
  /\ m_recorder # "none" /\ m_pause # "no" /\ epc # "teardown" =>
       ~ForRecording(m_lastTuningRequest) /\ KilledBefore

\* The current recording is a scheduled one and finished already.
Stale == m_curRecording \in Programs \cap finished

\* Then its recorder is still there, and the state None was asked for.
StaleState ==
  Stale =>
  /\ m_recorder # "none" \/ epc = "torn"
  /\ m_internalState = "None" /\ epc \notin {"teardown", "torn"} => ~Begun /\ epc # "starting"
  /\ m_internalState = "WatchingLiveTV" =>
       m_changeState /\ m_desiredNextState = "None" /\ epc \in {"pending", "ends", "top"}

\* A finished recording was recorded or has failed.
OutcomeState == \A p \in Programs \cap finished : status[p] \in {"Recorded", "Failed"}

\* Only a request for a recording and nothing else names one.
Named(r) == r.program # Null => r.flags = {"Recording"}

\* A scheduled recording that was not begun, or failed.
Unrecorded(p) == p \in Programs => status[p] \in {"Unknown", "Failed"}

\* The requests' names are well formed.
NamedState == Named(m_lastTuningRequest) /\ \A i \in Queue : Named(m_tuningRequests[i])

\* A recording that a request in the queue names is not recorded yet, and the
\* recorder has no next file, whose switch could change that.
NameState ==
  \A i \in Queue : m_tuningRequests[i].program # Null =>
    Unrecorded(m_tuningRequests[i].program) /\ m_nextRecording = Null

\* Nor has it one when a recording is begun in the state None, ...
NextFileState ==
  m_internalState = "None" /\ (epc = "starting" \/ (Begun /\ epc # "teardown")) => m_nextRecording = Null

\* ... which is not recorded yet either.
BegunState ==
  /\ m_changeState /\ m_desiredNextState = "RecordingOnly"
  /\ m_internalState = "None" /\ epc \notin {"teardown", "torn"}
  => Unrecorded(m_curRecording)

\* A recorder that is still to be started for a recording that is finished: it failed.
StartState ==
  /\ m_recorder = "none" /\ epc # "create"
  /\ "NeedToStartRecorder" \in m_stateFlags \/ epc = "frequency"
  /\ m_lastTuningRequest.program \in Programs \cap finished
  => status[m_lastTuningRequest.program] = "Failed"

-----------------------------------------------------------------------------
(* What other threads than the event thread do to the rows *)

\* The rows and the recorder's next file stay.
RowsSame == UNCHANGED <<status, started, finished, m_curRecording, m_nextRecording>>

\* StartRecording begins to record.
Beginning ==
  /\ lock = Null /\ m_internalState = "None" /\ ~m_changeState
  /\ m_changeState' = TRUE /\ m_desiredNextState' = "RecordingOnly"
  /\ \E p \in Programs : m_curRecording' = p /\ NewRow(p)
  /\ UNCHANGED <<m_nextRecording, m_pause, m_tuningRequests>>

\* StartRecording gives the recorder its next file.
Switching ==
  /\ lock = Null /\ m_internalState = "RecordingOnly" /\ ~m_changeState /\ m_tuningRequests = <<>>
  /\ m_recorder # "none"
  /\ \E p \in Programs : m_nextRecording' = p /\ started' = started \cup {p}
  /\ UNCHANGED <<status, finished, m_curRecording, m_pause>>

\* StartRecording has no file.
NoFile(p) ==
  /\ lock = Null /\ m_internalState = "RecordingOnly" /\ m_recorder # "none"
  /\ started' = started \cup {p} /\ finished' = finished \cup {p}
  /\ status' = [status EXCEPT ![p] = "Failed"]
  /\ \E c \in Clients : program[c] = p /\ cont[c] = "start3"
  /\ UNCHANGED <<m_curRecording, m_nextRecording, m_pause>>

\* The scheduler hears of what live TV records.
Notifying ==
  /\ lock = Null /\ m_internalState = "WatchingLiveTV" /\ m_curRecording # Null
  /\ status' = [status EXCEPT ![m_curRecording] = "Recording"]
  /\ UNCHANGED <<started, finished, m_curRecording, m_nextRecording, m_pause>>

\* The frontend asks for a pause, and the recorder makes it.
Pausing ==
  /\ RowsSame
  /\ m_recorder # "none"
  /\ \/ m_pause = "asked" /\ m_pause' = "paused"
     \/ m_pause = "no" /\ m_pause' = "asked" /\ lock = Null /\ m_internalState = "WatchingLiveTV"

\* No recording is begun.
NotBegun ==
  m_internalState = "None" /\ m_changeState' /\ m_desiredNextState' = "RecordingOnly" =>
    m_changeState /\ m_desiredNextState = "RecordingOnly"

\* What any step that is neither the event thread's nor RingBufferChanged does to the rows.
OtherRows ==
  \/ Beginning
  \/ /\ NotBegun
     /\ \/ RowsSame /\ UNCHANGED m_pause
        \/ Pausing \/ Switching \/ Notifying
        \/ \E p \in Programs : NoFile(p)

\* Every such step has one of these forms.
LEMMA OtherRowsStep ==
  ASSUME TypeOK, ProgramGiven, Next, ~EventThread, ~RingBufferChanged
  PROVE  OtherRows
<1>1. CASE RecorderRuns
  BY <1>1 DEF RecorderRuns, ElseFrame, OtherRows, NotBegun, RowsSame, stateVars, recorderVars,
         dbVars
<1>2. CASE RecorderErrs
  BY <1>2 DEF RecorderErrs, ElseFrame, OtherRows, NotBegun, RowsSame, stateVars, recorderVars,
         dbVars
<1>3. CASE TimePasses
  BY <1>3 DEF TimePasses, ElseFrame, OtherRows, NotBegun, RowsSame, stateVars, recorderVars,
         dbVars
<1>4. CASE RecorderPauses
  BY <1>4 DEF RecorderPauses, Pausing, ElseFrame, OtherRows, NotBegun, RowsSame, stateVars,
         recorderVars, dbVars
<1>5. CASE KeepLive
  BY <1>5 DEF KeepLive, OtherRows, NotBegun, RowsSame, stateVars, recorderVars, dbVars
<1>6. ASSUME NEW c \in Clients, NEW p \in Programs, StartRecording(c, p) PROVE OtherRows
  BY <1>6 DEF StartRecording, StartRecordingFrame, OtherRows, NotBegun, RowsSame, stateVars,
         recorderVars, dbVars
<1>7. ASSUME NEW c \in Clients, StopRecording(c) PROVE OtherRows
  BY <1>7 DEF StopRecording, StopFrame, OtherRows, NotBegun, RowsSame, stateVars, recorderVars,
         dbVars
<1>8. ASSUME NEW c \in Clients, FinishRecording(c) PROVE OtherRows
  BY <1>8 DEF FinishRecording, StopFrame, OtherRows, NotBegun, RowsSame, stateVars,
         recorderVars, dbVars
<1>9. ASSUME NEW c \in Clients, SpawnLiveTV(c) PROVE OtherRows
  BY <1>9 DEF SpawnLiveTV, ChangeState, LiveFrame, OtherRows, NotBegun, RowsSame, stateVars,
         recorderVars, dbVars
<1>10. ASSUME NEW c \in Clients, StopLiveTV(c) PROVE OtherRows
  BY <1>10 DEF StopLiveTV, Begins, PseudoChecked, NotifyScheduler, Notified, Notifying, Set,
         ChangeState, LiveFrame, OtherRows, NotBegun, RowsSame, stateVars, recorderVars, dbVars
<1>11. ASSUME NEW c \in Clients, SetLiveRecording(c) PROVE OtherRows
  BY <1>11 DEF SetLiveRecording, Begins, PseudoChecked, Notified, Notifying, Set, LiveFrame,
         OtherRows, NotBegun, RowsSame, stateVars, recorderVars, dbVars
<1>12. ASSUME NEW c \in Clients, PauseRecorder(c) PROVE OtherRows
  BY <1>12 DEF PauseRecorder, Pausing, LiveFrame, OtherRows, NotBegun, RowsSame, stateVars,
         recorderVars, dbVars
<1>13. ASSUME NEW c \in Clients, RecordPending(c) PROVE OtherRows
  BY <1>13 DEF RecordPending, PendFrame, OtherRows, NotBegun, RowsSame, stateVars, recorderVars,
         dbVars
<1>14. ASSUME NEW c \in Clients, CancelNextRecording(c) PROVE OtherRows
  BY <1>14 DEF CancelNextRecording, PendFrame, OtherRows, NotBegun, RowsSame, stateVars,
         recorderVars, dbVars
<1>15. ASSUME NEW c \in Clients, Doze(c) PROVE OtherRows
  BY <1>15 DEF Doze, WaitFrame, OtherRows, NotBegun, RowsSame, stateVars, recorderVars, dbVars
<1>16. ASSUME NEW c \in Clients, Woken(c) PROVE OtherRows
  BY <1>16 DEF Woken, WaitFrame, OtherRows, NotBegun, RowsSame, stateVars, recorderVars, dbVars
<1>17. ASSUME NEW c \in Clients, Relock(c) PROVE OtherRows
  BY <1>17 DEF Relock, WaitFrame, OtherRows, NotBegun, RowsSame, stateVars, recorderVars, dbVars
<1>18. ASSUME NEW c \in Clients, StartExtends(c) PROVE OtherRows
  BY <1>18 DEF StartExtends, StartRecordingFrame, OtherRows, NotBegun, RowsSame, stateVars,
         recorderVars, dbVars
<1>19. ASSUME NEW c \in Clients, StartAsks(c) PROVE OtherRows
  BY <1>19 DEF StartAsks, StartRecordingFrame, OtherRows, NotBegun, RowsSame, stateVars,
         recorderVars, dbVars
<1>20. ASSUME NEW c \in Clients, StartSwitches(c) PROVE OtherRows
  <2>1. program[c] \in Programs
    BY <1>20, StartProgram DEF StartSwitches
  <2>2. m_internalState = "RecordingOnly" /\ ~m_changeState
    BY <1>20 DEF StartSwitches, Resumes, GetState
  <2>3. Switching
    BY <1>20, <2>1, <2>2 DEF StartSwitches, Resumes, CanSwitch, Switching
  <2>4. QED BY <2>2, <2>3 DEF OtherRows, NotBegun
<1>21. ASSUME NEW c \in Clients, StartStops(c) PROVE OtherRows
  <2>1. program[c] \in Programs
    BY <1>21, StartProgram DEF StartStops
  <2>2. m_internalState = "RecordingOnly" /\ lock = Null /\ cont[c] = "start3"
    BY <1>21 DEF StartStops, Resumes, GetState
  <2>3. (RowsSame /\ UNCHANGED m_pause) \/ NoFile(program[c])
    BY <1>21, <2>2 DEF StartStops, CanSwitch, NoFile, RowsSame, recorderVars
  <2>4. QED BY <2>1, <2>2, <2>3 DEF OtherRows, NotBegun
<1>22. ASSUME NEW c \in Clients, StartDecides(c) PROVE OtherRows
  <2>1. program[c] \in Programs
    BY <1>22, StartProgram DEF StartDecides
  <2>2. CASE StartBegins(c)
    BY <1>22, <2>1, <2>2 DEF StartDecides, StartBegins, Resumes, GetState, ChangeState, Beginning,
       StartRecordingFrame, tuneVars, recorderVars, OtherRows
  <2>3. CASE StartInLive(c) \/ StartRefused(c)
    BY <1>22, <2>3 DEF StartDecides, StartInLive, StartRefused, NoStateChange, OtherRows, NotBegun,
       RowsSame, recorderVars, dbVars
  <2>4. QED BY <1>22, <2>2, <2>3 DEF StartDecides
<1>23. ASSUME NEW c \in Clients, StartEnds(c) PROVE OtherRows
  BY <1>23 DEF StartEnds, StartRecordingFrame, OtherRows, NotBegun, RowsSame, stateVars,
         recorderVars, dbVars
<1>24. ASSUME NEW c \in Clients, StopLooks(c) PROVE OtherRows
  BY <1>24 DEF StopLooks, StopFrame, OtherRows, NotBegun, RowsSame, stateVars, recorderVars,
         dbVars
<1>25. ASSUME NEW c \in Clients, StopAsks(c) PROVE OtherRows
  BY <1>25 DEF StopAsks, RemoveRecording, StateIsRecording, GetState, ChangeState, StopFrame,
         OtherRows, NotBegun, RowsSame, stateVars, recorderVars, dbVars
<1>26. ASSUME NEW c \in Clients, StopEnds(c) PROVE OtherRows
  BY <1>26 DEF StopEnds, StopFrame, OtherRows, NotBegun, RowsSame, stateVars, recorderVars,
         dbVars
<1>27. ASSUME NEW c \in Clients, SpawnEnds(c) PROVE OtherRows
  BY <1>27 DEF SpawnEnds, LiveFrame, OtherRows, NotBegun, RowsSame, stateVars, recorderVars,
         dbVars
<1>28. ASSUME NEW c \in Clients, StopLiveEnds(c) PROVE OtherRows
  BY <1>28 DEF StopLiveEnds, LiveFrame, OtherRows, NotBegun, RowsSame, stateVars, recorderVars,
         dbVars
<1>29. ASSUME NEW c \in Clients, SetChannel(c) PROVE OtherRows
  BY <1>29 DEF SetChannel, LiveFrame, OtherRows, NotBegun, RowsSame, stateVars, recorderVars,
         dbVars
<1>30. ASSUME NEW c \in Clients, SetChannelEnds(c) PROVE OtherRows
  BY <1>30 DEF SetChannelEnds, LiveFrame, OtherRows, NotBegun, RowsSame, stateVars,
         recorderVars, dbVars
<1>31. QED
  BY <1>1, <1>2, <1>3, <1>4, <1>5, <1>6, <1>7, <1>8, <1>9, <1>10, <1>11, <1>12, <1>13, <1>14,
         <1>15, <1>16, <1>17, <1>18, <1>19, <1>20, <1>21, <1>22, <1>23, <1>24, <1>25, <1>26,
         <1>27, <1>28, <1>29, <1>30
     DEF Next, Recorder, Call, Continue

-----------------------------------------------------------------------------
(* Rows, dummy, signal, live TV and pauses *)

\* Every step preserves RowState.
LEMMA RowStep ==
  ASSUME TypeOK, ProgramGiven, RecorderState, RowState, Next
  PROVE  RowState'
<1>1. CASE HandleStateChange
  BY <1>1 DEF HandleStateChange, RowState, Of, recorderVars, dbVars
<1>2. CASE TuningShutdowns
  BY <1>2 DEF TuningShutdowns, RowState, Of, recorderVars, dbVars
<1>3. CASE TeardownStop
  BY <1>3 DEF TeardownStop, RowState, Of, recorderVars, dbVars
<1>4. CASE TeardownFinish
  BY <1>4 DEF TeardownFinish, RowState, Of, recorderVars, dbVars
<1>5. CASE TeardownEnd
  BY <1>5 DEF TeardownEnd, RowState, Of, recorderVars, dbVars
<1>6. CASE RequestTaken
  BY <1>6 DEF RequestTaken, RowState, Of, recorderVars, dbVars
<1>7. CASE WaitForRecPause
  BY <1>7 DEF WaitForRecPause, RowState, Of, recorderVars, dbVars
<1>8. CASE TuningFails
  BY <1>8 DEF TuningFails, FrequencyFrame, RowState, Of, recorderVars, dbVars
<1>9. CASE TuningOnSameMultiplex
  BY <1>9 DEF TuningOnSameMultiplex, FrequencyFrame, RowState, Of, recorderVars, dbVars
<1>10. CASE TuningRecording
  BY <1>10 DEF TuningRecording, FrequencyFrame, RowState, Of, recorderVars, dbVars
<1>11. CASE TuningLive
  BY <1>11 DEF TuningLive, FrequencyFrame, LiveFile, RowState, Of, recorderVars, dbVars
<1>12. CASE TuningLiveFails
  BY <1>12 DEF TuningLiveFails, FrequencyFrame, NoLiveFile, NoLiveChannel, NoLiveBuffer, RowState, Of, recorderVars, dbVars
<1>13. CASE TuningSignalCheck
  BY <1>13 DEF TuningSignalCheck, RowState, Of, recorderVars, dbVars
<1>14. CASE NoSignalCheck
  BY <1>14 DEF NoSignalCheck, RowState, Of, recorderVars, dbVars
<1>15. CASE NewRecorderLive
  BY <1>15 DEF NewRecorderLive, StartFrame, LiveFile, FinishedAfterDummy, HadDummy, RowState,
         Of, recorderVars, dbVars
<1>16. CASE NewRecorderFile
  BY <1>16 DEF NewRecorderFile, StartFrame, FinishedAfterDummy, RowState, Of, recorderVars,
         dbVars
<1>17. CASE NewRecorderCrash
  BY <1>17 DEF NewRecorderCrash, StartFrame, RowState, Of, recorderVars, dbVars
<1>18. CASE NewRecorderNoFile
  BY <1>18 DEF NewRecorderNoFile, StartFrame, FinishedAfterDummy, NoLiveFile, NoLiveChannel, NoLiveBuffer, RowState, Of,
         recorderVars, dbVars
<1>19. CASE CreateRecorder
  BY <1>19 DEF CreateRecorder, StartFrame, RecorderState, RowState, Of, recorderVars, dbVars
<1>20. CASE CreateRecorderFails
  BY <1>20 DEF CreateRecorderFails, StartFrame, RowState, Of, recorderVars, dbVars
<1>21. CASE RecorderStarted
  BY <1>21 DEF RecorderStarted, StartFrame, RowState, Of, recorderVars, dbVars
<1>22. CASE TuningRestartRecorder
  BY <1>22 DEF TuningRestartRecorder, StartFrame, LiveFile, RowState, Of, recorderVars, dbVars
<1>23. CASE TuningRestartFails
  BY <1>23 DEF TuningRestartFails, StartFrame, NoLiveFile, NoLiveChannel, NoLiveBuffer, RowState, Of, recorderVars, dbVars
<1>24. CASE HandlePendingRecordings
  BY <1>24 DEF HandlePendingRecordings, LoopFrame, RowState, Of, recorderVars, dbVars
<1>25. CASE CheckEnd
  BY <1>25 DEF CheckEnd, LoopFrame, RowState, Of, recorderVars, dbVars
<1>26. CASE CheckLive
  BY <1>26 DEF CheckLive, CheckLiveFrame, LoopFrame, RowState, Of, recorderVars, dbVars
<1>27. CASE SwitchLive
  BY <1>27 DEF SwitchLive, CheckLiveFrame, LoopFrame, NoLiveFile, NoLiveChannel, NoLiveBuffer, RowState, Of, recorderVars,
         dbVars
<1>28. CASE RingBufferChanged
  BY <1>28 DEF RingBufferChanged, ElseFrame, RowState, Of, recorderVars, dbVars
<1>29. CASE Other /\ OtherRows
  <2>1. (m_recorder' = "none") <=> (m_recorder = "none")
    BY <1>29 DEF Other, OtherFrame
  <2>2. QED
    BY <1>29, <2>1 DEF OtherRows, Beginning, NewRow, Switching, NoFile, Notifying, Pausing, RowsSame,
       RowState, Of
<1>30. QED
  BY OtherStep, OtherRowsStep, <1>1, <1>2, <1>3, <1>4, <1>5, <1>6, <1>7, <1>8, <1>9, <1>10,
         <1>11, <1>12, <1>13, <1>14, <1>15, <1>16, <1>17, <1>18, <1>19, <1>20, <1>21, <1>22,
         <1>23, <1>24, <1>25, <1>26, <1>27, <1>28, <1>29
     DEF EventThread, HandleTuning, TuningFrequency

\* Without a scheduled recording live TV makes its own.
LEMMA NextLiveOfNull ==
  ASSUME NEW r \in NextLive(Null)
  PROVE  r \in LiveRecs /\ r \notin started
<1>1. ~(LiveRecs \subseteq started) /\ r = CHOOSE x \in LiveRecs : x \notin started
  BY SetsAssumption, Zenon DEF NextLive
<1>2. \E x \in LiveRecs : x \notin started
  BY <1>1
<1>3. QED BY <1>1, <1>2, Zenon

\* Every step preserves DummyState.
LEMMA DummyStep ==
  ASSUME TypeOK, ProgramGiven, LockHeld, RecorderState, NoneState, QueueState, DummyState, Next
  PROVE  DummyState'
<1>1. CASE HandleStateChange
  BY <1>1 DEF HandleStateChange, Awake, PauseNext, TuningNext, PendingNext, DummyState,
         recorderVars
<1>2. CASE TuningShutdowns
  BY <1>2 DEF TuningShutdowns, DummyState, recorderVars
<1>3. CASE TeardownStop
  BY <1>3 DEF TeardownStop, DummyState, recorderVars
<1>4. CASE TeardownFinish
  BY <1>4 DEF TeardownFinish, RecorderState, DummyState, recorderVars
<1>5. CASE TeardownEnd
  BY <1>5 DEF TeardownEnd, DummyState, recorderVars
<1>6. CASE RequestTaken
  BY <1>6 DEF RequestTaken, PauseNext, TuningNext, PendingNext, DummyState, recorderVars
<1>7. CASE WaitForRecPause
  BY <1>7 DEF WaitForRecPause, PendingNext, DummyState, recorderVars
<1>8. CASE TuningFails
  BY <1>8 DEF TuningFails, FrequencyFrame, TuningNext, PendingNext, DummyState, recorderVars
<1>9. CASE TuningOnSameMultiplex
  BY <1>9 DEF TuningOnSameMultiplex, FrequencyFrame, TuningNext, PendingNext, DummyState,
         recorderVars
<1>10. CASE TuningRecording
  BY <1>10 DEF TuningRecording, FrequencyFrame, TuningNext, PendingNext, MonitorErrors,
         Monitored, DummyState, recorderVars
<1>11. CASE TuningLive
  <2>1. m_curRecording' \in LiveRecs
    BY <1>11, NextLiveOfNull DEF TuningLive, LiveFile
  <2>2. epc' # "starting"
    BY <1>11 DEF TuningLive, TuningNext, PendingNext
  <2>3. QED BY <2>1, <2>2 DEF DummyState
<1>12. CASE TuningLiveFails
  BY <1>12 DEF TuningLiveFails, FrequencyFrame, TuningNext, PendingNext, DummyState,
         recorderVars
<1>13. CASE TuningSignalCheck
  BY <1>13 DEF TuningSignalCheck, Signal, TuningNext, PendingNext, DummyState, recorderVars
<1>14. CASE NoSignalCheck
  BY <1>14 DEF NoSignalCheck, PendingNext, DummyState, recorderVars
<1>15. CASE NewRecorderLive
  BY <1>15 DEF NewRecorderLive, StartFrame, LiveFile, DummyState, recorderVars
<1>16. CASE NewRecorderFile
  BY <1>16 DEF NewRecorderFile, StartFrame, DummyState, recorderVars
<1>17. CASE NewRecorderCrash
  BY <1>17 DEF NewRecorderCrash, StartFrame, DummyState, recorderVars
<1>18. CASE NewRecorderNoFile
  BY <1>18 DEF NewRecorderNoFile, StartFrame, NewRecorderFailed, PendingNext, DummyState,
         recorderVars
<1>19. CASE CreateRecorder
  BY <1>19 DEF CreateRecorder, StartFrame, RecorderState, DummyState, recorderVars
<1>20. CASE CreateRecorderFails
  BY <1>20 DEF CreateRecorderFails, StartFrame, NewRecorderFailed, PendingNext, RecorderState,
         DummyState, recorderVars
<1>21. CASE RecorderStarted
  BY <1>21 DEF RecorderStarted, StartFrame, PendingNext, RecorderState, DummyState, recorderVars
<1>22. CASE TuningRestartRecorder
  BY <1>22 DEF TuningRestartRecorder, StartFrame, PendingNext, LiveFile, DummyState,
         recorderVars
<1>23. CASE TuningRestartFails
  BY <1>23 DEF TuningRestartFails, StartFrame, PendingNext, DummyState, recorderVars
<1>24. CASE HandlePendingRecordings
  BY <1>24 DEF HandlePendingRecordings, LoopFrame, DummyState, recorderVars
<1>25. CASE CheckEnd
  BY <1>25 DEF CheckEnd, LoopFrame, Awake, LoopEnds, DummyState, recorderVars
<1>26. CASE CheckLive
  BY <1>26 DEF CheckLive, CheckLiveFrame, LoopFrame, LoopEnds, DummyState, recorderVars
<1>27. CASE SwitchLive
  BY <1>27 DEF SwitchLive, CheckLiveFrame, LoopFrame, LoopEnds, DummyState, recorderVars
<1>28. CASE RingBufferChanged
  BY <1>28 DEF RingBufferChanged, ElseFrame, DummyState, recorderVars
<1>29. CASE Other /\ OtherRows
  <2>1. /\ epc' = epc
        /\ "DummyRecorderRunning" \in m_stateFlags' <=> "DummyRecorderRunning" \in m_stateFlags
    BY <1>29 DEF Other, OtherFrame, CoreFlags
  <2>2. CASE Beginning
    <3>1. epc \in {"asleep", "teardown", "torn", "relock", "starting"} /\ m_internalState = "None"
      BY <2>2 DEF Beginning, LockHeld, Unlocked
    <3>2. epc = "asleep" => ~KillAhead
      BY DEF QueueState, NoFull, KillAhead
    <3>3. "DummyRecorderRunning" \notin m_stateFlags
      BY <3>1, <3>2 DEF NoneState, Clean, RecorderState, DummyState
    <3>4. QED BY <2>1, <3>3 DEF DummyState
  <2>3. CASE ~Beginning
    <3>1. m_curRecording' = m_curRecording
      BY <1>29, <2>3 DEF OtherRows, Switching, NoFile, Notifying, Pausing, RowsSame
    <3>2. QED BY <2>1, <3>1 DEF DummyState
  <2>4. QED BY <2>2, <2>3
<1>30. QED
  BY OtherStep, OtherRowsStep, <1>1, <1>2, <1>3, <1>4, <1>5, <1>6, <1>7, <1>8, <1>9, <1>10,
         <1>11, <1>12, <1>13, <1>14, <1>15, <1>16, <1>17, <1>18, <1>19, <1>20, <1>21, <1>22,
         <1>23, <1>24, <1>25, <1>26, <1>27, <1>28, <1>29
     DEF EventThread, HandleTuning, TuningFrequency

\* Every step preserves SignalState.
LEMMA SignalStep ==
  ASSUME TypeOK, ProgramGiven, LockHeld, WaitState, QueueFilled, SignalState, Next
  PROVE  SignalState'
<1>1. CASE HandleStateChange
  BY <1>1 DEF HandleStateChange, Awake, PauseNext, TuningNext, PendingNext, SignalState, New,
         WaitState, PendingActions, stateVars, tuneVars
<1>2. CASE TuningShutdowns
  BY <1>2 DEF TuningShutdowns, SignalState, New, WaitState, PendingActions, stateVars, tuneVars
<1>3. CASE TeardownStop
  BY <1>3 DEF TeardownStop, SignalState, New, WaitState, PendingActions, stateVars, tuneVars
<1>4. CASE TeardownFinish
  BY <1>4 DEF TeardownFinish, SignalState, New, WaitState, PendingActions, stateVars, tuneVars
<1>5. CASE TeardownEnd
  BY <1>5 DEF TeardownEnd, SignalState, New, WaitState, PendingActions, stateVars, tuneVars
<1>6. CASE RequestTaken
  BY <1>6 DEF RequestTaken, PauseNext, TuningNext, PendingNext, Front, Kill, SignalState, New,
         WaitState, PendingActions, stateVars, tuneVars
<1>7. CASE WaitForRecPause
  BY <1>7 DEF WaitForRecPause, PendingNext, SignalState, New, WaitState, PendingActions,
         stateVars, tuneVars
<1>8. CASE TuningFails
  BY <1>8 DEF TuningFails, FrequencyFrame, TuningNext, PendingNext, ChangeState, NoStateChange,
         SignalState, New, WaitState, PendingActions, stateVars, tuneVars
<1>9. CASE TuningOnSameMultiplex
  BY <1>9 DEF TuningOnSameMultiplex, FrequencyFrame, TuningNext, PendingNext, SignalState, New,
         WaitState, PendingActions, stateVars, tuneVars
<1>10. CASE TuningRecording
  BY <1>10 DEF TuningRecording, FrequencyFrame, TuningNext, PendingNext, MonitorErrors,
         Monitored, SignalState, New, WaitState, PendingActions, stateVars, tuneVars
<1>11. CASE TuningLive
  BY <1>11 DEF TuningLive, FrequencyFrame, TuningNext, PendingNext, MonitorErrors, Monitored,
         SignalState, New, WaitState, PendingActions, stateVars, tuneVars
<1>12. CASE TuningLiveFails
  BY <1>12 DEF TuningLiveFails, FrequencyFrame, TuningNext, PendingNext, ChangeState,
         SignalState, New, WaitState, PendingActions, stateVars, tuneVars
<1>13. CASE TuningSignalCheck
  BY <1>13 DEF TuningSignalCheck, Signal, TuningNext, PendingNext, SignalState, New, WaitState,
         PendingActions, stateVars, tuneVars
<1>14. CASE NoSignalCheck
  BY <1>14 DEF NoSignalCheck, PendingNext, SignalState, New, WaitState, PendingActions,
         stateVars, tuneVars
<1>15. CASE NewRecorderLive
  BY <1>15 DEF NewRecorderLive, StartFrame, SignalState, New, WaitState, PendingActions,
         stateVars, tuneVars
<1>16. CASE NewRecorderFile
  BY <1>16 DEF NewRecorderFile, StartFrame, SignalState, New, WaitState, PendingActions,
         stateVars, tuneVars
<1>17. CASE NewRecorderCrash
  BY <1>17 DEF NewRecorderCrash, StartFrame, SignalState, New, WaitState, PendingActions,
         stateVars, tuneVars
<1>18. CASE NewRecorderNoFile
  BY <1>18 DEF NewRecorderNoFile, StartFrame, NewRecorderFailed, PendingNext, ChangeState,
         SignalState, New, WaitState, PendingActions, stateVars, tuneVars
<1>19. CASE CreateRecorder
  BY <1>19 DEF CreateRecorder, StartFrame, SignalState, New, WaitState, PendingActions,
         stateVars, tuneVars
<1>20. CASE CreateRecorderFails
  BY <1>20 DEF CreateRecorderFails, StartFrame, NewRecorderFailed, PendingNext, ChangeState,
         SignalState, New, WaitState, PendingActions, stateVars, tuneVars
<1>21. CASE RecorderStarted
  BY <1>21 DEF RecorderStarted, StartFrame, PendingNext, SignalState, New, WaitState,
         PendingActions, stateVars, tuneVars
<1>22. CASE TuningRestartRecorder
  BY <1>22 DEF TuningRestartRecorder, StartFrame, PendingNext, SignalState, New, WaitState,
         PendingActions, stateVars, tuneVars
<1>23. CASE TuningRestartFails
  BY <1>23 DEF TuningRestartFails, StartFrame, PendingNext, ChangeState, SignalState, New,
         WaitState, PendingActions, stateVars, tuneVars
<1>24. CASE HandlePendingRecordings
  BY <1>24 DEF HandlePendingRecordings, LoopFrame, SignalState, New, WaitState, PendingActions,
         stateVars, tuneVars
<1>25. CASE CheckEnd
  <2>1. epc' \in {"live", "asleep", "top"} /\ m_lastTuningRequest' = m_lastTuningRequest
    BY <1>25 DEF CheckEnd, LoopEnds, LoopFrame, tuneVars
  <2>2. \A f \in PendingActions : f \in m_stateFlags' <=> f \in m_stateFlags
    BY <1>25 DEF CheckEnd, PendingActions
  <2>3. QED BY <2>1, <2>2 DEF SignalState, PendingActions, New
<1>26. CASE CheckLive
  BY <1>26 DEF CheckLive, CheckLiveFrame, LoopFrame, LoopEnds, NoStateChange, SignalState, New,
         WaitState, PendingActions, stateVars, tuneVars
<1>27. CASE SwitchLive
  BY <1>27 DEF SwitchLive, CheckLiveFrame, LoopFrame, LoopEnds, ChangeState, NoStateChange,
         SignalState, New, WaitState, PendingActions, stateVars, tuneVars
<1>28. CASE RingBufferChanged
  BY <1>28 DEF RingBufferChanged, ElseFrame, SignalState, New, WaitState, PendingActions,
         stateVars, tuneVars
<1>29. CASE Other /\ OtherRows
  <2>1. /\ epc' = epc /\ m_lastTuningRequest' = m_lastTuningRequest
        /\ \A f \in PendingActions : f \in m_stateFlags' <=> f \in m_stateFlags
    BY <1>29 DEF Other, OtherFrame, CoreFlags
  <2>2. epc \in {"signal", "start", "create"} => UNCHANGED m_changeState
    BY <1>29 DEF Other, Quiet, BeginsRecording, Asks, Spawns, LeavesLive, Channels, LockHeld, Unlocked
  <2>3. QED BY <2>1, <2>2 DEF SignalState, PendingActions, New
<1>30. QED
  BY OtherStep, OtherRowsStep, <1>1, <1>2, <1>3, <1>4, <1>5, <1>6, <1>7, <1>8, <1>9, <1>10,
         <1>11, <1>12, <1>13, <1>14, <1>15, <1>16, <1>17, <1>18, <1>19, <1>20, <1>21, <1>22,
         <1>23, <1>24, <1>25, <1>26, <1>27, <1>28, <1>29
     DEF EventThread, HandleTuning, TuningFrequency

\* Every step preserves WatchState.
LEMMA WatchStep ==
  ASSUME TypeOK, ProgramGiven, QueueFilled, LockHeld, NoneState, QueueState, WatchState, Next
  PROVE  WatchState'
<1>1. m_tuningRequests \in Seq(Requests) /\ Len(m_tuningRequests) \in Nat
  BY DEF TypeOK
<1>2. ASSUME UNCHANGED <<m_internalState, m_tuningRequests, m_lastTuningRequest>>,
             epc \in Shutting => epc' \in Shutting
      PROVE  WatchState'
  <2>1. KillAhead' <=> KillAhead
    BY <1>2, QueueSame
  <2>2. QED BY <1>2, <2>1 DEF WatchState, ForRecording, New, Kill, Queue, Front
<1>3. CASE HandleStateChange
  <2>1. /\ epc \notin Shutting /\ (m_tuningRequests' # <<>> => epc' = "tune")
        /\ m_lastTuningRequest' = m_lastTuningRequest
    BY <1>3 DEF HandleStateChange, Awake, Shutting
  <2>2. CASE m_tuningRequests' = m_tuningRequests
    <3>1. m_internalState' = m_internalState \/ m_internalState' = "RecordingOnly"
      BY <1>3, <1>1, <2>2, QueueAfterChange, QueueAppended
    <3>2. KillAhead' <=> KillAhead
      BY <2>1, <2>2, QueueSame
    <3>3. QED BY <2>1, <2>2, <3>1, <3>2 DEF WatchState, ForRecording, New, Queue
  <2>3. ASSUME NEW r \in Requests, m_tuningRequests' = Append(m_tuningRequests, r),
               m_internalState = "None", m_internalState' = "WatchingLiveTV",
               r = Request({"LiveTV"}, Null), Begun
        PROVE  WatchState'
    <3>1. /\ Queue' = Queue \cup {Len(m_tuningRequests) + 1}
          /\ \A i \in Queue : m_tuningRequests'[i] = m_tuningRequests[i]
          /\ m_tuningRequests'[Len(m_tuningRequests) + 1] = r /\ m_tuningRequests' # <<>>
      BY <1>1, <2>3, QueueAppended
    <3>2. NothingNew /\ Len(m_tuningRequests) <= 1
      BY <1>1, <2>1, <2>3 DEF QueueState
    <3>3. \A i \in Queue' : ~ForRecording(m_tuningRequests'[i])
      <4>1. ~ForRecording(r)
        BY <2>3 DEF ForRecording, Request
      <4>2. \A i \in Queue : ~ForRecording(m_tuningRequests[i])
        BY <3>2 DEF NothingNew, New, ForRecording
      <4>3. QED BY <3>1, <4>1, <4>2
    <3>4. ASSUME ForRecording(m_lastTuningRequest) PROVE Kill(Front')
      <4>1. PICK i \in Queue : Full(m_tuningRequests[i])
        BY <2>3, <3>4 DEF WatchState, ForRecording, New, KillAhead
      <4>2. i = 1
        BY <1>1, <3>2 DEF Queue
      <4>3. Front' = m_tuningRequests[1]
        BY <1>1, <2>3, <3>1, <4>2 DEF Front
      <4>4. QED BY <4>1, <4>2, <4>3 DEF Full, Kill
    <3>5. QED BY <2>1, <2>3, <3>1, <3>3, <3>4 DEF WatchState, ForRecording, Shutting, Kill
  <2>4. ASSUME NEW r \in Requests, m_tuningRequests' = Append(m_tuningRequests, r),
               m_internalState' = "None", Full(r)
        PROVE  WatchState'
    BY <1>1, <2>4, KillAppended DEF WatchState
  <2>5. QED
    BY <1>3, <2>2, <2>3, <2>4, QueueAfterChange DEF WatchState, Begun
<1>4. CASE TuningShutdowns
  BY <1>4, <1>2 DEF TuningShutdowns, Shutting, stateVars, tuneVars
<1>5. CASE TeardownStop
  BY <1>5, <1>2 DEF TeardownStop, Shutting, stateVars, tuneVars
<1>6. CASE TeardownFinish
  BY <1>6, <1>2 DEF TeardownFinish, Shutting, stateVars, tuneVars
<1>7. CASE TeardownEnd
  BY <1>7, <1>2 DEF TeardownEnd, Shutting, stateVars, tuneVars
<1>8. CASE RequestTaken
  <2>1. m_tuningRequests # <<>>
    BY <1>8 DEF QueueFilled, Shutting, RequestTaken
  <2>2. m_lastTuningRequest' = Front /\ m_tuningRequests' = Tail(m_tuningRequests) /\ m_internalState' = m_internalState
    BY <1>8 DEF RequestTaken, stateVars
  <2>3. /\ 1 \in Queue /\ Front = m_tuningRequests[1]
        /\ \A i \in Queue' : i + 1 \in Queue /\ m_tuningRequests'[i] = m_tuningRequests[i + 1]
    BY <1>1, <2>1, <2>2, QueueTaken
  <2>4. m_internalState = "WatchingLiveTV" =>
          ~ForRecording(Front) /\ \A i \in Queue' : ~ForRecording(m_tuningRequests'[i])
    BY <2>3 DEF WatchState, ForRecording
  <2>5. m_internalState = "None" /\ New(Front) => KillAhead'
    BY <1>1, <2>1, <2>2, KillTaken DEF NoneState, Clean, Full
  <2>6. QED BY <2>2, <2>4, <2>5 DEF WatchState, ForRecording, New
<1>9. CASE WaitForRecPause
  BY <1>9, <1>2 DEF WaitForRecPause, PendingNext, Shutting, stateVars, tuneVars
<1>10. CASE TuningFails
  <2>1. m_internalState' = m_internalState /\ m_lastTuningRequest' = m_lastTuningRequest /\ epc = "frequency"
    BY <1>10 DEF TuningFails, FrequencyFrame
  <2>2. CASE m_internalState # "None"
    BY <1>10, <1>2, <2>1, <2>2 DEF TuningFails, Shutting
  <2>3. CASE m_internalState = "None"
    <3>1. PICK r \in Requests : r = Request({"KillRec"}, Null)
      BY DEF Request, Requests, RequestFlags, NoRec
    <3>2. m_tuningRequests' = Append(m_tuningRequests, r) /\ ~New(r)
      BY <1>10, <2>3, <3>1 DEF TuningFails, New, Request
    <3>3. KillAhead => KillAhead'
      BY <1>1, <3>2, KillAppended
    <3>4. QED BY <2>1, <2>3, <3>3 DEF WatchState, New
  <2>4. QED BY <2>2, <2>3
<1>11. CASE TuningOnSameMultiplex
  BY <1>11, <1>2 DEF TuningOnSameMultiplex, FrequencyFrame, TuningNext, PendingNext, Shutting,
         stateVars, tuneVars
<1>12. CASE TuningRecording
  BY <1>12, <1>2 DEF TuningRecording, FrequencyFrame, TuningNext, PendingNext, Shutting,
         stateVars, tuneVars
<1>13. CASE TuningLive
  BY <1>13, <1>2 DEF TuningLive, FrequencyFrame, TuningNext, PendingNext, Shutting, stateVars,
         tuneVars
<1>14. CASE TuningLiveFails
  BY <1>14, <1>2 DEF TuningLiveFails, FrequencyFrame, TuningNext, PendingNext, Shutting,
         stateVars, tuneVars
<1>15. CASE TuningSignalCheck
  BY <1>15, <1>2 DEF TuningSignalCheck, Signal, TuningNext, PendingNext, Shutting, stateVars,
         tuneVars
<1>16. CASE NoSignalCheck
  BY <1>16, <1>2 DEF NoSignalCheck, PendingNext, Shutting, stateVars, tuneVars
<1>17. CASE NewRecorderLive
  BY <1>17, <1>2 DEF NewRecorderLive, StartFrame, Shutting, stateVars, tuneVars
<1>18. CASE NewRecorderFile
  BY <1>18, <1>2 DEF NewRecorderFile, StartFrame, Shutting, stateVars, tuneVars
<1>19. CASE NewRecorderCrash
  BY <1>19, <1>2 DEF NewRecorderCrash, StartFrame, Shutting, stateVars, tuneVars
<1>20. CASE NewRecorderNoFile
  BY <1>20, <1>2 DEF NewRecorderNoFile, StartFrame, NewRecorderFailed, PendingNext, Shutting,
         stateVars, tuneVars
<1>21. CASE CreateRecorder
  BY <1>21, <1>2 DEF CreateRecorder, StartFrame, Shutting, stateVars, tuneVars
<1>22. CASE CreateRecorderFails
  BY <1>22, <1>2 DEF CreateRecorderFails, StartFrame, NewRecorderFailed, PendingNext, Shutting,
         stateVars, tuneVars
<1>23. CASE RecorderStarted
  BY <1>23, <1>2 DEF RecorderStarted, StartFrame, PendingNext, Shutting, stateVars, tuneVars
<1>24. CASE TuningRestartRecorder
  BY <1>24, <1>2 DEF TuningRestartRecorder, StartFrame, PendingNext, Shutting, stateVars,
         tuneVars
<1>25. CASE TuningRestartFails
  BY <1>25, <1>2 DEF TuningRestartFails, StartFrame, PendingNext, Shutting, stateVars, tuneVars
<1>26. CASE HandlePendingRecordings
  BY <1>26, <1>2 DEF HandlePendingRecordings, LoopFrame, Shutting, stateVars, tuneVars
<1>27. CASE CheckEnd
  BY <1>27, <1>2 DEF CheckEnd, LoopFrame, Awake, LoopEnds, Shutting, stateVars, tuneVars
<1>28. CASE CheckLive
  BY <1>28, <1>2 DEF CheckLive, CheckLiveFrame, LoopFrame, LoopEnds, Shutting, stateVars,
         tuneVars
<1>29. CASE SwitchLive
  BY <1>29, <1>2 DEF SwitchLive, CheckLiveFrame, LoopFrame, LoopEnds, Shutting, stateVars,
         tuneVars
<1>30. CASE RingBufferChanged
  BY <1>30, <1>2 DEF RingBufferChanged, ElseFrame, Shutting, stateVars, tuneVars
<1>31. CASE Other /\ OtherRows
  <2>1. UNCHANGED <<epc, m_internalState, m_lastTuningRequest>>
    BY <1>31 DEF Other, OtherFrame
  <2>2. CASE Channels
    <3>1. m_tuningRequests = <<>>
      BY <2>2 DEF Channels
    <3>2. epc \notin Shutting /\ ~KillAhead
      BY <3>1 DEF QueueFilled, KillAhead, Queue
    <3>3. Queue' = {1} /\ m_tuningRequests'[1].flags \subseteq m_lastTuningRequest.flags
      BY <2>2 DEF Channels, Queue, Request
    <3>4. QED BY <2>1, <3>2, <3>3 DEF WatchState, ForRecording, New
  <2>3. CASE ~Channels
    <3>1. UNCHANGED m_tuningRequests
      BY <1>31, <2>3 DEF Other, Quiet, BeginsRecording, Asks, Spawns, LeavesLive
    <3>2. QED BY <1>2, <2>1, <3>1
  <2>4. QED BY <2>2, <2>3
<1>32. QED
  BY OtherStep, OtherRowsStep, <1>3, <1>4, <1>5, <1>6, <1>7, <1>8, <1>9, <1>10, <1>11, <1>12,
         <1>13, <1>14, <1>15, <1>16, <1>17, <1>18, <1>19, <1>20, <1>21, <1>22, <1>23, <1>24,
         <1>25, <1>26, <1>27, <1>28, <1>29, <1>30, <1>31
     DEF EventThread, HandleTuning, TuningFrequency

\* Every step preserves PauseState.
LEMMA PauseStep ==
  ASSUME TypeOK, ProgramGiven, QueueFilled, LockHeld, RecorderState, NoneState, WaitState,
         QueueState, SignalState, WatchState, PauseState, Next
  PROVE  PauseState'
<1>1. m_tuningRequests \in Seq(Requests) /\ Len(m_tuningRequests) \in Nat
  BY DEF TypeOK
<1>2. ASSUME UNCHANGED <<m_tuningRequests, m_lastTuningRequest>>
      PROVE  /\ KilledBefore' <=> KilledBefore
             /\ ForRecording(m_lastTuningRequest') <=> ForRecording(m_lastTuningRequest)
  BY <1>2 DEF KilledBefore, ForRecording, Kill, Queue
<1>3. ASSUME NEW r \in Requests, m_tuningRequests' = Append(m_tuningRequests, r), ~ForRecording(r), KilledBefore
      PROVE  KilledBefore'
  <2>1. /\ Queue' = Queue \cup {Len(m_tuningRequests) + 1}
        /\ \A i \in Queue : m_tuningRequests'[i] = m_tuningRequests[i]
        /\ m_tuningRequests'[Len(m_tuningRequests) + 1] = r
    BY <1>1, <1>3, QueueAppended
  <2>2. SUFFICES ASSUME NEW i \in Queue', ForRecording(m_tuningRequests'[i])
                 PROVE  \E j \in Queue' : j < i /\ Kill(m_tuningRequests'[j])
    BY DEF KilledBefore
  <2>3. i \in Queue /\ ForRecording(m_tuningRequests[i])
    BY <1>3, <2>1, <2>2
  <2>4. PICK j \in Queue : j < i /\ Kill(m_tuningRequests[j])
    BY <1>3, <2>3 DEF KilledBefore
  <2>5. QED BY <2>1, <2>4
<1>4. CASE HandleStateChange
  <2>1. /\ epc \in {"top", "asleep"} /\ epc' # "frequency"
        /\ UNCHANGED <<m_lastTuningRequest, m_recorder, m_pause, m_curRecording>>
        /\ "WaitingForSignal" \in m_stateFlags' <=> "WaitingForSignal" \in m_stateFlags
    BY <1>4 DEF HandleStateChange, Awake, PauseNext, TuningNext, PendingNext, recorderVars
  <2>2. KilledBefore => KilledBefore' \/ m_recorder = "none"
    <3>1. SUFFICES ASSUME KilledBefore, m_recorder # "none" PROVE KilledBefore'
      OBVIOUS
    <3>2. CASE m_tuningRequests' = m_tuningRequests
      BY <1>2, <2>1, <3>1, <3>2
    <3>3. ASSUME NEW r \in Requests, m_tuningRequests' = Append(m_tuningRequests, r), ~ForRecording(r)
          PROVE  KilledBefore'
      BY <1>3, <3>1, <3>3
    <3>4. ASSUME NEW r \in Requests, m_tuningRequests' = Append(m_tuningRequests, r),
                 m_internalState = "None", Begun
          PROVE  KilledBefore'
      <4>1. KillAhead /\ Len(m_tuningRequests) <= 1
        BY <1>1, <2>1, <3>1, <3>4 DEF NoneState, Clean, QueueState, Shutting
      <4>2. PICK i \in Queue : Full(m_tuningRequests[i])
        BY <4>1 DEF KillAhead
      <4>3. Len(m_tuningRequests) = 1 /\ Queue = {1} /\ i = 1
        <5>1. PICK n \in Nat : n = Len(m_tuningRequests)
          BY <1>1
        <5>2. i \in 1 .. n /\ Queue = 1 .. n /\ n <= 1
          BY <1>1, <4>1, <4>2, <5>1 DEF Queue
        <5>3. QED BY <5>1, <5>2
      <4>4. /\ Queue' = {1, 2} /\ m_tuningRequests'[1] = m_tuningRequests[1]
        BY <1>1, <3>4, <4>3, QueueAppended
      <4>5. Kill(m_tuningRequests'[1]) /\ ~ForRecording(m_tuningRequests'[1])
        BY <4>2, <4>3, <4>4 DEF Full, Kill, New, ForRecording
      <4>6. QED BY <4>4, <4>5 DEF KilledBefore
    <3>5. QED
      BY <1>4, <3>2, <3>3, <3>4, QueueAfterChange DEF Begun, Full, New, ForRecording, Request
  <2>3. QED BY <2>1, <2>2 DEF PauseState, ForRecording
<1>5. CASE TuningShutdowns
  BY <1>5, <1>2 DEF TuningShutdowns, PauseState, tuneVars, recorderVars
<1>6. CASE TeardownStop
  BY <1>6, <1>2 DEF TeardownStop, PauseState, tuneVars, recorderVars
<1>7. CASE TeardownFinish
  BY <1>7, <1>2 DEF TeardownFinish, RecorderState, PauseState, tuneVars, recorderVars
<1>8. CASE TeardownEnd
  BY <1>8, <1>2 DEF TeardownEnd, RecorderState, PauseState, tuneVars, recorderVars
<1>9. CASE RequestTaken
  <2>1. m_tuningRequests # <<>> /\ epc = "shut"
    BY <1>9 DEF QueueFilled, Shutting, RequestTaken
  <2>2. /\ m_lastTuningRequest' = Front /\ m_tuningRequests' = Tail(m_tuningRequests)
        /\ UNCHANGED <<m_recorder, m_pause>> /\ "WaitingForSignal" \notin m_stateFlags'
        /\ epc' = "frequency" => m_recorder = "none"
    BY <1>9 DEF RequestTaken, recorderVars, PendingActions, PauseNext, TuningNext, PendingNext
  <2>3. /\ 1 \in Queue /\ Front = m_tuningRequests[1]
        /\ \A i \in Queue' : i \in Nat /\ i + 1 \in Queue /\ m_tuningRequests'[i] = m_tuningRequests[i + 1]
        /\ \A i \in Queue : i \in Nat /\ (i = 1 \/ (i - 1 \in Queue' /\ m_tuningRequests'[i - 1] = m_tuningRequests[i]))
    BY <1>1, <2>1, <2>2, QueueTaken
  <2>4. ASSUME KilledBefore, ~Kill(Front) PROVE ~ForRecording(Front) /\ KilledBefore'
    <3>1. ~ForRecording(Front)
      <4>1. ~ \E j \in Queue : j < 1
        BY <1>1 DEF Queue
      <4>2. QED BY <2>3, <2>4, <4>1 DEF KilledBefore
    <3>2. SUFFICES ASSUME NEW i \in Queue', ForRecording(m_tuningRequests'[i])
                   PROVE  \E j \in Queue' : j < i /\ Kill(m_tuningRequests'[j])
      BY <3>1 DEF KilledBefore
    <3>3. PICK j \in Queue : j < i + 1 /\ Kill(m_tuningRequests[j])
      BY <2>3, <2>4, <3>2 DEF KilledBefore
    <3>4. j # 1
      BY <2>3, <2>4, <3>3
    <3>5. j - 1 \in Queue' /\ m_tuningRequests'[j - 1] = m_tuningRequests[j] /\ j - 1 < i
      BY <2>3, <3>3, <3>4
    <3>6. QED BY <3>3, <3>5
  <2>5. Kill(Front) => m_recorder = "none"
    BY <2>1 DEF RecorderState
  <2>6. QED BY <2>1, <2>2, <2>4, <2>5 DEF PauseState, ForRecording
<1>10. CASE WaitForRecPause
  BY <1>10, <1>2 DEF WaitForRecPause, PendingNext, PauseState, tuneVars, recorderVars
<1>11. CASE TuningFails
  <2>1. /\ epc = "frequency" /\ epc' # "frequency" /\ "WaitingForSignal" \notin m_stateFlags'
        /\ UNCHANGED <<m_lastTuningRequest, m_recorder, m_pause>>
    BY <1>11 DEF TuningFails, FrequencyFrame, TuningNext, PendingNext, recorderVars, WaitState, PendingActions
  <2>2. KilledBefore => KilledBefore'
    <3>1. PICK r \in Requests : r = Request({"KillRec"}, Null)
      BY DEF Request, Requests, RequestFlags, NoRec
    <3>2. ~ForRecording(r)
      BY <3>1 DEF ForRecording, Request
    <3>3. UNCHANGED m_tuningRequests \/ m_tuningRequests' = Append(m_tuningRequests, r)
      BY <1>11, <3>1 DEF TuningFails
    <3>4. QED BY <1>2, <1>3, <2>1, <3>2, <3>3
  <2>3. QED BY <2>1, <2>2 DEF PauseState, ForRecording
<1>12. CASE TuningOnSameMultiplex
  BY <1>12, <1>2 DEF TuningOnSameMultiplex, FrequencyFrame, TuningNext, PendingNext, WaitState,
         PendingActions, PauseState, tuneVars, recorderVars
<1>13. CASE TuningRecording
  <2>1. m_recorder = "none"
    BY <1>13 DEF TuningRecording, PauseState, SignalState, New, ForRecording, Live
  <2>2. QED BY <1>13, <2>1 DEF TuningRecording, FrequencyFrame, recorderVars, PauseState
<1>14. CASE TuningLive
  <2>1. m_curRecording' \notin Programs
    BY <1>14, NextLiveOfNull, SetsAssumption DEF TuningLive, LiveFile
  <2>2. /\ epc = "frequency" /\ epc' # "frequency"
        /\ UNCHANGED <<m_tuningRequests, m_lastTuningRequest, m_recorder, m_pause>>
    BY <1>14 DEF TuningLive, FrequencyFrame, TuningNext, PendingNext, recorderVars
  <2>3. QED BY <1>2, <2>1, <2>2 DEF PauseState
<1>15. CASE TuningLiveFails
  BY <1>15, <1>2 DEF TuningLiveFails, FrequencyFrame, TuningNext, PendingNext, WaitState,
         PendingActions, PauseState, tuneVars, recorderVars
<1>16. CASE TuningSignalCheck
  BY <1>16, <1>2 DEF TuningSignalCheck, Signal, TuningNext, PendingNext, PauseState, tuneVars,
         recorderVars
<1>17. CASE NoSignalCheck
  BY <1>17, <1>2 DEF NoSignalCheck, PendingNext, PauseState, tuneVars, recorderVars
<1>18. CASE NewRecorderLive
  BY <1>18, <1>2 DEF NewRecorderLive, StartFrame, LiveFile, PauseState, tuneVars, recorderVars
<1>19. CASE NewRecorderFile
  BY <1>19, <1>2 DEF NewRecorderFile, StartFrame, PauseState, tuneVars, recorderVars
<1>20. CASE NewRecorderCrash
  BY <1>20, <1>2 DEF NewRecorderCrash, StartFrame, PauseState, tuneVars, recorderVars
<1>21. CASE NewRecorderNoFile
  BY <1>21, <1>2 DEF NewRecorderNoFile, StartFrame, NewRecorderFailed, PendingNext, PauseState,
         tuneVars, recorderVars
<1>22. CASE CreateRecorder
  BY <1>22, <1>2 DEF CreateRecorder, StartFrame, SignalState, RecorderState, PauseState,
         tuneVars, recorderVars
<1>23. CASE CreateRecorderFails
  BY <1>23, <1>2 DEF CreateRecorderFails, StartFrame, NewRecorderFailed, PendingNext,
         RecorderState, PauseState, tuneVars, recorderVars
<1>24. CASE RecorderStarted
  BY <1>24, <1>2 DEF RecorderStarted, StartFrame, PendingNext, PauseState, tuneVars,
         recorderVars
<1>25. CASE TuningRestartRecorder
  BY <1>25, <1>2 DEF TuningRestartRecorder, StartFrame, PendingNext, SignalState, LiveFile,
         PauseState, tuneVars, recorderVars
<1>26. CASE TuningRestartFails
  BY <1>26, <1>2 DEF TuningRestartFails, StartFrame, PendingNext, SignalState, PauseState,
         tuneVars, recorderVars
<1>27. CASE HandlePendingRecordings
  BY <1>27, <1>2 DEF HandlePendingRecordings, LoopFrame, PauseState, tuneVars, recorderVars
<1>28. CASE CheckEnd
  <2>1. /\ epc' \in {"live", "asleep", "top"}
        /\ UNCHANGED <<m_tuningRequests, m_lastTuningRequest, m_recorder, m_pause, m_curRecording>>
        /\ "WaitingForSignal" \in m_stateFlags' <=> "WaitingForSignal" \in m_stateFlags
    BY <1>28 DEF CheckEnd, LoopEnds, LoopFrame, tuneVars, recorderVars
  <2>2. epc # "teardown"
    BY <1>28 DEF CheckEnd, Awake
  <2>3. QED BY <1>2, <2>1, <2>2 DEF PauseState
<1>29. CASE CheckLive
  BY <1>29, <1>2 DEF CheckLive, CheckLiveFrame, LoopFrame, LoopEnds, PauseState, tuneVars,
         recorderVars
<1>30. CASE SwitchLive
  BY <1>30, <1>2 DEF SwitchLive, CheckLiveFrame, LoopFrame, LoopEnds, PauseState, tuneVars,
         recorderVars
<1>31. CASE RingBufferChanged
  BY <1>31, <1>2 DEF RingBufferChanged, ElseFrame, PauseState, tuneVars, recorderVars
<1>32. CASE Other /\ OtherRows
  <2>1. /\ UNCHANGED <<epc, m_internalState, m_lastTuningRequest>>
        /\ (m_recorder' = "none") <=> (m_recorder = "none")
        /\ "WaitingForSignal" \in m_stateFlags' <=> "WaitingForSignal" \in m_stateFlags
    BY <1>32 DEF Other, OtherFrame, CoreFlags, PendingActions
  <2>2. KilledBefore /\ ~ForRecording(m_lastTuningRequest) => KilledBefore'
    <3>1. CASE Channels
      <4>1. Queue' = {1} /\ m_tuningRequests'[1].flags \subseteq m_lastTuningRequest.flags
        BY <3>1 DEF Channels, Queue, Request
      <4>2. QED
        BY <4>1 DEF KilledBefore, ForRecording
    <3>2. CASE ~Channels
      <4>1. UNCHANGED m_tuningRequests
        BY <1>32, <3>2 DEF Other, Quiet, BeginsRecording, Asks, Spawns, LeavesLive
      <4>2. QED BY <1>2, <2>1, <4>1
    <3>3. QED BY <3>1, <3>2
  <2>3. CASE Beginning
    <3>1. UNCHANGED m_pause
      BY <2>3 DEF Beginning
    <3>2. epc \in Unlocked /\ m_internalState = "None" /\ (epc = "asleep" => ~KillAhead)
      BY <2>3 DEF Beginning, LockHeld, QueueState, NoFull, KillAhead
    <3>3. "WaitingForSignal" \notin m_stateFlags \/ m_recorder = "none"
      BY <3>2 DEF Unlocked, SignalState, NoneState, Clean
    <3>4. QED BY <2>1, <2>2, <3>1, <3>3 DEF PauseState, ForRecording
  <2>4. CASE Pausing
    <3>1. UNCHANGED m_curRecording
      BY <2>4 DEF Pausing, RowsSame
    <3>2. CASE m_pause = "asked" /\ m_pause' = "paused"
      BY <2>1, <2>2, <2>4, <3>1, <3>2 DEF PauseState, Pausing, ForRecording
    <3>3. CASE m_pause = "no" /\ m_pause' = "asked" /\ lock = Null /\ m_internalState = "WatchingLiveTV"
      <4>1. epc \in {"asleep", "starting", "teardown"} /\ m_recorder # "none"
        BY <2>4, <3>3 DEF Pausing, LockHeld, Unlocked, RecorderState
      <4>2. epc # "teardown" => ~ForRecording(m_lastTuningRequest) /\ KilledBefore
        BY <3>3, <4>1 DEF WatchState, Shutting, KilledBefore
      <4>3. QED BY <2>1, <2>2, <3>1, <3>3, <4>1, <4>2 DEF PauseState, ForRecording
    <3>4. QED BY <2>4, <3>2, <3>3 DEF Pausing
  <2>5. CASE ~Beginning /\ ~Pausing
    <3>1. UNCHANGED <<m_pause, m_curRecording>>
      BY <1>32, <2>5 DEF OtherRows, Switching, NoFile, Notifying, RowsSame
    <3>2. QED BY <2>1, <2>2, <3>1 DEF PauseState, ForRecording
  <2>6. QED BY <2>3, <2>4, <2>5
<1>33. QED
  BY OtherStep, OtherRowsStep, <1>4, <1>5, <1>6, <1>7, <1>8, <1>9, <1>10, <1>11, <1>12, <1>13,
         <1>14, <1>15, <1>16, <1>17, <1>18, <1>19, <1>20, <1>21, <1>22, <1>23, <1>24, <1>25,
         <1>26, <1>27, <1>28, <1>29, <1>30, <1>31, <1>32
     DEF EventThread, HandleTuning, TuningFrequency

\* Every step preserves StaleState.
LEMMA StaleStep ==
  ASSUME TypeOK, ProgramGiven, LockHeld, RecorderState, NoneState, QueueState, RowState,
         DummyState, StaleState, Next
  PROVE  StaleState'
<1>1. Null \notin Programs /\ Programs \cap LiveRecs = {}
  BY SetsAssumption
<1>2. CASE HandleStateChange
  <2>1. /\ epc \in {"top", "asleep"} /\ epc' \notin {"starting", "torn"} /\ ~m_changeState'
        /\ UNCHANGED <<m_curRecording, finished, m_recorder>>
        /\ m_internalState' = IF m_changeState /\ Known(m_internalState, m_desiredNextState)
                                THEN m_desiredNextState ELSE m_internalState
    BY <1>2 DEF HandleStateChange, Awake, PauseNext, TuningNext, PendingNext, dbVars, recorderVars
  <2>2. Stale => m_internalState' # "WatchingLiveTV"
    BY <2>1 DEF StaleState, Begun, Known, TypeOK, States
  <2>3. QED BY <2>1, <2>2 DEF StaleState, Stale, Begun
<1>3. CASE TuningShutdowns
  BY <1>3, <1>1 DEF TuningShutdowns, DummyState, StaleState, Stale, Begun, Of, stateVars,
         recorderVars, dbVars
<1>4. CASE TeardownStop
  BY <1>4, <1>1 DEF TeardownStop, StaleState, Stale, Begun, Of, stateVars, recorderVars, dbVars
<1>5. CASE TeardownFinish
  BY <1>5, <1>1 DEF TeardownFinish, StaleState, Stale, Begun, Of, stateVars, recorderVars,
         dbVars
<1>6. CASE TeardownEnd
  BY <1>6, <1>1 DEF TeardownEnd, RecorderState, StaleState, Stale, Begun, Of, stateVars,
         recorderVars, dbVars
<1>7. CASE RequestTaken
  BY <1>7, <1>1 DEF RequestTaken, PauseNext, TuningNext, PendingNext, StaleState, Stale, Begun,
         Of, stateVars, recorderVars, dbVars
<1>8. CASE WaitForRecPause
  BY <1>8, <1>1 DEF WaitForRecPause, PendingNext, StaleState, Stale, Begun, Of, stateVars,
         recorderVars, dbVars
<1>9. CASE TuningFails
  BY <1>9, <1>1 DEF TuningFails, FrequencyFrame, TuningNext, PendingNext, ChangeState,
         NoStateChange, StaleState, Stale, Begun, Of, stateVars, recorderVars, dbVars
<1>10. CASE TuningOnSameMultiplex
  BY <1>10, <1>1 DEF TuningOnSameMultiplex, FrequencyFrame, TuningNext, PendingNext, StaleState,
         Stale, Begun, Of, stateVars, recorderVars, dbVars
<1>11. CASE TuningRecording
  BY <1>11, <1>1 DEF TuningRecording, FrequencyFrame, TuningNext, PendingNext, StaleState,
         Stale, Begun, Of, stateVars, recorderVars, dbVars
<1>12. CASE TuningLive
  BY <1>12, <1>1, NextLiveOfNull DEF TuningLive, FrequencyFrame, TuningNext, PendingNext,
         LiveFile, StaleState, Stale, Begun, Of, stateVars, recorderVars, dbVars
<1>13. CASE TuningLiveFails
  BY <1>13, <1>1 DEF TuningLiveFails, FrequencyFrame, TuningNext, PendingNext, ChangeState,
         StaleState, Stale, Begun, Of, stateVars, recorderVars, dbVars
<1>14. CASE TuningSignalCheck
  BY <1>14, <1>1 DEF TuningSignalCheck, Signal, TuningNext, PendingNext, StaleState, Stale,
         Begun, Of, stateVars, recorderVars, dbVars
<1>15. CASE NoSignalCheck
  BY <1>15, <1>1 DEF NoSignalCheck, PendingNext, StaleState, Stale, Begun, Of, stateVars,
         recorderVars, dbVars
<1>16. CASE NewRecorderLive
  <2>1. PICK r \in NextLive(m_pseudoLiveTVRecording) : m_curRecording' = r /\ finished' \subseteq finished \cup Of(m_curRecording)
    BY <1>16 DEF NewRecorderLive, LiveFile, FinishedAfterDummy
  <2>2. r \notin finished'
    BY <2>1, NextLiveType DEF RowState
  <2>3. QED BY <2>1, <2>2 DEF StaleState, Stale
<1>17. CASE NewRecorderFile
  BY <1>17, <1>1 DEF NewRecorderFile, StartFrame, FinishedAfterDummy, DummyState, HadDummy,
         StaleState, Stale, Begun, Of, stateVars, recorderVars, dbVars
<1>18. CASE NewRecorderCrash
  BY <1>18, <1>1 DEF NewRecorderCrash, StartFrame, StaleState, Stale, Begun, Of, stateVars,
         recorderVars, dbVars
<1>19. CASE NewRecorderNoFile
  BY <1>19, <1>1 DEF NewRecorderNoFile, StartFrame, NewRecorderFailed, PendingNext, ChangeState,
         FinishedAfterDummy, DummyState, HadDummy, StaleState, Stale, Begun, Of, stateVars,
         recorderVars, dbVars
<1>20. CASE CreateRecorder
  BY <1>20, <1>1 DEF CreateRecorder, StartFrame, RecorderState, StaleState, Stale, Begun, Of,
         stateVars, recorderVars, dbVars
<1>21. CASE CreateRecorderFails
  BY <1>21, <1>1 DEF CreateRecorderFails, StartFrame, NewRecorderFailed, PendingNext,
         ChangeState, StaleState, Stale, Begun, Of, stateVars, recorderVars, dbVars
<1>22. CASE RecorderStarted
  BY <1>22, <1>1 DEF RecorderStarted, StartFrame, PendingNext, RecorderState, StaleState, Stale,
         Begun, Of, stateVars, recorderVars, dbVars
<1>23. CASE TuningRestartRecorder
  <2>1. PICK r \in NextLive(m_pseudoLiveTVRecording) : m_curRecording' = r /\ finished' \subseteq finished \cup Of(m_curRecording)
    BY <1>23 DEF TuningRestartRecorder, LiveFile
  <2>2. r \notin finished'
    BY <2>1, NextLiveType DEF RowState
  <2>3. QED BY <2>1, <2>2 DEF StaleState, Stale
<1>24. CASE TuningRestartFails
  BY <1>24, <1>1 DEF TuningRestartFails, StartFrame, PendingNext, ChangeState, StaleState,
         Stale, Begun, Of, stateVars, recorderVars, dbVars
<1>25. CASE HandlePendingRecordings
  BY <1>25, <1>1 DEF HandlePendingRecordings, LoopFrame, StaleState, Stale, Begun, Of,
         stateVars, recorderVars, dbVars
<1>26. CASE CheckEnd
  <2>1. UNCHANGED <<m_curRecording, finished, m_recorder, m_internalState>>
    BY <1>26 DEF CheckEnd, LoopFrame, recorderVars
  <2>2. epc \notin {"teardown", "torn"} /\ epc' \in {"live", "asleep", "top"}
    BY <1>26 DEF CheckEnd, Awake, LoopEnds
  <2>3. UNCHANGED <<m_changeState, m_desiredNextState>> \/ (m_changeState' /\ m_desiredNextState' = "None")
    BY <1>26 DEF CheckEnd, ChangeState, NoStateChange
  <2>4. m_changeState => epc' = "top"
    BY <1>26, <2>3 DEF CheckEnd, LoopEnds, GetState
  <2>5. QED BY <2>1, <2>2, <2>3, <2>4 DEF StaleState, Stale, Begun
<1>27. CASE CheckLive
  BY <1>27, <1>1 DEF CheckLive, CheckLiveFrame, LoopFrame, LoopEnds, NoStateChange, NoneState,
         StaleState, Stale, Begun, Of, stateVars, recorderVars, dbVars
<1>28. CASE SwitchLive
  BY <1>28, <1>1 DEF SwitchLive, CheckLiveFrame, LoopFrame, ChangeState, NoStateChange,
         NoneState, StaleState, Stale, Begun, Of, stateVars, recorderVars, dbVars
<1>29. CASE RingBufferChanged
  BY <1>29, <1>1 DEF RingBufferChanged, ElseFrame, StaleState, Stale, Begun, Of, stateVars,
         recorderVars, dbVars
<1>30. CASE Other /\ OtherRows
  <2>1. /\ UNCHANGED <<epc, m_internalState>>
        /\ (m_recorder' = "none") <=> (m_recorder = "none")
    BY <1>30 DEF Other, OtherFrame
  <2>2. CASE Beginning
    BY <2>2 DEF Beginning, NewRow, StaleState, Stale
  <2>3. ASSUME NEW p \in Programs, NoFile(p) PROVE StaleState'
    BY <2>1, <2>3 DEF NoFile, StaleState
  <2>4. CASE RowsSame \/ Pausing \/ Switching \/ Notifying
    <3>1. UNCHANGED <<m_curRecording, finished>>
      BY <2>4 DEF RowsSame, Pausing, Switching, Notifying
    <3>2. Stale => \/ UNCHANGED <<m_changeState, m_desiredNextState>>
                  \/ m_internalState = "RecordingOnly" \/ epc \in {"teardown", "torn"}
      <4>1. SUFFICES ASSUME Stale, m_internalState # "RecordingOnly", epc \notin {"teardown", "torn"}
                     PROVE  UNCHANGED <<m_changeState, m_desiredNextState>>
        OBVIOUS
      <4>2. m_internalState = "None" => epc \notin {"asleep", "starting", "relock"}
        BY <4>1 DEF StaleState, RecorderState, NoneState, Clean, QueueState, NoFull, KillAhead
      <4>3. lock # Null
        BY <4>1, <4>2 DEF LockHeld, Unlocked, StaleState, TypeOK, States
      <4>4. QED BY <1>30, <4>3 DEF Other, Quiet, BeginsRecording, Asks, Spawns, LeavesLive, Channels
    <3>3. QED BY <2>1, <3>1, <3>2 DEF StaleState, Stale, Begun
  <2>5. QED BY <1>30, <2>2, <2>3, <2>4 DEF OtherRows
<1>31. QED
  BY OtherStep, OtherRowsStep, <1>2, <1>3, <1>4, <1>5, <1>6, <1>7, <1>8, <1>9, <1>10, <1>11,
         <1>12, <1>13, <1>14, <1>15, <1>16, <1>17, <1>18, <1>19, <1>20, <1>21, <1>22, <1>23,
         <1>24, <1>25, <1>26, <1>27, <1>28, <1>29, <1>30
     DEF EventThread, HandleTuning, TuningFrequency

-----------------------------------------------------------------------------
(* How a status changes *)

\* What FinishedRecording makes of a status.
Outcome(s) == IF s \in {"Recording", "Recorded"} THEN "Recorded" ELSE "Failed"

\* How the status of a scheduled recording may change in a step.
StatusChange(p) ==
  \/ status'[p] = status[p]
  \/ p = m_curRecording /\ status'[p] = Outcome(status[p])
  \/ /\ status'[p] = "Failed"
     /\ \/ p = m_curRecording \/ NoFile(p)
        \/ epc = "start" /\ m_recorder = "none" /\ p = m_lastTuningRequest.program
  \/ epc = "start" /\ p \notin started
  \/ epc = "signal" /\ p = m_curRecording
  \/ RingBufferChanged /\ p = m_nextRecording
  \/ Beginning /\ p = m_curRecording'
  \/ Notifying /\ p = m_curRecording

\* And what becomes of it when its row is closed.
StatusOfClosed(p) == p \in finished' \ finished => status'[p] \in {"Recorded", "Failed"}

\* Set and FinalOf touch the status of one recording.
LEMMA StatusAt ==
  ASSUME NEW st \in StatusMap, NEW r \in Recs \cup {Null}, NEW p \in Recs, Null \notin Recs,
         NEW s \in {"Unknown", "Recording", "Failing", "Failed", "Recorded"}
  PROVE  /\ Set(st, r, s)[p] = IF p = r THEN s ELSE st[p]
         /\ FinalOf(st, r)[p] = IF p = r THEN Outcome(st[p]) ELSE st[p]
BY DEF StatusMap, Set, FinalOf, Final, Outcome

\* FinishedRecording twice is FinishedRecording.
LEMMA OutcomeTwice ==
  ASSUME NEW s
  PROVE  Outcome(s) \in {"Recorded", "Failed"} /\ Outcome(Outcome(s)) = Outcome(s) /\ Outcome("Failed") = "Failed"
BY DEF Outcome

\* LiveFile for another recording.
LEMMA LiveFileStatus ==
  ASSUME TypeOK, RowState, NEW p \in Programs, NEW r \in Recs, r \notin started,
         NEW dummy, NEW st, NEW fin, NEW use, LiveFile(r, dummy, st, fin, use),
         \/ st = status /\ fin = finished
         \/ st = FinalOf(status, m_curRecording) /\ fin = finished \cup Of(m_curRecording)
  PROVE  /\ p # r => \/ status'[p] = status[p]
                     \/ p = m_curRecording /\ status'[p] = Outcome(status[p])
         /\ p = r => p \notin started
         /\ StatusOfClosed(p)
<1>0. Null \notin Recs /\ status \in StatusMap /\ m_curRecording \in Recs \cup {Null} /\ p \in Recs
  BY SetsAssumption DEF TypeOK, Recs, StatusMap
<1>1. /\ Null \notin Recs /\ status \in StatusMap /\ m_curRecording \in Recs \cup {Null} /\ p \in Recs
      /\ st \in StatusMap
  BY <1>0, StatusKept
<1> DEFINE ends == m_buffer # Null /\ ~chainDummy
           mid == IF ends THEN FinalOf(st, m_curRecording) ELSE st
<1>2. status' = Set(mid, r, "Unknown") /\ finished' = IF ends THEN fin \cup Of(m_curRecording) ELSE fin
  BY DEF LiveFile
<1>3. mid \in StatusMap
  BY <1>1, StatusKept
<1>4. mid[p] = IF p = m_curRecording /\ (ends \/ st # status) THEN Outcome(status[p]) ELSE status[p]
  BY <1>1, StatusAt, OutcomeTwice
<1>5. status'[p] = IF p = r THEN "Unknown" ELSE mid[p]
  BY <1>1, <1>2, <1>3, StatusAt
<1>6. r \notin finished'
  BY <1>2, <1>1 DEF RowState, Of
<1>7. p # r /\ p \in finished' \ finished => status'[p] \in {"Recorded", "Failed"}
  <2>1. SUFFICES ASSUME p # r, p \in finished' \ finished PROVE status'[p] = Outcome(status[p])
    BY OutcomeTwice
  <2>2. p = m_curRecording
    BY <1>2, <2>1 DEF Of
  <2>3. CASE ends \/ st # status
    BY <1>4, <1>5, <2>1, <2>2, <2>3
  <2>4. CASE ~ends /\ st = status
    <3>1. finished' = finished \cup Of(m_curRecording) /\ st = FinalOf(status, m_curRecording)
      BY <1>2, <2>1, <2>4
    <3>2. FinalOf(status, m_curRecording)[p] = Outcome(status[p])
      BY <1>1, <2>2, StatusAt
    <3>3. mid = status
      BY <2>4
    <3>4. QED BY <1>5, <2>1, <2>4, <3>1, <3>2, <3>3
  <2>5. QED BY <2>3, <2>4
<1>8. QED BY <1>4, <1>5, <1>6, <1>7 DEF StatusOfClosed

\* Every step changes a status in one of these ways.
LEMMA StatusStep ==
  ASSUME TypeOK, ProgramGiven, RowState, Next, NEW p \in Programs
  PROVE  StatusChange(p) /\ StatusOfClosed(p)
<1>1. /\ Null \notin Recs /\ status \in StatusMap /\ m_curRecording \in Recs \cup {Null} /\ p \in Recs
  BY SetsAssumption DEF TypeOK, Recs, StatusMap
<1>2. \A s \in {"Unknown", "Recording", "Failing", "Failed", "Recorded"} :
        Set(status, m_curRecording, s)[p] = IF p = m_curRecording THEN s ELSE status[p]
  BY <1>1, StatusAt
<1>3. FinalOf(status, m_curRecording)[p] = IF p = m_curRecording THEN Outcome(status[p]) ELSE status[p]
  BY <1>1, StatusAt
<1>4. Outcome(status[p]) \in {"Recorded", "Failed"}
  BY OutcomeTwice
<1>5. ASSUME UNCHANGED <<status, finished>> PROVE StatusChange(p) /\ StatusOfClosed(p)
  BY <1>5 DEF StatusChange, StatusOfClosed
<1>6. CASE HandleStateChange
  BY <1>6, <1>5 DEF HandleStateChange, dbVars
<1>7. CASE TuningShutdowns
  BY <1>7, <1>2, <1>3, <1>4 DEF TuningShutdowns, StatusChange, StatusOfClosed, Of, dbVars
<1>8. CASE TeardownStop
  BY <1>8, <1>5 DEF TeardownStop, dbVars
<1>9. CASE TeardownFinish
  <2>1. CASE "KillRec" \in Front.flags
    <3>1. status' = FinalOf(Set(status, m_curRecording, "Failed"), m_curRecording)
      BY <1>9, <2>1 DEF TeardownFinish
    <3>2. Set(status, m_curRecording, "Failed") \in StatusMap
      BY <1>1, StatusKept
    <3>3. status'[p] = IF p = m_curRecording THEN "Failed" ELSE status[p]
      BY <1>1, <1>2, <3>1, <3>2, StatusAt, OutcomeTwice
    <3>4. QED BY <1>9, <3>3 DEF TeardownFinish, StatusChange, StatusOfClosed, Of
  <2>2. CASE "KillRec" \notin Front.flags
    BY <1>9, <1>3, <1>4, <2>2 DEF TeardownFinish, StatusChange, StatusOfClosed, Of
  <2>3. QED BY <2>1, <2>2
<1>10. CASE TeardownEnd
  BY <1>10, <1>5 DEF TeardownEnd, dbVars
<1>11. CASE RequestTaken
  BY <1>11, <1>5 DEF RequestTaken, dbVars
<1>12. CASE WaitForRecPause
  BY <1>12, <1>5 DEF WaitForRecPause, dbVars
<1>13. CASE TuningFails
  BY <1>13, <1>2, <1>3, <1>4 DEF TuningFails, FrequencyFrame, StatusChange, StatusOfClosed, Of,
         dbVars
<1>14. CASE TuningOnSameMultiplex
  BY <1>14, <1>5 DEF TuningOnSameMultiplex, FrequencyFrame, dbVars
<1>15. CASE TuningRecording
  BY <1>15, <1>5 DEF TuningRecording, FrequencyFrame, dbVars
<1>16. CASE TuningLive
  <2>1. PICK r \in NextLive(Null) : LiveFile(r, TRUE, status, finished, inUse)
    BY <1>16 DEF TuningLive
  <2>2. r \in Recs /\ r \notin started /\ p # r
    BY <2>1, NextLiveOfNull, SetsAssumption DEF Recs
  <2>3. QED BY <2>1, <2>2, LiveFileStatus DEF StatusChange
<1>17. CASE TuningLiveFails
  BY <1>17, <1>5 DEF TuningLiveFails, FrequencyFrame, dbVars
<1>18. CASE TuningSignalCheck
  <2>1. \E s \in {"Recording", "Failing", "Failed"} : status' = Set(status, m_curRecording, s)
    BY <1>18 DEF TuningSignalCheck, Signal
  <2>2. epc = "signal" /\ finished' = finished
    BY <1>18 DEF TuningSignalCheck
  <2>3. QED BY <1>2, <2>1, <2>2 DEF StatusChange, StatusOfClosed
<1>19. CASE NoSignalCheck
  BY <1>19, <1>5 DEF NoSignalCheck, dbVars
<1>20. CASE NewRecorderLive
  <2>1. PICK r \in NextLive(m_pseudoLiveTVRecording) :
          LiveFile(r, FALSE, StatusAfterDummy, FinishedAfterDummy, InUseAfterDummy)
    BY <1>20 DEF NewRecorderLive
  <2>2. r \in Recs /\ r \notin started
    BY <2>1, NextLiveType
  <2>3. \/ StatusAfterDummy = status /\ FinishedAfterDummy = finished
        \/ /\ StatusAfterDummy = FinalOf(status, m_curRecording)
           /\ FinishedAfterDummy = finished \cup Of(m_curRecording)
    BY DEF StatusAfterDummy, FinishedAfterDummy
  <2>4. epc = "start"
    BY <1>20 DEF NewRecorderLive
  <2>5. QED BY <2>1, <2>2, <2>3, <2>4, LiveFileStatus DEF StatusChange
<1>21. CASE NewRecorderFile
  BY <1>21, <1>2, <1>3, <1>4 DEF NewRecorderFile, StartFrame, StatusChange, StatusOfClosed, Of,
         FinishedAfterDummy, StatusAfterDummy, dbVars
<1>22. CASE NewRecorderCrash
  BY <1>22, <1>5 DEF NewRecorderCrash, StartFrame, dbVars
<1>23. CASE NewRecorderNoFile
  <2>1. StatusAfterDummy \in StatusMap
    BY <1>1, StatusKept DEF StatusAfterDummy
  <2>2. m_lastTuningRequest.program \in Recs \cup {Null}
    BY DEF TypeOK, Requests
  <2>3. status'[p] = IF p = m_lastTuningRequest.program THEN "Failed" ELSE StatusAfterDummy[p]
    BY <1>23, <1>1, <2>1, <2>2, StatusAt DEF NewRecorderNoFile
  <2>4. finished' = IF HadDummy THEN finished \cup Of(m_curRecording) ELSE finished
    BY <1>23 DEF NewRecorderNoFile, FinishedAfterDummy
  <2>5. StatusAfterDummy[p] = IF HadDummy /\ p = m_curRecording THEN Outcome(status[p]) ELSE status[p]
    BY <1>3 DEF StatusAfterDummy
  <2>6. epc = "start" /\ m_recorder = "none"
    BY <1>23 DEF NewRecorderNoFile
  <2>7. QED
    BY <1>4, <2>3, <2>4, <2>5, <2>6 DEF StatusChange, StatusOfClosed, Of
<1>24. CASE CreateRecorder
  BY <1>24, <1>5 DEF CreateRecorder, StartFrame, dbVars
<1>25. CASE CreateRecorderFails
  BY <1>25, <1>2, <1>3, <1>4 DEF CreateRecorderFails, StartFrame, StatusChange, StatusOfClosed,
         Of, dbVars
<1>26. CASE RecorderStarted
  BY <1>26, <1>5 DEF RecorderStarted, StartFrame, dbVars
<1>27. CASE TuningRestartRecorder
  <2>1. epc = "start"
    BY <1>27 DEF TuningRestartRecorder
  <2>2. CASE HadDummy
    <3>1. PICK r \in NextLive(m_pseudoLiveTVRecording) :
            LiveFile(r, FALSE, FinalOf(status, m_curRecording),
                     finished \cup Of(m_curRecording), inUse \ {m_curRecording})
      BY <1>27, <2>2 DEF TuningRestartRecorder
    <3>2. r \in Recs /\ r \notin started
      BY <3>1, NextLiveType
    <3>3. QED BY <2>1, <3>1, <3>2, LiveFileStatus DEF StatusChange
  <2>3. CASE ~HadDummy
    <3>1. PICK r \in NextLive(m_pseudoLiveTVRecording) :
            /\ status' = Set(FinalOf(status, m_curRecording), r, "Recording")
            /\ finished' = finished \cup Of(m_curRecording)
      BY <1>27, <2>3 DEF TuningRestartRecorder
    <3>2. r \in Recs /\ r \notin started /\ FinalOf(status, m_curRecording) \in StatusMap
      BY <1>1, <3>1, NextLiveType, StatusKept
    <3>3. status'[p] = IF p = r THEN "Recording" ELSE FinalOf(status, m_curRecording)[p]
      BY <1>1, <3>1, <3>2, StatusAt
    <3>4. r \notin finished'
      BY <3>1, <3>2 DEF RowState
    <3>5. QED BY <1>3, <1>4, <2>1, <3>1, <3>2, <3>3, <3>4 DEF StatusChange, StatusOfClosed, Of
  <2>4. QED BY <2>2, <2>3
<1>28. CASE TuningRestartFails
  BY <1>28, <1>2, <1>3, <1>4 DEF TuningRestartFails, StartFrame, StatusChange, StatusOfClosed,
         Of, dbVars
<1>29. CASE HandlePendingRecordings
  BY <1>29, <1>5 DEF HandlePendingRecordings, LoopFrame, dbVars
<1>30. CASE CheckEnd
  BY <1>30, <1>2, <1>3, <1>4 DEF CheckEnd, LoopFrame, StatusChange, StatusOfClosed, Of, dbVars
<1>31. CASE CheckLive
  BY <1>31, <1>5 DEF CheckLive, CheckLiveFrame, LoopFrame, dbVars
<1>32. CASE SwitchLive
  BY <1>32, <1>5 DEF SwitchLive, CheckLiveFrame, LoopFrame, dbVars
<1>33. CASE RingBufferChanged
  <2>1. FinalOf(status, m_curRecording) \in StatusMap
    BY <1>1, StatusKept
  <2>2. status'[p] = IF p = m_nextRecording THEN "Recording" ELSE FinalOf(status, m_curRecording)[p]
    BY <1>33, <1>1, <2>1 DEF RingBufferChanged, StatusMap
  <2>3. QED
    BY <1>33, <1>3, <1>4, <2>2 DEF RingBufferChanged, StatusChange, StatusOfClosed, Of
<1>34. CASE Other /\ OtherRows
  <2>1. CASE Beginning
    BY <1>1, <2>1 DEF Beginning, NewRow, StatusMap, StatusChange, StatusOfClosed
  <2>2. ASSUME NEW q \in Programs, NoFile(q) PROVE StatusChange(p) /\ StatusOfClosed(p)
    BY <1>1, <2>2 DEF NoFile, StatusMap, StatusChange, StatusOfClosed
  <2>3. CASE Notifying
    BY <1>1, <2>3 DEF Notifying, StatusMap, StatusChange, StatusOfClosed
  <2>4. CASE RowsSame \/ Pausing \/ Switching
    BY <1>5, <2>4 DEF RowsSame, Pausing, Switching
  <2>5. QED BY <1>34, <2>1, <2>2, <2>3, <2>4 DEF OtherRows
<1>35. QED
  BY OtherStep, OtherRowsStep, <1>6, <1>7, <1>8, <1>9, <1>10, <1>11, <1>12, <1>13, <1>14, <1>15,
         <1>16, <1>17, <1>18, <1>19, <1>20, <1>21, <1>22, <1>23, <1>24, <1>25, <1>26, <1>27,
         <1>28, <1>29, <1>30, <1>31, <1>32, <1>33, <1>34
     DEF EventThread, HandleTuning, TuningFrequency

\* The status of a finished recording changes only to Failed.
LEMMA FinishedStatus ==
  ASSUME TypeOK, ProgramGiven, LockHeld, RowState, SignalState, PauseState, StaleState, OutcomeState, Next,
         NEW p \in Programs \cap finished, p \in finished'
  PROVE  \/ status'[p] = status[p]
         \/ /\ status'[p] = "Failed"
            /\ \/ p = m_curRecording \/ NoFile(p)
               \/ epc = "start" /\ m_recorder = "none" /\ p = m_lastTuningRequest.program
<1>1. StatusChange(p) /\ status[p] \in {"Recorded", "Failed"} /\ p \in started
  BY StatusStep DEF OutcomeState, RowState
<1>2. Outcome(status[p]) = status[p]
  BY <1>1 DEF Outcome
<1>3. ~(epc = "signal" /\ p = m_curRecording)
  BY DEF SignalState, PauseState, StaleState, Stale
<1>4. ~(RingBufferChanged /\ p = m_nextRecording)
  BY DEF RingBufferChanged
<1>5. ~(Beginning /\ p = m_curRecording')
  BY DEF Beginning, NewRow
<1>6. ~(Notifying /\ p = m_curRecording)
  BY DEF Notifying, StaleState, Stale, LockHeld, Unlocked
<1>7. QED BY <1>1, <1>2, <1>3, <1>4, <1>5, <1>6 DEF StatusChange

\* Every step preserves OutcomeState.
LEMMA OutcomeStep ==
  ASSUME TypeOK, ProgramGiven, LockHeld, RowState, SignalState, PauseState, StaleState, OutcomeState, Next
  PROVE  OutcomeState'
<1>1. SUFFICES ASSUME NEW p \in Programs, p \in finished' PROVE status'[p] \in {"Recorded", "Failed"}
  BY DEF OutcomeState
<1>2. CASE p \in finished
  BY <1>1, <1>2, FinishedStatus DEF OutcomeState
<1>3. CASE p \notin finished
  BY <1>1, <1>3, StatusStep DEF StatusOfClosed
<1>4. QED BY <1>2, <1>3

-----------------------------------------------------------------------------
(* Names of recordings in requests *)

\* A request for the recording that was begun in the state None.
NamesCurrent(r) ==
  /\ HandleStateChange
  /\ r.program = m_curRecording
  /\ m_changeState /\ m_desiredNextState = "RecordingOnly"
  /\ m_internalState = "None" /\ epc \in {"top", "asleep"}

\* Every other name in the queue was there before.
KeepsNames ==
  \A i \in Queue' :
    m_tuningRequests'[i].program # Null =>
      \/ \E j \in Queue : m_tuningRequests'[i] = m_tuningRequests[j]
      \/ NamesCurrent(m_tuningRequests'[i])

\* Every step preserves NamedState, and names nothing else in a request.
LEMMA NamedStep ==
  ASSUME TypeOK, ProgramGiven, QueueFilled, NamedState, Next
  PROVE  NamedState' /\ KeepsNames
<1>1. m_tuningRequests \in Seq(Requests)
  BY DEF TypeOK
<1>2. ASSUME UNCHANGED <<m_tuningRequests, m_lastTuningRequest>> PROVE NamedState' /\ KeepsNames
  BY <1>2 DEF NamedState, Named, KeepsNames, Queue
<1>3. ASSUME NEW r \in Requests, m_tuningRequests' = Append(m_tuningRequests, r),
             m_lastTuningRequest' = m_lastTuningRequest, Named(r), r.program # Null => NamesCurrent(r)
      PROVE  NamedState' /\ KeepsNames
  <2>1. /\ Queue' = Queue \cup {Len(m_tuningRequests) + 1}
        /\ \A i \in Queue : m_tuningRequests'[i] = m_tuningRequests[i]
        /\ m_tuningRequests'[Len(m_tuningRequests) + 1] = r
    BY <1>1, <1>3, QueueAppended
  <2>2. KeepsNames
    BY <1>3, <2>1 DEF KeepsNames, NamesCurrent
  <2>3. QED BY <1>3, <2>1, <2>2 DEF NamedState, Named
<1>4. CASE HandleStateChange
  <2>1. m_lastTuningRequest' = m_lastTuningRequest /\ epc \in {"top", "asleep"}
    BY <1>4 DEF HandleStateChange, Awake
  <2>2. ASSUME NEW r \in Requests, m_tuningRequests' = Append(m_tuningRequests, r), r.program = Null
        PROVE  NamedState' /\ KeepsNames
    BY <1>3, <2>1, <2>2 DEF Named
  <2>3. ASSUME NEW r \in Requests, m_tuningRequests' = Append(m_tuningRequests, r), m_changeState,
               m_internalState = "None", m_desiredNextState = "RecordingOnly", r = Request({"Recording"}, m_curRecording)
        PROVE  NamedState' /\ KeepsNames
    <3>1. Named(r) /\ NamesCurrent(r)
      BY <1>4, <2>1, <2>3 DEF Named, NamesCurrent, Request
    <3>2. QED BY <1>3, <2>1, <2>3, <3>1
  <2>5. QED BY <1>4, <1>2, <2>1, <2>2, <2>3, QueueAfterChange DEF Request
<1>5. CASE TuningShutdowns
  BY <1>5, <1>2 DEF TuningShutdowns, tuneVars
<1>6. CASE TeardownStop
  BY <1>6, <1>2 DEF TeardownStop, tuneVars
<1>7. CASE TeardownFinish
  BY <1>7, <1>2 DEF TeardownFinish, tuneVars
<1>8. CASE TeardownEnd
  BY <1>8, <1>2 DEF TeardownEnd, tuneVars
<1>9. CASE RequestTaken
  <2>1. m_tuningRequests # <<>>
    BY <1>9 DEF QueueFilled, Shutting, RequestTaken
  <2>2. m_lastTuningRequest' = Front /\ m_tuningRequests' = Tail(m_tuningRequests)
    BY <1>9 DEF RequestTaken
  <2>3. /\ 1 \in Queue /\ Front = m_tuningRequests[1]
        /\ \A i \in Queue' : i + 1 \in Queue /\ m_tuningRequests'[i] = m_tuningRequests[i + 1]
    BY <1>1, <2>1, <2>2, QueueTaken
  <2>4. KeepsNames
    BY <2>3 DEF KeepsNames
  <2>5. QED BY <2>2, <2>3, <2>4 DEF NamedState, Named
<1>10. CASE WaitForRecPause
  BY <1>10, <1>2 DEF WaitForRecPause, tuneVars
<1>11. CASE TuningFails
  <2>1. PICK r \in Requests : r = Request({"KillRec"}, Null)
    BY DEF Request, Requests, RequestFlags, NoRec
  <2>2. /\ UNCHANGED m_tuningRequests \/ m_tuningRequests' = Append(m_tuningRequests, r)
        /\ m_lastTuningRequest' = m_lastTuningRequest
    BY <1>11, <2>1 DEF TuningFails, FrequencyFrame
  <2>3. QED BY <1>2, <1>3, <2>1, <2>2 DEF Named, Request
<1>12. CASE TuningOnSameMultiplex
  BY <1>12, <1>2 DEF TuningOnSameMultiplex, FrequencyFrame, tuneVars
<1>13. CASE TuningRecording
  BY <1>13, <1>2 DEF TuningRecording, FrequencyFrame, tuneVars
<1>14. CASE TuningLive
  BY <1>14, <1>2 DEF TuningLive, FrequencyFrame, tuneVars
<1>15. CASE TuningLiveFails
  BY <1>15, <1>2 DEF TuningLiveFails, FrequencyFrame, tuneVars
<1>16. CASE TuningSignalCheck
  BY <1>16, <1>2 DEF TuningSignalCheck, tuneVars
<1>17. CASE NoSignalCheck
  BY <1>17, <1>2 DEF NoSignalCheck, tuneVars
<1>18. CASE NewRecorderLive
  BY <1>18, <1>2 DEF NewRecorderLive, StartFrame, tuneVars
<1>19. CASE NewRecorderFile
  BY <1>19, <1>2 DEF NewRecorderFile, StartFrame, tuneVars
<1>20. CASE NewRecorderCrash
  BY <1>20, <1>2 DEF NewRecorderCrash, StartFrame, tuneVars
<1>21. CASE NewRecorderNoFile
  BY <1>21, <1>2 DEF NewRecorderNoFile, StartFrame, tuneVars
<1>22. CASE CreateRecorder
  BY <1>22, <1>2 DEF CreateRecorder, StartFrame, tuneVars
<1>23. CASE CreateRecorderFails
  BY <1>23, <1>2 DEF CreateRecorderFails, StartFrame, tuneVars
<1>24. CASE RecorderStarted
  BY <1>24, <1>2 DEF RecorderStarted, StartFrame, tuneVars
<1>25. CASE TuningRestartRecorder
  BY <1>25, <1>2 DEF TuningRestartRecorder, StartFrame, tuneVars
<1>26. CASE TuningRestartFails
  BY <1>26, <1>2 DEF TuningRestartFails, StartFrame, tuneVars
<1>27. CASE HandlePendingRecordings
  BY <1>27, <1>2 DEF HandlePendingRecordings, LoopFrame, tuneVars
<1>28. CASE CheckEnd
  BY <1>28, <1>2 DEF CheckEnd, LoopFrame, tuneVars
<1>29. CASE CheckLive
  BY <1>29, <1>2 DEF CheckLive, CheckLiveFrame, LoopFrame, tuneVars
<1>30. CASE SwitchLive
  BY <1>30, <1>2 DEF SwitchLive, CheckLiveFrame, LoopFrame, tuneVars
<1>31. CASE RingBufferChanged
  BY <1>31, <1>2 DEF RingBufferChanged, ElseFrame, tuneVars
<1>32. CASE Other /\ OtherRows
  <2>1. m_lastTuningRequest' = m_lastTuningRequest
    BY <1>32 DEF Other, OtherFrame
  <2>2. CASE Channels
    <3>1. Queue' = {1} /\ m_tuningRequests'[1].program = Null
      BY <2>2 DEF Channels, Queue, Request
    <3>2. QED BY <2>1, <3>1 DEF NamedState, Named, KeepsNames
  <2>3. CASE ~Channels
    <3>1. UNCHANGED m_tuningRequests
      BY <1>32, <2>3 DEF Other, Quiet, BeginsRecording, Asks, Spawns, LeavesLive
    <3>2. QED BY <1>2, <2>1, <3>1
  <2>4. QED BY <2>2, <2>3
<1>33. QED
  BY OtherStep, OtherRowsStep, <1>4, <1>5, <1>6, <1>7, <1>8, <1>9, <1>10, <1>11, <1>12, <1>13,
         <1>14, <1>15, <1>16, <1>17, <1>18, <1>19, <1>20, <1>21, <1>22, <1>23, <1>24, <1>25,
         <1>26, <1>27, <1>28, <1>29, <1>30, <1>31, <1>32
     DEF EventThread, HandleTuning, TuningFrequency

\* Every step preserves NextFileState.
LEMMA NextFileStep ==
  ASSUME TypeOK, ProgramGiven, LockHeld, RecorderState, NoneState, WaitState, QueueState,
         RowState, NextFileState, Next
  PROVE  NextFileState'
<1>1. CASE HandleStateChange
  BY <1>1 DEF HandleStateChange, Awake, PauseNext, TuningNext, PendingNext, NextFileState,
         Begun, stateVars, recorderVars
<1>2. CASE TuningShutdowns
  BY <1>2 DEF TuningShutdowns, WaitState, NextFileState, Begun, stateVars, recorderVars
<1>3. CASE TeardownStop
  BY <1>3 DEF TeardownStop, NextFileState, Begun, stateVars, recorderVars
<1>4. CASE TeardownFinish
  BY <1>4 DEF TeardownFinish, RecorderState, RowState, NextFileState, Begun, stateVars,
         recorderVars
<1>5. CASE TeardownEnd
  BY <1>5 DEF TeardownEnd, RecorderState, RowState, NextFileState, Begun, stateVars,
         recorderVars
<1>6. CASE RequestTaken
  BY <1>6 DEF RequestTaken, PauseNext, TuningNext, PendingNext, NextFileState, Begun, stateVars,
         recorderVars
<1>7. CASE WaitForRecPause
  BY <1>7 DEF WaitForRecPause, PendingNext, NextFileState, Begun, stateVars, recorderVars
<1>8. CASE TuningFails
  BY <1>8 DEF TuningFails, FrequencyFrame, TuningNext, PendingNext, ChangeState, NoStateChange,
         NextFileState, Begun, stateVars, recorderVars
<1>9. CASE TuningOnSameMultiplex
  BY <1>9 DEF TuningOnSameMultiplex, FrequencyFrame, TuningNext, PendingNext, NextFileState,
         Begun, stateVars, recorderVars
<1>10. CASE TuningRecording
  BY <1>10 DEF TuningRecording, FrequencyFrame, TuningNext, PendingNext, NextFileState, Begun,
         stateVars, recorderVars
<1>11. CASE TuningLive
  BY <1>11 DEF TuningLive, FrequencyFrame, TuningNext, PendingNext, NextFileState, Begun,
         stateVars, recorderVars
<1>12. CASE TuningLiveFails
  BY <1>12 DEF TuningLiveFails, FrequencyFrame, TuningNext, PendingNext, ChangeState,
         NextFileState, Begun, stateVars, recorderVars
<1>13. CASE TuningSignalCheck
  BY <1>13 DEF TuningSignalCheck, Signal, TuningNext, PendingNext, NextFileState, Begun,
         stateVars, recorderVars
<1>14. CASE NoSignalCheck
  BY <1>14 DEF NoSignalCheck, PendingNext, NextFileState, Begun, stateVars, recorderVars
<1>15. CASE NewRecorderLive
  BY <1>15 DEF NewRecorderLive, StartFrame, NextFileState, Begun, stateVars, recorderVars
<1>16. CASE NewRecorderFile
  BY <1>16 DEF NewRecorderFile, StartFrame, NextFileState, Begun, stateVars, recorderVars
<1>17. CASE NewRecorderCrash
  BY <1>17 DEF NewRecorderCrash, StartFrame, NextFileState, Begun, stateVars, recorderVars
<1>18. CASE NewRecorderNoFile
  BY <1>18 DEF NewRecorderNoFile, StartFrame, NewRecorderFailed, PendingNext, ChangeState,
         NextFileState, Begun, stateVars, recorderVars
<1>19. CASE CreateRecorder
  BY <1>19 DEF CreateRecorder, StartFrame, RecorderState, RowState, NextFileState, Begun,
         stateVars, recorderVars
<1>20. CASE CreateRecorderFails
  BY <1>20 DEF CreateRecorderFails, StartFrame, NewRecorderFailed, PendingNext, ChangeState,
         NextFileState, Begun, stateVars, recorderVars
<1>21. CASE RecorderStarted
  BY <1>21 DEF RecorderStarted, StartFrame, PendingNext, NextFileState, Begun, stateVars,
         recorderVars
<1>22. CASE TuningRestartRecorder
  BY <1>22 DEF TuningRestartRecorder, StartFrame, PendingNext, LiveFile, NextFileState, Begun,
         stateVars, recorderVars
<1>23. CASE TuningRestartFails
  BY <1>23 DEF TuningRestartFails, StartFrame, PendingNext, ChangeState, NextFileState, Begun,
         stateVars, recorderVars
<1>24. CASE HandlePendingRecordings
  BY <1>24 DEF HandlePendingRecordings, LoopFrame, NextFileState, Begun, stateVars, recorderVars
<1>25. CASE CheckEnd
  <2>1. UNCHANGED <<m_internalState, m_nextRecording>> /\ epc \in {"ends", "asleep"} /\ epc' \in {"live", "asleep", "top"}
    BY <1>25 DEF CheckEnd, Awake, LoopEnds, LoopFrame, recorderVars
  <2>2. Begun' => Begun
    BY <1>25 DEF CheckEnd, ChangeState, NoStateChange, Begun
  <2>3. QED BY <2>1, <2>2 DEF NextFileState
<1>26. CASE CheckLive
  BY <1>26 DEF CheckLive, CheckLiveFrame, LoopFrame, LoopEnds, NoStateChange, NextFileState,
         Begun, stateVars, recorderVars
<1>27. CASE SwitchLive
  BY <1>27 DEF SwitchLive, CheckLiveFrame, LoopFrame, ChangeState, NoStateChange, NoneState,
         NextFileState, Begun, stateVars, recorderVars
<1>28. CASE RingBufferChanged
  BY <1>28 DEF RingBufferChanged, ElseFrame, NextFileState, Begun, stateVars, recorderVars
<1>29. CASE Other /\ OtherRows
  <2>1. /\ UNCHANGED <<epc, m_internalState>>
        /\ (m_recorder' = "none") <=> (m_recorder = "none")
    BY <1>29 DEF Other, OtherFrame
  <2>2. CASE Switching
    BY <2>1, <2>2 DEF Switching, NextFileState
  <2>3. CASE ~Switching
    <3>1. UNCHANGED m_nextRecording
      BY <1>29, <2>3 DEF OtherRows, Beginning, NoFile, Notifying, Pausing, RowsSame
    <3>2. SUFFICES ASSUME m_internalState = "None", ~Begun, Begun', epc \notin {"teardown", "starting"}
                   PROVE  m_nextRecording = Null
      BY <2>1, <3>1 DEF NextFileState
    <3>3. lock = Null
      BY <1>29, <3>2 DEF Other, Quiet, BeginsRecording, Asks, Spawns, LeavesLive, Channels, Begun
    <3>4. epc \in {"asleep", "torn", "relock"}
      BY <3>2, <3>3 DEF LockHeld, Unlocked
    <3>5. epc = "asleep" => ~KillAhead
      BY DEF QueueState, NoFull, KillAhead
    <3>6. m_recorder = "none"
      BY <3>2, <3>4, <3>5 DEF NoneState, Clean, RecorderState
    <3>7. QED BY <3>6 DEF RowState
  <2>4. QED BY <2>2, <2>3
<1>30. QED
  BY OtherStep, OtherRowsStep, <1>1, <1>2, <1>3, <1>4, <1>5, <1>6, <1>7, <1>8, <1>9, <1>10,
         <1>11, <1>12, <1>13, <1>14, <1>15, <1>16, <1>17, <1>18, <1>19, <1>20, <1>21, <1>22,
         <1>23, <1>24, <1>25, <1>26, <1>27, <1>28, <1>29
     DEF EventThread, HandleTuning, TuningFrequency

\* Every step preserves BegunState.
LEMMA BegunStep ==
  ASSUME TypeOK, ProgramGiven, LockHeld, NoneState, WaitState, SignalState, NextFileState,
         BegunState, Next
  PROVE  BegunState'
<1>1. Null \notin Programs
  BY SetsAssumption
<1>2. ASSUME UNCHANGED <<status, m_internalState, m_curRecording>>,
             m_changeState' /\ m_desiredNextState' = "RecordingOnly" =>
               m_changeState /\ m_desiredNextState = "RecordingOnly",
             epc \in {"teardown", "torn"} => epc' \in {"teardown", "torn"}
      PROVE  BegunState'
  BY <1>2 DEF BegunState, Unrecorded
<1>3. CASE HandleStateChange
  BY <1>3, <1>1 DEF HandleStateChange, Awake, PauseNext, TuningNext, PendingNext, BegunState,
         stateVars, dbVars
<1>4. CASE TuningShutdowns
  BY <1>4, <1>1 DEF TuningShutdowns, WaitState, BegunState, stateVars, dbVars
<1>5. CASE TeardownStop
  BY <1>5, <1>1 DEF TeardownStop, BegunState, stateVars, dbVars
<1>6. CASE TeardownFinish
  BY <1>6, <1>1 DEF TeardownFinish, Unrecorded, BegunState, stateVars, dbVars
<1>7. CASE TeardownEnd
  BY <1>7, <1>2 DEF TeardownEnd, BegunState, stateVars, dbVars
<1>8. CASE RequestTaken
  BY <1>8, <1>2 DEF RequestTaken, PauseNext, TuningNext, PendingNext, BegunState, stateVars,
         dbVars
<1>9. CASE WaitForRecPause
  BY <1>9, <1>2 DEF WaitForRecPause, PendingNext, BegunState, stateVars, dbVars
<1>10. CASE TuningFails
  BY <1>10, <1>1 DEF TuningFails, FrequencyFrame, TuningNext, PendingNext, ChangeState,
         NoStateChange, WaitState, BegunState, stateVars, dbVars
<1>11. CASE TuningOnSameMultiplex
  BY <1>11, <1>2 DEF TuningOnSameMultiplex, FrequencyFrame, TuningNext, PendingNext, WaitState,
         BegunState, stateVars, dbVars
<1>12. CASE TuningRecording
  BY <1>12, <1>2 DEF TuningRecording, FrequencyFrame, TuningNext, PendingNext, WaitState,
         BegunState, stateVars, dbVars
<1>13. CASE TuningLive
  BY <1>13, <1>1 DEF TuningLive, FrequencyFrame, TuningNext, PendingNext, WaitState, BegunState,
         stateVars, dbVars
<1>14. CASE TuningLiveFails
  BY <1>14, <1>1 DEF TuningLiveFails, FrequencyFrame, TuningNext, PendingNext, ChangeState,
         BegunState, stateVars, dbVars
<1>15. CASE TuningSignalCheck
  BY <1>15, <1>1 DEF TuningSignalCheck, TuningNext, PendingNext, SignalState, BegunState,
         stateVars, dbVars
<1>16. CASE NoSignalCheck
  BY <1>16, <1>2 DEF NoSignalCheck, PendingNext, BegunState, stateVars, dbVars
<1>17. CASE NewRecorderLive
  BY <1>17, <1>1 DEF NewRecorderLive, StartFrame, SignalState, BegunState, stateVars, dbVars
<1>18. CASE NewRecorderFile
  BY <1>18, <1>1 DEF NewRecorderFile, StartFrame, SignalState, BegunState, stateVars, dbVars
<1>19. CASE NewRecorderCrash
  BY <1>19, <1>2 DEF NewRecorderCrash, StartFrame, BegunState, stateVars, dbVars
<1>20. CASE NewRecorderNoFile
  BY <1>20, <1>1 DEF NewRecorderNoFile, StartFrame, NewRecorderFailed, PendingNext, ChangeState,
         BegunState, stateVars, dbVars
<1>21. CASE CreateRecorder
  BY <1>21, <1>2 DEF CreateRecorder, StartFrame, BegunState, stateVars, dbVars
<1>22. CASE CreateRecorderFails
  BY <1>22, <1>1 DEF CreateRecorderFails, StartFrame, NewRecorderFailed, PendingNext,
         ChangeState, BegunState, stateVars, dbVars
<1>23. CASE RecorderStarted
  BY <1>23, <1>2 DEF RecorderStarted, StartFrame, PendingNext, BegunState, stateVars, dbVars
<1>24. CASE TuningRestartRecorder
  BY <1>24, <1>1 DEF TuningRestartRecorder, StartFrame, PendingNext, SignalState, BegunState,
         stateVars, dbVars
<1>25. CASE TuningRestartFails
  BY <1>25, <1>1 DEF TuningRestartFails, StartFrame, PendingNext, ChangeState, BegunState,
         stateVars, dbVars
<1>26. CASE HandlePendingRecordings
  BY <1>26, <1>2 DEF HandlePendingRecordings, LoopFrame, BegunState, stateVars, dbVars
<1>27. CASE CheckEnd
  <2>1. UNCHANGED <<m_internalState, m_curRecording>> /\ epc \in {"ends", "asleep"}
    BY <1>27 DEF CheckEnd, Awake, LoopFrame
  <2>2. m_changeState' /\ m_desiredNextState' = "RecordingOnly" =>
          m_changeState /\ m_desiredNextState = "RecordingOnly"
    BY <1>27 DEF CheckEnd, ChangeState, NoStateChange
  <2>3. status' = status \/ status' = Set(status, m_curRecording, "Failed")
    BY <1>27 DEF CheckEnd
  <2>4. status \in StatusMap /\ m_curRecording \in Recs \cup {Null}
    BY DEF TypeOK, StatusMap
  <2>5. m_curRecording \in Programs => status'[m_curRecording] \in {status[m_curRecording], "Failed"}
    BY <2>3, <2>4 DEF Set, StatusMap, Recs
  <2>6. QED BY <2>1, <2>2, <2>5 DEF BegunState, Unrecorded
<1>28. CASE CheckLive
  BY <1>28, <1>1 DEF CheckLive, CheckLiveFrame, LoopFrame, LoopEnds, NoStateChange, NoneState,
         BegunState, stateVars, dbVars
<1>29. CASE SwitchLive
  BY <1>29, <1>1 DEF SwitchLive, CheckLiveFrame, LoopFrame, ChangeState, NoStateChange,
         NoneState, BegunState, stateVars, dbVars
<1>30. CASE RingBufferChanged
  BY <1>30, <1>1 DEF RingBufferChanged, ElseFrame, NextFileState, Begun, BegunState, stateVars,
         dbVars
<1>31. CASE Other /\ OtherRows
  <2>1. UNCHANGED <<epc, m_internalState>>
    BY <1>31 DEF Other, OtherFrame
  <2>2. CASE Beginning
    BY <2>2 DEF Beginning, NewRow, BegunState, Unrecorded, TypeOK, Recs
  <2>3. ASSUME NEW p \in Programs, NoFile(p) PROVE BegunState'
    BY <2>1, <2>3 DEF NoFile, BegunState
  <2>4. CASE Notifying
    BY <2>1, <2>4 DEF Notifying, BegunState
  <2>5. CASE NotBegun /\ (RowsSame \/ Pausing \/ Switching)
    BY <1>2, <2>1, <2>5 DEF NotBegun, RowsSame, Pausing, Switching, BegunState, Unrecorded
  <2>6. QED BY <1>31, <2>2, <2>3, <2>4, <2>5 DEF OtherRows
<1>32. QED
  BY OtherStep, OtherRowsStep, <1>3, <1>4, <1>5, <1>6, <1>7, <1>8, <1>9, <1>10, <1>11, <1>12,
         <1>13, <1>14, <1>15, <1>16, <1>17, <1>18, <1>19, <1>20, <1>21, <1>22, <1>23, <1>24,
         <1>25, <1>26, <1>27, <1>28, <1>29, <1>30, <1>31
     DEF EventThread, HandleTuning, TuningFrequency

\* A recording that is not recorded stays so while a request in the queue names it.
LEMMA NamedUnrecorded ==
  ASSUME TypeOK, ProgramGiven, RowState, WatchState, ProgramState, NamedState, NameState, Next,
         NEW p \in Programs, NEW j \in Queue, m_tuningRequests[j].program = p
  PROVE  status'[p] \in {"Unknown", "Failed"}
<1>1. p # Null /\ p \in Recs
  BY SetsAssumption DEF Recs
<1>2. /\ ForRecording(m_tuningRequests[j])
      /\ status[p] \in {"Unknown", "Failed"} /\ m_nextRecording = Null
  BY <1>1 DEF NamedState, Named, NameState, Unrecorded, ForRecording
<1>3. Outcome(status[p]) = "Failed"
  BY <1>2 DEF Outcome
<1>4. epc \notin {"start", "signal"}
  BY <1>1, <1>2 DEF ProgramState, NoProgram, Phases
<1>5. ~(RingBufferChanged /\ p = m_nextRecording)
  BY <1>1, <1>2
<1>6. ASSUME Beginning, p = m_curRecording' PROVE status'[p] = "Unknown"
  BY <1>1, <1>6 DEF Beginning, NewRow, TypeOK
<1>7. ~Notifying
  BY <1>2 DEF Notifying, WatchState
<1>8. StatusChange(p)
  BY StatusStep
<1>9. QED BY <1>2, <1>3, <1>4, <1>5, <1>6, <1>7, <1>8 DEF StatusChange

\* While a request in the queue names a recording the recorder gets no next file.
LEMMA NoNextFile ==
  ASSUME TypeOK, ProgramGiven, NoneState, WatchState, NamedState, NameState, Next,
         NEW j \in Queue, m_tuningRequests[j].program # Null
  PROVE  m_nextRecording' = Null
<1>1. ForRecording(m_tuningRequests[j]) /\ m_nextRecording = Null
  BY DEF NamedState, Named, NameState, ForRecording
<1>2. m_internalState # "WatchingLiveTV"
  BY <1>1 DEF WatchState
<1>3. CASE SwitchLive
  BY <1>2, <1>3 DEF SwitchLive, NoneState
<1>4. CASE Other /\ OtherRows
  BY <1>1, <1>4 DEF OtherRows, Beginning, NoFile, Notifying, Pausing, RowsSame, Switching, Queue
<1>5. CASE HandleStateChange
  BY <1>1, <1>5 DEF HandleStateChange, recorderVars
<1>6. CASE TuningShutdowns
  BY <1>1, <1>6 DEF TuningShutdowns, recorderVars
<1>7. CASE TeardownStop
  BY <1>1, <1>7 DEF TeardownStop, recorderVars
<1>8. CASE TeardownFinish
  BY <1>1, <1>8 DEF TeardownFinish, recorderVars
<1>9. CASE TeardownEnd
  BY <1>1, <1>9 DEF TeardownEnd, recorderVars
<1>10. CASE RequestTaken
  BY <1>1, <1>10 DEF RequestTaken, recorderVars
<1>11. CASE WaitForRecPause
  BY <1>1, <1>11 DEF WaitForRecPause, recorderVars
<1>12. CASE TuningFails
  BY <1>1, <1>12 DEF TuningFails, FrequencyFrame, recorderVars
<1>13. CASE TuningOnSameMultiplex
  BY <1>1, <1>13 DEF TuningOnSameMultiplex, FrequencyFrame, recorderVars
<1>14. CASE TuningRecording
  BY <1>1, <1>14 DEF TuningRecording, FrequencyFrame, recorderVars
<1>15. CASE TuningLive
  BY <1>1, <1>15 DEF TuningLive, FrequencyFrame, recorderVars
<1>16. CASE TuningLiveFails
  BY <1>1, <1>16 DEF TuningLiveFails, FrequencyFrame, recorderVars
<1>17. CASE TuningSignalCheck
  BY <1>1, <1>17 DEF TuningSignalCheck, recorderVars
<1>18. CASE NoSignalCheck
  BY <1>1, <1>18 DEF NoSignalCheck, recorderVars
<1>19. CASE NewRecorderLive
  BY <1>1, <1>19 DEF NewRecorderLive, StartFrame, recorderVars
<1>20. CASE NewRecorderFile
  BY <1>1, <1>20 DEF NewRecorderFile, StartFrame, recorderVars
<1>21. CASE NewRecorderCrash
  BY <1>1, <1>21 DEF NewRecorderCrash, StartFrame, recorderVars
<1>22. CASE NewRecorderNoFile
  BY <1>1, <1>22 DEF NewRecorderNoFile, StartFrame, recorderVars
<1>23. CASE CreateRecorder
  BY <1>1, <1>23 DEF CreateRecorder, StartFrame, recorderVars
<1>24. CASE CreateRecorderFails
  BY <1>1, <1>24 DEF CreateRecorderFails, StartFrame, recorderVars
<1>25. CASE RecorderStarted
  BY <1>1, <1>25 DEF RecorderStarted, StartFrame, recorderVars
<1>26. CASE TuningRestartRecorder
  BY <1>1, <1>26 DEF TuningRestartRecorder, StartFrame, recorderVars, LiveFile
<1>27. CASE TuningRestartFails
  BY <1>1, <1>27 DEF TuningRestartFails, StartFrame, recorderVars
<1>28. CASE HandlePendingRecordings
  BY <1>1, <1>28 DEF HandlePendingRecordings, LoopFrame, recorderVars
<1>29. CASE CheckEnd
  BY <1>1, <1>29 DEF CheckEnd, LoopFrame, recorderVars
<1>30. CASE CheckLive
  BY <1>1, <1>30 DEF CheckLive, CheckLiveFrame, LoopFrame, recorderVars
<1>31. CASE RingBufferChanged
  BY <1>1, <1>31 DEF RingBufferChanged, ElseFrame, recorderVars
<1>32. QED
  BY OtherStep, OtherRowsStep, <1>3, <1>4, <1>5, <1>6, <1>7, <1>8, <1>9, <1>10, <1>11, <1>12,
         <1>13, <1>14, <1>15, <1>16, <1>17, <1>18, <1>19, <1>20, <1>21, <1>22, <1>23, <1>24,
         <1>25, <1>26, <1>27, <1>28, <1>29, <1>30, <1>31
     DEF EventThread, HandleTuning, TuningFrequency

\* Every step preserves NameState.
LEMMA NameStep ==
  ASSUME TypeOK, ProgramGiven, QueueFilled, NoneState, RowState, WatchState, ProgramState,
         NamedState, NameState, NextFileState, BegunState, Next
  PROVE  NameState'
<1>1. SUFFICES ASSUME NEW i \in Queue', m_tuningRequests'[i].program # Null
               PROVE  /\ m_tuningRequests'[i].program \in Programs =>
                           status'[m_tuningRequests'[i].program] \in {"Unknown", "Failed"}
                      /\ m_nextRecording' = Null
  BY DEF NameState, Unrecorded
<1>2. CASE \E j \in Queue : m_tuningRequests'[i] = m_tuningRequests[j]
  BY <1>1, <1>2, NamedUnrecorded, NoNextFile
<1>3. CASE NamesCurrent(m_tuningRequests'[i])
  <2>1. UNCHANGED <<status, m_nextRecording>>
    BY <1>3 DEF NamesCurrent, HandleStateChange, recorderVars, dbVars
  <2>2. Unrecorded(m_curRecording) /\ m_nextRecording = Null
    BY <1>3 DEF NamesCurrent, BegunState, NextFileState, Begun
  <2>3. QED BY <1>3, <2>1, <2>2 DEF NamesCurrent, Unrecorded
<1>4. QED BY <1>1, <1>2, <1>3, NamedStep DEF KeepsNames

\* Every step preserves StartState.
LEMMA StartStep ==
  ASSUME TypeOK, ProgramGiven, QueueFilled, LockHeld, RowState, DummyState, SignalState,
         PauseState, StaleState, OutcomeState, NamedState, NameState, StartState, Next
  PROVE  StartState'
<1>1. Null \notin Programs /\ Programs \cap LiveRecs = {}
  BY SetsAssumption
<1>2. SUFFICES ASSUME m_recorder' = "none", epc' # "create",
                      "NeedToStartRecorder" \in m_stateFlags' \/ epc' = "frequency",
                      m_lastTuningRequest'.program \in Programs \cap finished'
               PROVE  status'[m_lastTuningRequest'.program] = "Failed"
  BY DEF StartState
<1>3. ASSUME m_recorder = "none", epc # "create",
             "NeedToStartRecorder" \in m_stateFlags \/ epc = "frequency",
             m_lastTuningRequest' = m_lastTuningRequest, m_lastTuningRequest.program \in finished
      PROVE  status'[m_lastTuningRequest'.program] = "Failed"
  <2>1. status[m_lastTuningRequest.program] = "Failed"
    BY <1>2, <1>3 DEF StartState
  <2>2. QED BY <1>2, <1>3, <2>1, FinishedStatus
<1>4. CASE HandleStateChange
  BY <1>4, <1>1, <1>2, <1>3 DEF HandleStateChange, Awake, PauseNext, TuningNext, PendingNext,
         tuneVars, recorderVars, dbVars
<1>5. CASE TuningShutdowns
  BY <1>5, <1>1, <1>2, <1>3 DEF TuningShutdowns, DummyState, Of, tuneVars, recorderVars, dbVars
<1>6. CASE TeardownStop
  BY <1>6, <1>1, <1>2, <1>3 DEF TeardownStop, tuneVars, recorderVars, dbVars
<1>7. CASE TeardownFinish
  BY <1>7, <1>1, <1>2, <1>3 DEF TeardownFinish, SignalState, tuneVars, recorderVars, dbVars
<1>8. CASE TeardownEnd
  BY <1>8, <1>1, <1>2, <1>3 DEF TeardownEnd, SignalState, tuneVars, recorderVars, dbVars
<1>9. CASE RequestTaken
  <2>1. m_tuningRequests # <<>> /\ m_tuningRequests \in Seq(Requests)
    BY <1>9 DEF QueueFilled, Shutting, RequestTaken, TypeOK
  <2>2. m_lastTuningRequest' = Front /\ m_tuningRequests' = Tail(m_tuningRequests) /\ UNCHANGED <<status, finished>>
    BY <1>9 DEF RequestTaken, dbVars
  <2>3. 1 \in Queue /\ Front = m_tuningRequests[1]
    BY <2>1, <2>2, QueueTaken
  <2>4. status[Front.program] \in {"Unknown", "Failed"}
    BY <1>1, <1>2, <2>2, <2>3 DEF NameState, Unrecorded
  <2>5. QED BY <1>2, <2>2, <2>4 DEF OutcomeState
<1>10. CASE WaitForRecPause
  BY <1>10, <1>1, <1>2, <1>3 DEF WaitForRecPause, PendingNext, tuneVars, recorderVars, dbVars
<1>11. CASE TuningFails
  BY <1>11, <1>1, <1>2, <1>3 DEF TuningFails, FrequencyFrame, TuningNext, PendingNext, tuneVars,
         recorderVars, dbVars
<1>12. CASE TuningOnSameMultiplex
  BY <1>12, <1>1, <1>2, <1>3 DEF TuningOnSameMultiplex, FrequencyFrame, TuningNext, PendingNext,
         tuneVars, recorderVars, dbVars
<1>13. CASE TuningRecording
  BY <1>13, <1>1, <1>2, <1>3 DEF TuningRecording, FrequencyFrame, TuningNext, PendingNext,
         MonitorErrors, Monitored, tuneVars, recorderVars, dbVars
<1>14. CASE TuningLive
  <2>1. m_lastTuningRequest.program = Null /\ UNCHANGED m_lastTuningRequest
    BY <1>14 DEF TuningLive, Live, NamedState, Named, FrequencyFrame
  <2>2. QED BY <1>1, <1>2, <2>1
<1>15. CASE TuningLiveFails
  BY <1>15, <1>1, <1>2, <1>3 DEF TuningLiveFails, FrequencyFrame, TuningNext, PendingNext,
         tuneVars, recorderVars, dbVars
<1>16. CASE TuningSignalCheck
  BY <1>16, <1>1, <1>2, <1>3 DEF TuningSignalCheck, Signal, TuningNext, PendingNext, tuneVars,
         recorderVars, dbVars
<1>17. CASE NoSignalCheck
  BY <1>17, <1>1, <1>2, <1>3 DEF NoSignalCheck, PendingNext, tuneVars, recorderVars, dbVars
<1>18. CASE NewRecorderLive
  BY <1>18, <1>1, <1>2, <1>3 DEF NewRecorderLive, StartFrame, tuneVars, recorderVars, dbVars
<1>19. CASE NewRecorderFile
  BY <1>19, <1>1, <1>2, <1>3 DEF NewRecorderFile, StartFrame, tuneVars, recorderVars, dbVars
<1>20. CASE NewRecorderCrash
  BY <1>20, <1>1, <1>2, <1>3 DEF NewRecorderCrash, StartFrame, tuneVars, recorderVars, dbVars
<1>21. CASE NewRecorderNoFile
  <2>1. /\ Null \notin Recs /\ m_curRecording \in Recs \cup {Null} /\ status \in StatusMap
        /\ m_lastTuningRequest.program \in Recs
    BY <1>21, <1>2, SetsAssumption DEF NewRecorderNoFile, StartFrame, tuneVars, TypeOK, Recs, StatusMap
  <2>2. StatusAfterDummy \in StatusMap
    BY <2>1, StatusKept DEF StatusAfterDummy
  <2>3. status' = Set(StatusAfterDummy, m_lastTuningRequest.program, "Failed") /\ UNCHANGED m_lastTuningRequest
    BY <1>21 DEF NewRecorderNoFile, StartFrame, tuneVars
  <2>4. QED BY <2>1, <2>2, <2>3, StatusAt
<1>22. CASE CreateRecorder
  BY <1>22, <1>1, <1>2, <1>3 DEF CreateRecorder, StartFrame, tuneVars, recorderVars, dbVars
<1>23. CASE CreateRecorderFails
  BY <1>23, <1>1, <1>2, <1>3 DEF CreateRecorderFails, StartFrame, NewRecorderFailed,
         PendingNext, tuneVars, recorderVars, dbVars
<1>24. CASE RecorderStarted
  BY <1>24, <1>1, <1>2, <1>3 DEF RecorderStarted, StartFrame, PendingNext, tuneVars,
         recorderVars, dbVars
<1>25. CASE TuningRestartRecorder
  BY <1>25, <1>1, <1>2, <1>3 DEF TuningRestartRecorder, StartFrame, PendingNext, tuneVars,
         recorderVars, dbVars
<1>26. CASE TuningRestartFails
  BY <1>26, <1>1, <1>2, <1>3 DEF TuningRestartFails, StartFrame, PendingNext, tuneVars,
         recorderVars, dbVars
<1>27. CASE HandlePendingRecordings
  BY <1>27, <1>1, <1>2, <1>3 DEF HandlePendingRecordings, LoopFrame, tuneVars, recorderVars,
         dbVars
<1>28. CASE CheckEnd
  <2>1. UNCHANGED <<m_lastTuningRequest, finished, m_recorder>> /\ epc' # "frequency" /\ epc # "create"
    BY <1>28 DEF CheckEnd, Awake, LoopEnds, LoopFrame, tuneVars, recorderVars
  <2>2. "NeedToStartRecorder" \in m_stateFlags' => "NeedToStartRecorder" \in m_stateFlags
    BY <1>28 DEF CheckEnd
  <2>3. QED BY <1>2, <1>3, <2>1, <2>2
<1>29. CASE CheckLive
  BY <1>29, <1>1, <1>2, <1>3 DEF CheckLive, CheckLiveFrame, LoopFrame, LoopEnds, tuneVars,
         recorderVars, dbVars
<1>30. CASE SwitchLive
  BY <1>30, <1>1, <1>2, <1>3 DEF SwitchLive, CheckLiveFrame, LoopFrame, LoopEnds, tuneVars,
         recorderVars, dbVars
<1>31. CASE RingBufferChanged
  BY <1>31, <1>1, <1>2, <1>3 DEF RingBufferChanged, ElseFrame, tuneVars, recorderVars, dbVars
<1>32. CASE Other /\ OtherRows
  <2>1. /\ UNCHANGED <<epc, m_lastTuningRequest>>
        /\ m_recorder = "none"
        /\ "NeedToStartRecorder" \in m_stateFlags' <=> "NeedToStartRecorder" \in m_stateFlags
    BY <1>32, <1>2 DEF Other, OtherFrame, CoreFlags, PendingActions
  <2>2. finished' \subseteq finished
    BY <1>32, <2>1 DEF OtherRows, Beginning, NewRow, Switching, NoFile, Notifying, Pausing, RowsSame
  <2>3. QED BY <1>2, <1>3, <2>1, <2>2
<1>33. QED
  BY OtherStep, OtherRowsStep, <1>4, <1>5, <1>6, <1>7, <1>8, <1>9, <1>10, <1>11, <1>12, <1>13,
         <1>14, <1>15, <1>16, <1>17, <1>18, <1>19, <1>20, <1>21, <1>22, <1>23, <1>24, <1>25,
         <1>26, <1>27, <1>28, <1>29, <1>30, <1>31, <1>32
     DEF EventThread, HandleTuning, TuningFrequency

-----------------------------------------------------------------------------
(* The theorem *)

\* The invariant.
OutcomeInv ==
  /\ RowState
  /\ DummyState
  /\ SignalState
  /\ WatchState
  /\ PauseState
  /\ StaleState
  /\ OutcomeState
  /\ NamedState
  /\ NameState
  /\ NextFileState
  /\ BegunState
  /\ StartState

\* It holds initially ...
LEMMA InitOutcome == Init => OutcomeInv
<1> SUFFICES ASSUME Init PROVE OutcomeInv
  OBVIOUS
<1>1. /\ Queue = {} /\ m_lastTuningRequest = Request({}, Null)
      /\ ~New(m_lastTuningRequest) /\ ~ForRecording(m_lastTuningRequest) /\ Null \notin Programs
  BY SetsAssumption DEF Init, Queue, Request, New, ForRecording
<1>2. RowState /\ DummyState /\ SignalState
  BY <1>1 DEF Init, RowState, Of, DummyState, SignalState
<1>3. WatchState /\ PauseState /\ StaleState /\ OutcomeState
  BY <1>1 DEF Init, WatchState, PauseState, StaleState, Stale, OutcomeState
<1>4. NamedState /\ NameState /\ NextFileState /\ BegunState /\ StartState
  BY <1>1 DEF Init, NamedState, Named, Request, NameState, NextFileState, BegunState, StartState
<1>5. QED BY <1>2, <1>3, <1>4 DEF OutcomeInv

\* ... when nothing happens ...
LEMMA OutcomeStutters ==
  ASSUME OutcomeInv, UNCHANGED vars
  PROVE  OutcomeInv'
<1>1. UNCHANGED <<epc, m_internalState, m_desiredNextState, m_changeState, m_stateFlags, m_tuningRequests,
                  m_lastTuningRequest, m_curRecording, m_recorder, m_pause, m_nextRecording, status,
                  started, finished>>
  BY DEF vars, eventVars, stateVars, tuneVars, recorderVars, dbVars
<1>2. /\ Queue' = Queue /\ Front' = Front /\ (KillAhead' <=> KillAhead) /\ (Begun' <=> Begun)
      /\ (KilledBefore' <=> KilledBefore)
  BY <1>1, QueueSame DEF Queue, Front, Begun, KilledBefore, ForRecording, Kill
<1>3. RowState' /\ DummyState' /\ SignalState'
  BY <1>1 DEF OutcomeInv, RowState, DummyState, SignalState, New
<1>4. WatchState' /\ PauseState'
  BY <1>1, <1>2 DEF OutcomeInv, WatchState, PauseState, ForRecording, New, Kill
<1>5. StaleState' /\ OutcomeState' /\ StartState'
  BY <1>1, <1>2 DEF OutcomeInv, StaleState, Stale, OutcomeState, StartState
<1>6. NamedState' /\ NameState' /\ NextFileState' /\ BegunState'
  BY <1>1, <1>2 DEF OutcomeInv, NamedState, Named, NameState, Unrecorded, NextFileState, BegunState
<1>7. QED BY <1>3, <1>4, <1>5, <1>6 DEF OutcomeInv

\* ... and after every step.
LEMMA OutcomeInvStep ==
  ASSUME Inv, OutcomeInv, [Next]_vars
  PROVE  OutcomeInv'
<1>1. CASE UNCHANGED vars
  BY <1>1, OutcomeStutters
<1>2. CASE Next
  <2>1. RowState' /\ DummyState' /\ SignalState'
    BY <1>2, RowStep, DummyStep, SignalStep DEF Inv, OutcomeInv
  <2>2. WatchState' /\ PauseState' /\ StaleState'
    BY <1>2, WatchStep, PauseStep, StaleStep DEF Inv, OutcomeInv
  <2>3. OutcomeState' /\ StartState' /\ NamedState'
    BY <1>2, OutcomeStep, StartStep, NamedStep DEF Inv, OutcomeInv
  <2>4. NameState' /\ NextFileState' /\ BegunState'
    BY <1>2, NameStep, NextFileStep, BegunStep DEF Inv, OutcomeInv
  <2>5. QED BY <2>1, <2>2, <2>3, <2>4 DEF OutcomeInv
<1>3. QED BY <1>1, <1>2

\* Every finished recording was recorded or has failed, and a scheduled one that
\* is named by a request, or begun, is not taken for one that was recorded.
THEOREM OutcomeInvariant == Spec => []OutcomeInv
<1>1. Init => OutcomeInv
  BY InitOutcome
<1>2. Inv /\ OutcomeInv /\ [Next]_vars => OutcomeInv'
  BY OutcomeInvStep
<1>3. QED BY <1>1, <1>2, Invariant, PTL DEF Spec

\* What became of a scheduled recording stands: no late signal, channel change,
\* switch of files or failure of TuningNewRecorder changes the status of a
\* finished recording, except to Failed for the one that is still current, and
\* for one that StartRecording finds without a file.
THEOREM OutcomeAlwaysStands == Spec => OutcomeStands
<1>1. ASSUME Inv, OutcomeInv, [Next]_vars
      PROVE  [\A p \in Programs \cap finished \cap finished' :
                \/ status'[p] = status[p]
                \/ /\ status'[p] = "Failed"
                   /\ p = m_curRecording \/ \E c \in Clients : program[c] = p /\ cont[c] = "start3"]_vars
  <2>1. SUFFICES ASSUME Next, NEW p \in Programs \cap finished, p \in finished'
                 PROVE  \/ status'[p] = status[p]
                        \/ /\ status'[p] = "Failed"
                           /\ p = m_curRecording \/ \E c \in Clients : program[c] = p /\ cont[c] = "start3"
    BY <1>1
  <2>2. \/ status'[p] = status[p]
        \/ /\ status'[p] = "Failed"
           /\ \/ p = m_curRecording \/ NoFile(p)
              \/ epc = "start" /\ m_recorder = "none" /\ p = m_lastTuningRequest.program
    BY <1>1, <2>1, FinishedStatus DEF Inv, OutcomeInv
  <2>3. epc = "start" /\ m_recorder = "none" /\ p = m_lastTuningRequest.program => status[p] = "Failed"
    BY <1>1, <2>1 DEF Inv, WaitState, OutcomeInv, StartState
  <2>4. NoFile(p) => \E c \in Clients : program[c] = p /\ cont[c] = "start3"
    BY DEF NoFile
  <2>5. QED BY <2>2, <2>3, <2>4
<1>2. QED BY <1>1, Invariant, OutcomeInvariant, PTL DEF Spec, OutcomeStands
==============================================================================
