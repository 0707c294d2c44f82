---------------------------- MODULE TVRec_proofs ----------------------------
(***************************************************************************)
(* Proofs about the recorder of one input (tv_rec.cpp), for every set of    *)
(* clients, programs and faults and any number of calls.                    *)
(*                                                                          *)
(* The invariant Inv has a part for each thing that the event thread relies *)
(* on: where it holds the lock, what its queue of tuning requests can hold, *)
(* which flags go with which recorder, and what is left when the state is   *)
(* None.  Each part has a lemma that says that every step preserves it.     *)
(* Steps of the event thread and RingBufferChanged are taken one by one;    *)
(* the steps of clients, time and the recorder's thread are first reduced   *)
(* to the few forms of Other, so that a part looks at six cases and not at  *)
(* thirty.                                                                  *)
(***************************************************************************)
EXTENDS TVRec, TLAPS

-----------------------------------------------------------------------------
(* Requests and the queue *)

\* A request to record: live TV or a recording.
New(r) == r.flags \cap {"LiveTV", "Recording"} # {}

\* A request that stops the recorder.
Kill(r) == r.flags \cap NoRec # {}

\* A request that stops the recorder and closes the file: what every change to
\* the state None makes.
Full(r) == "KillRingBuffer" \in r.flags /\ Kill(r) /\ ~New(r)

\* The positions of m_tuningRequests.
Queue == DOMAIN m_tuningRequests

\* Where the event thread does not hold the lock.
Unlocked == {"asleep", "teardown", "torn", "relock", "starting"}

\* Where the first request is being worked on and still in the queue.
Shutting == {"tune", "teardown", "torn", "relock", "shut"}

\* A change to a state that records is asked for.
Begun == m_changeState /\ m_desiredNextState \in {"RecordingOnly", "WatchingLiveTV"}

\* The request that the next SetChannel would be like, once the queue is empty.
LastRequest ==
  IF m_tuningRequests = <<>> THEN m_lastTuningRequest ELSE m_tuningRequests[Len(m_tuningRequests)]

-----------------------------------------------------------------------------
(* The parts of the invariant *)

\* A client inside StartRecording knows its program.
ProgramGiven ==
  \A c \in Clients :
    \/ cpc[c] = "startStop"
    \/ cpc[c] \in {"doze", "dozing", "relock"} /\ cont[c] \in {"start2", "start3", "start5"}
    => program[c] # Null

\* HandleTuning looks at the first request only when there is one.
QueueFilled == epc \in Shutting => m_tuningRequests # <<>>

\* The event thread has the lock except while it sleeps, tears a recorder down,
\* or waits for one to start.
LockHeld == lock = Null <=> epc \in Unlocked

\* kFlagRecorderRunning says that there is a recorder, except while one starts;
\* teardown leaves neither dummy nor monitor; a running dummy has a recording
\* (TuningShutdowns dereferences it).
RecorderState ==
  /\ epc # "starting" => (m_recorder = "none" <=> "RecorderRunning" \notin m_stateFlags)
  /\ epc = "starting" => m_recorder # "none"
  /\ epc = "create" => m_recorder = "none" /\ "DummyRecorderRunning" \notin m_stateFlags
  /\ epc \in {"teardown", "torn", "relock"} =>
       m_stateFlags \cap {"DummyRecorderRunning", "SignalMonitorRunning"} = {}
  /\ epc \in {"torn", "relock"} => m_recorder = "none"
  /\ epc = "shut" /\ Kill(Front) =>
       m_recorder = "none" /\ m_stateFlags \cap {"DummyRecorderRunning", "SignalMonitorRunning"} = {}
  /\ "DummyRecorderRunning" \in m_stateFlags => m_curRecording # Null

\* A request that lets go of everything is in the queue and nothing is begun
\* after it.
KillAhead ==
  \E i \in Queue :
    Full(m_tuningRequests[i]) /\ \A j \in Queue : j > i => ~New(m_tuningRequests[j])

\* No request in the queue records anything.
NothingNew == \A i \in Queue : ~New(m_tuningRequests[i])

\* The last request made was one to record.
LastIsNew == New(LastRequest)

\* The input has let go of recorder, file, monitor and dummy, and nothing is
\* under way.
Clean ==
  /\ m_recorder = "none" /\ m_buffer = Null
  /\ m_stateFlags \cap ({"RecorderRunning", "DummyRecorderRunning", "SignalMonitorRunning"}
                       \cup PendingActions) = {}
  /\ NothingNew
  /\ epc \in {"top", "tune", "teardown", "torn", "relock", "shut", "pending", "ends", "asleep"}

\* In the state None everything is let go of, or is about to be:
\* HandleStateChange makes the request together with the state.
NoneState ==
  /\ m_internalState = "None" => ~LastIsNew /\ (KillAhead \/ Clean)
  /\ epc = "live" => m_internalState = "WatchingLiveTV"

\* TuningShutdowns is done with the recorder that a request stops.
KillDone == epc = "relock" \/ (epc = "shut" /\ Kill(Front))

\* In the state None the current recording is finished or lost, unless its end
\* is still in the queue or it has just been begun.
CurrentState ==
  m_internalState = "None" /\ (~KillAhead \/ KillDone) /\ ~Begun =>
    m_curRecording \in {Null} \cup finished \cup dropped

\* A request does not both record and stop the recorder, and closes the file
\* only with it.
Formed(r) ==
  /\ New(r) => ~Kill(r)
  /\ "KillRingBuffer" \in r.flags => Kill(r)

\* All requests are well formed, and a state that records was reached by a
\* request to record.
RequestState ==
  /\ Formed(m_lastTuningRequest)
  /\ \A i \in Queue : Formed(m_tuningRequests[i])
  /\ m_internalState # "None" => LastIsNew

\* What the event thread knows where it goes on: a teardown has a request that
\* wants it, tuning is not done while a change of state is asked for, and the
\* pending actions of one tuning are gone before the next.
WaitState ==
  /\ epc \in {"teardown", "torn", "relock"} => Kill(Front)
  /\ epc \in {"tune", "pause", "frequency"} => ~m_changeState
  /\ epc = "shut" /\ ~Kill(Front) => ~m_changeState
  /\ epc = "frequency" => m_stateFlags \cap PendingActions = {}
  /\ epc = "pause" => "WaitingForRecPause" \in m_stateFlags
  /\ epc = "start" => "NeedToStartRecorder" \in m_stateFlags
  /\ "WaitingForRecPause" \in m_stateFlags =>
       m_stateFlags \cap {"WaitingForSignal", "NeedToStartRecorder"} = {}

\* Where a request that was taken from the queue is being carried out.
Phases == {"pause", "frequency", "signal", "start", "create", "starting"}

\* No request in the queue stops the recorder.
NoKill == \A i \in Queue : ~Kill(m_tuningRequests[i])

\* No request in the queue closes the file.
NoFull == \A i \in Queue : ~Full(m_tuningRequests[i])

\* Only the first request may be one to record.
FirstNew == \A i \in Queue : New(m_tuningRequests[i]) => i = 1

\* The queue is short: a second request comes only while the first is in the
\* works, or from TuningFails in the state None.  An event thread that sleeps
\* with requests has been given them by SetChannel.
QueueState ==
  /\ epc \in Shutting => Len(m_tuningRequests) <= 2
  /\ epc \notin Shutting =>
       \/ Len(m_tuningRequests) <= 1
       \/ /\ Len(m_tuningRequests) = 2 /\ m_internalState = "None" /\ ~Begun
          /\ epc \in {"pending", "ends", "top"}
  /\ m_internalState = "None" => IF epc \in Shutting THEN FirstNew ELSE NothingNew
  /\ epc = "asleep" => NoFull /\ (m_internalState # "None" => NoKill)

\* A request for a scheduled recording.
ForRecording(r) == "Recording" \in r.flags

\* Requests name the current recording or none.
OwnProgram ==
  \A i \in Queue :
    ForRecording(m_tuningRequests[i]) => m_tuningRequests[i].program \in {m_curRecording, Null}

\* Requests for a recording name none.
NoProgram ==
  \A i \in Queue : ForRecording(m_tuningRequests[i]) => m_tuningRequests[i].program = Null

\* A request behind one to record names no recording.
NoLaterProgram ==
  \A i, j \in Queue :
    i < j /\ New(m_tuningRequests[i]) /\ ForRecording(m_tuningRequests[j]) =>
      m_tuningRequests[j].program = Null

\* Without a recorder, a request that names a recording names the current one,
\* unless a teardown has just taken it away; while one is carried out none is
\* waiting.
ProgramState ==
  /\ m_recorder = "none" /\ epc # "torn" => OwnProgram \/ m_curRecording = Null
  /\ epc \in Phases => NoProgram
  /\ NoLaterProgram

\* Unless the recorder is about to be stopped, it writes the file of the
\* current recording, and what it will write is known while it is still to be
\* started: the recording of the last request, or the file that live TV has.
BufferState ==
  NoKill =>
  /\ "RecorderRunning" \in m_stateFlags => m_buffer = m_curRecording \/ m_curRecording = Null
  /\ epc \in {"create", "starting"} => m_buffer = m_curRecording \/ m_curRecording = Null
  /\ /\ m_recorder = "none" /\ ~Live /\ epc # "create"
     /\ "NeedToStartRecorder" \in m_stateFlags \/ epc = "frequency"
     =>
       m_lastTuningRequest.program \in {m_curRecording, Null} \/ m_curRecording = Null
  /\ m_recorder = "none" /\ "NeedToStartRecorder" \in m_stateFlags /\ Live =>
       m_buffer \in {m_curRecording, Null} \/ m_curRecording = Null

\* Client c is inside WaitForEventThreadSleep and goes on at `at`.
Waits(c, at) == cpc[c] \in {"doze", "dozing", "relock"} /\ cont[c] = at

\* The frontend that stops live TV is the one that changes channels.
OneFrontend == \A c, d \in Clients : "StopLiveTV" \in Ops[c] /\ "SetChannel" \in Ops[d] => c = d

\* A client waits only in calls that it makes.
CallsOwned ==
  \A c \in Clients :
    /\ Waits(c, "stopLive2") => "StopLiveTV" \in Ops[c]
    /\ Waits(c, "channel2") => "SetChannel" \in Ops[c]

\* There is a chain wherever live TV is about to begin: asked for, in the
\* queue, in a change of channel that has not made its request yet, and at
\* TuningFrequency.
ChainState ==
  /\ m_changeState /\ m_desiredNextState = "WatchingLiveTV" => m_tvChain
  /\ \A i \in Queue : "LiveTV" \in m_tuningRequests[i].flags => m_tvChain
  /\ \A c \in Clients : Waits(c, "channel2") /\ "LiveTV" \in LastRequest.flags => m_tvChain
  /\ epc = "frequency" /\ Live /\ m_recorder = "none" => m_tvChain
  /\ CallsOwned

\* RecordingsAccounted without its types.
Accounted == inUse \cup (started \ finished) \subseteq {m_curRecording, m_nextRecording} \cup dropped

\* Rows are of recordings.
RowsTyped ==
  /\ inUse \subseteq Recs /\ started \subseteq Recs /\ finished \subseteq Recs /\ dropped \subseteq Recs
  /\ Null \notin Recs

-----------------------------------------------------------------------------
(* What other threads than the event thread do *)

\* The flags that only the event thread and RingBufferChanged change.
CoreFlags == PendingActions \cup {"SignalMonitorRunning", "DummyRecorderRunning", "RecorderRunning"}

\* What none of the other threads' steps change.
OtherFrame ==
  /\ UNCHANGED <<lock, epc, m_internalState, m_lastTuningRequest, m_buffer>>
  /\ m_stateFlags' \cap CoreFlags = m_stateFlags \cap CoreFlags
  /\ (m_recorder' = "none") <=> (m_recorder = "none")
  /\ dropped \subseteq dropped'

\* The current recording stays and no finished row is opened.
RowsFrame == UNCHANGED m_curRecording /\ finished \subseteq finished'

\* Nothing that the event thread reacts to.
Quiet == UNCHANGED <<m_tuningRequests, m_desiredNextState, m_changeState>> /\ RowsFrame

\* StartRecording in the state None.
BeginsRecording ==
  /\ lock = Null /\ m_internalState = "None" /\ ~m_changeState
  /\ m_curRecording' \in Programs
  /\ m_changeState' = TRUE /\ m_desiredNextState' = "RecordingOnly"
  /\ UNCHANGED m_tuningRequests

\* StopRecording: the recording, or the change that is asked for, is to end.
Asks ==
  /\ lock = Null
  /\ m_changeState' = TRUE /\ m_desiredNextState' \in {"None", "Error"}
  /\ m_changeState /\ m_internalState = "None" => Of(m_curRecording) \subseteq dropped'
  /\ UNCHANGED m_tuningRequests /\ RowsFrame

\* SpawnLiveTV.
Spawns ==
  /\ lock = Null
  /\ m_changeState' = TRUE /\ m_desiredNextState' = "WatchingLiveTV"
  /\ UNCHANGED m_tuningRequests /\ RowsFrame

\* StopLiveTV.
LeavesLive ==
  /\ lock = Null
  /\ m_internalState = "WatchingLiveTV"
  /\ m_changeState' = TRUE /\ m_desiredNextState' \in {"RecordingOnly", "None"}
  /\ UNCHANGED m_tuningRequests /\ RowsFrame

\* SetChannel makes a request like the last one.
Channels ==
  /\ lock = Null /\ m_tuningRequests = <<>> /\ ~m_changeState
  /\ m_tuningRequests' =
       <<Request(m_lastTuningRequest.flags \cap ({"LiveTV", "Recording"} \cup NoRec), Null)>>
  /\ UNCHANGED <<m_desiredNextState, m_changeState>> /\ RowsFrame

\* Any step that is neither the event thread's nor RingBufferChanged.
Other == OtherFrame /\ (Quiet \/ BeginsRecording \/ Asks \/ Spawns \/ LeavesLive \/ Channels)

-----------------------------------------------------------------------------
(* Types *)

\* TypeOK in parts: Boolean variables, records and numbers each need another
\* prover.
EventType ==
  /\ lock \in {Event, Null}
  /\ epc \in {"top", "tune", "teardown", "torn", "relock", "shut", "pause", "frequency",
              "signal", "start", "create", "starting", "pending", "ends", "live", "asleep",
              "crashed"}
  /\ m_internalState \in States
  /\ m_desiredNextState \in States \cup {"Error"}
  /\ m_changeState \in BOOLEAN
  /\ m_stateFlags \subseteq Flags
  /\ m_triggerEventSleepSignal \in BOOLEAN
  /\ dozing \subseteq Clients

QueueType ==
  /\ m_tuningRequests \in Seq(Requests)
  /\ m_lastTuningRequest \in Requests

DataType ==
  /\ m_curRecording \in Recs \cup {Null}
  /\ m_recStatus \in RecStatuses
  /\ m_pseudoLiveTVRecording \in Recs \cup {Null}
  /\ m_buffer \in Recs \cup {Null}
  /\ m_recorder \in {"none", "starting", "running", "error"}
  /\ m_pause \in {"no", "asked", "paused"}
  /\ m_nextRecording \in Recs \cup {Null}

FlagType ==
  /\ programOver \in BOOLEAN
  /\ m_reachedRecordingDeadline \in BOOLEAN
  /\ m_tvChain \in BOOLEAN /\ chainDummy \in BOOLEAN
  /\ m_switchingBuffer \in BOOLEAN

TimeType ==
  /\ over \in 0 .. 2
  /\ m_pending \in [ask : BOOLEAN, canceled : BOOLEAN] \cup {Null}

StatusMap == [Recs -> {"Unknown", "Recording", "Failing", "Failed", "Recorded"}]
RowType ==
  /\ status \in StatusMap
  /\ started \subseteq Recs /\ finished \subseteq Recs /\ inUse \subseteq Recs
  /\ dropped \subseteq Recs
  /\ kept \subseteq Recs

ClientType ==
  /\ cpc \in [Clients -> {"idle", "doze", "dozing", "relock", "startStop", "stop", "stop2"}]
  /\ cont \in [Clients -> {"start2", "start3", "start5", "stop3", "spawn2",
                           "stopLive2", "channel2", "channel3", "channel4", Null}]
  /\ program \in [Clients -> Programs \cup {Null}]
  /\ cancelNext \in [Clients -> BOOLEAN]
  /\ result \in [Programs -> RecStatuses \cup {Null}]
  /\ calls \in 0 .. MaxCalls

\* TypeOK is its parts.
LEMMA TypeParts ==
  TypeOK <=> EventType /\ QueueType /\ DataType /\ FlagType /\ TimeType /\ RowType /\ ClientType
BY Zenon DEF TypeOK, EventType, QueueType, DataType, FlagType, TimeType, RowType, ClientType, StatusMap

\* The same for the next state.
LEMMA TypePartsNext ==
  (EventType /\ QueueType /\ DataType /\ FlagType /\ TimeType /\ RowType /\ ClientType)' => TypeOK'
BY Zenon DEF TypeOK, EventType, QueueType, DataType, FlagType, TimeType, RowType, ClientType, StatusMap

\* Setting a status and finishing a recording keep the map of statuses.
LEMMA StatusKept ==
  ASSUME NEW st \in StatusMap, NEW r \in Recs \cup {Null}, Null \notin Recs,
         NEW s \in {"Unknown", "Recording", "Failing", "Failed", "Recorded"}
  PROVE  /\ Set(st, r, s) \in StatusMap
         /\ FinalOf(st, r) \in StatusMap
         /\ Of(r) \subseteq Recs
BY DEF StatusMap, Set, FinalOf, Final, Of

\* Live TV makes a file for a recording that has no row yet.
LEMMA NextLiveType ==
  ASSUME NEW ps, NEW r \in NextLive(ps)
  PROVE  r \in Recs /\ r \notin started
<1>1. CASE ps \in Programs \ started
  BY <1>1 DEF NextLive, Recs
<1>2. CASE ps \notin Programs \ started
  <2>1. ~ (LiveRecs \subseteq started) /\ r = CHOOSE x \in LiveRecs : x \notin started
    BY <1>2, Zenon DEF NextLive
  <2>2. \E x \in LiveRecs : x \notin started
    BY <2>1
  <2>3. r \in LiveRecs /\ r \notin started
    BY <2>1, <2>2, Zenon
  <2>4. QED BY <2>3 DEF Recs
<1>3. QED BY <1>1, <1>2

\* What LiveFile assigns.
LEMMA LiveFileType ==
  ASSUME TypeOK, NEW r \in Recs, NEW dummy \in BOOLEAN, NEW st \in StatusMap,
         NEW fin \in SUBSET Recs, NEW use \in SUBSET Recs,
         LiveFile(r, dummy, st, fin, use)
  PROVE  /\ RowType'
         /\ m_curRecording' = r /\ m_buffer' = r /\ m_switchingBuffer' = FALSE
         /\ chainDummy' = dummy /\ programOver' = FALSE
<1>1. Null \notin Recs
  BY SetsAssumption DEF Recs
<1>2. status' \in StatusMap
  BY <1>1, StatusKept DEF LiveFile, TypeOK
<1>3. Of(m_curRecording) \subseteq Recs
  BY <1>1 DEF Of, TypeOK
<1>4. /\ started' \subseteq Recs /\ finished' \subseteq Recs /\ inUse' \subseteq Recs
      /\ dropped' \subseteq Recs /\ kept' \subseteq Recs
  BY <1>3 DEF LiveFile, TypeOK
<1>5. QED
  BY <1>2, <1>4 DEF LiveFile, RowType

\* HandleStateChange appends at most one request: one to record from None, or
\* one that lets go of everything to None.
LEMMA QueueAfterChange ==
  ASSUME TypeOK, HandleStateChange
  PROVE  \/ /\ m_tuningRequests' = m_tuningRequests
            /\ \/ m_internalState' = m_internalState
               \/ m_internalState = "WatchingLiveTV" /\ m_internalState' = "RecordingOnly"
         \/ \E r \in Requests :
              /\ m_tuningRequests' = Append(m_tuningRequests, r)
              /\ m_changeState /\ m_internalState' = m_desiredNextState
              /\ \/ /\ m_internalState = "None" /\ m_internalState' = "WatchingLiveTV"
                    /\ r = Request({"LiveTV"}, Null)
                 \/ /\ m_internalState = "None" /\ m_internalState' = "RecordingOnly"
                    /\ r = Request({"Recording"}, m_curRecording)
                 \/ m_internalState # "None" /\ m_internalState' = "None" /\ Full(r) /\ r.program = Null
<1> DEFINE from == m_internalState
           to == m_desiredNextState
           known == m_changeState /\ Known(from, to)
<1>1. /\ m_tuningRequests' = m_tuningRequests \o (IF known THEN RequestsOf(from, to) ELSE <<>>)
      /\ m_internalState' = IF known THEN to ELSE from
  BY DEF HandleStateChange
<1>2. m_tuningRequests \in Seq(Requests)
  BY DEF TypeOK
<1>3. CASE ~ known
  BY <1>1, <1>2, <1>3
<1>4. CASE known
  <2>1. <<from, to>> \in {<<"None", "WatchingLiveTV">>, <<"WatchingLiveTV", "None">>,
                         <<"WatchingLiveTV", "RecordingOnly">>, <<"None", "RecordingOnly">>,
                         <<"RecordingOnly", "None">>}
    BY <1>4 DEF Known
  <2>2. m_tuningRequests' = m_tuningRequests \o RequestsOf(from, to) /\ m_internalState' = to
    BY <1>1, <1>4
  <2>3. ASSUME NEW r \in Requests, RequestsOf(from, to) = <<r>>
        PROVE  m_tuningRequests' = Append(m_tuningRequests, r)
    BY <1>2, <2>2, <2>3
  <2>4. CASE from = "WatchingLiveTV" /\ to = "RecordingOnly"
    <3>1. RequestsOf(from, to) = <<>>
      BY <2>4 DEF RequestsOf
    <3>2. m_tuningRequests' = m_tuningRequests
      BY <1>2, <2>2, <3>1
    <3>3. QED BY <2>2, <2>4, <3>2
  <2>5. CASE from = "None" /\ to = "WatchingLiveTV"
    <3>1. RequestsOf(from, to) = <<Request({"LiveTV"}, Null)>>
      BY <2>5 DEF RequestsOf
    <3>2. Request({"LiveTV"}, Null) \in Requests
      BY DEF Request, Requests, RequestFlags
    <3>3. QED BY <1>4, <2>2, <2>3, <2>5, <3>1, <3>2
  <2>6. CASE from = "None" /\ to = "RecordingOnly"
    <3>1. RequestsOf(from, to) = <<Request({"Recording"}, m_curRecording)>>
      BY <2>6 DEF RequestsOf
    <3>2. Request({"Recording"}, m_curRecording) \in Requests
      BY DEF Request, Requests, RequestFlags, TypeOK
    <3>3. QED BY <1>4, <2>2, <2>3, <2>6, <3>1, <3>2
  <2>7. CASE from = "WatchingLiveTV" /\ to = "None"
    <3> DEFINE r == Request({"KillRec", "KillRingBuffer"}, Null)
    <3>1. RequestsOf(from, to) = <<r>>
      BY <2>7 DEF RequestsOf
    <3>2. r \in Requests /\ Full(r) /\ r.program = Null
      BY DEF Request, Requests, RequestFlags, Full, Kill, New, NoRec
    <3>3. QED BY <1>4, <2>2, <2>3, <2>7, <3>1, <3>2
  <2>8. CASE from = "RecordingOnly" /\ to = "None"
    <3> DEFINE r == Request({"CloseRec", "KillRingBuffer"} \cup (m_stateFlags \cap {"KillRec"}), Null)
    <3>1. RequestsOf(from, to) = <<r>>
      BY <2>8 DEF RequestsOf
    <3>2. r \in Requests /\ Full(r) /\ r.program = Null
      BY DEF Request, Requests, RequestFlags, Full, Kill, New, NoRec
    <3>3. QED BY <1>4, <2>2, <2>3, <2>8, <3>1, <3>2
  <2>9. QED BY <2>1, <2>4, <2>5, <2>6, <2>7, <2>8
<1>5. QED BY <1>3, <1>4

\* StartRecording goes on with a program.
LEMMA StartProgram ==
  ASSUME TypeOK, ProgramGiven, NEW c \in Clients,
         Resumes(c, "start2") \/ Resumes(c, "start3") \/ cpc[c] = "startStop"
  PROVE  program[c] \in Programs /\ program[c] \in Recs
BY DEF TypeOK, ProgramGiven, Resumes, Recs

\* Every step keeps the types.
LEMMA TypeStep ==
  ASSUME TypeOK, ProgramGiven, QueueFilled, Next
  PROVE  TypeOK'
<1>0. EventType /\ QueueType /\ DataType /\ FlagType /\ TimeType /\ RowType /\ ClientType
  BY TypeParts
<1>1. HandleStateChange => TypeOK'
  <2>. SUFFICES ASSUME HandleStateChange PROVE TypeOK'
    OBVIOUS
  <2>1. EventType'
    BY <1>0, SetsAssumption DEF EventType, HandleStateChange, Awake, Known, RequestsOf, Request,
         PauseNext, TuningNext, PendingNext, EventFrame, stateVars, tuneVars, sleepVars,
         liveVars, timeVars, recorderVars, dbVars, clientVars, States, Flags, PendingActions
  <2>2. QueueType'
    <3>1. m_lastTuningRequest' = m_lastTuningRequest
      BY DEF HandleStateChange
    <3>2. m_tuningRequests' \in Seq(Requests)
      BY <1>0, QueueAfterChange DEF QueueType
    <3>3. QED BY <1>0, <3>1, <3>2 DEF QueueType
  <2>3. DataType'
    BY <1>0, SetsAssumption DEF DataType, HandleStateChange, Awake, Known, RequestsOf, Request,
         PauseNext, TuningNext, PendingNext, EventFrame, stateVars, tuneVars, sleepVars,
         liveVars, timeVars, recorderVars, dbVars, clientVars, Recs, RecStatuses
  <2>4. FlagType'
    BY <1>0, Zenon DEF FlagType, HandleStateChange, Awake, Known, RequestsOf, Request,
         PauseNext, TuningNext, PendingNext, EventFrame, stateVars, tuneVars, sleepVars,
         liveVars, timeVars, recorderVars, dbVars, clientVars
  <2>5. TimeType'
    BY <1>0, SetsAssumption DEF TimeType, HandleStateChange, Awake, Known, RequestsOf, Request,
         PauseNext, TuningNext, PendingNext, EventFrame, stateVars, tuneVars, sleepVars,
         liveVars, timeVars, recorderVars, dbVars, clientVars
  <2>6. RowType'
    BY <1>0, SetsAssumption DEF RowType, HandleStateChange, Awake, Known, RequestsOf, Request,
         PauseNext, TuningNext, PendingNext, EventFrame, stateVars, tuneVars, sleepVars,
         liveVars, timeVars, recorderVars, dbVars, clientVars, StatusMap, Recs, DataType
  <2>7. ClientType'
    BY <1>0, SetsAssumption DEF ClientType, HandleStateChange, Awake, Known, RequestsOf,
         Request, PauseNext, TuningNext, PendingNext, EventFrame, stateVars, tuneVars,
         sleepVars, liveVars, timeVars, recorderVars, dbVars, clientVars, RecStatuses, DataType
  <2>8. QED
    BY <2>1, <2>2, <2>3, <2>4, <2>5, <2>6, <2>7, TypePartsNext
<1>2. TuningShutdowns => TypeOK'
  BY SetsAssumption DEF TuningShutdowns, Front, FinalOf, Final, Of, EventFrame, TypeOK,
         Requests, RequestFlags, NoRec, RecStatuses, States, Flags, PendingActions, Recs,
         stateVars, tuneVars, sleepVars, liveVars, timeVars, recorderVars, dbVars, clientVars
<1>3. TeardownStop => TypeOK'
  BY SetsAssumption DEF TeardownStop, Of, EventFrame, TypeOK, Requests, RequestFlags, NoRec,
         RecStatuses, States, Flags, PendingActions, Recs, stateVars, tuneVars, sleepVars,
         liveVars, timeVars, recorderVars, dbVars, clientVars
<1>4. TeardownFinish => TypeOK'
  BY SetsAssumption DEF TeardownFinish, Front, FinalOf, Final, Set, Of, EventFrame, TypeOK,
         Requests, RequestFlags, NoRec, RecStatuses, States, Flags, PendingActions, Recs,
         stateVars, tuneVars, sleepVars, liveVars, timeVars, recorderVars, dbVars, clientVars
<1>5. TeardownEnd => TypeOK'
  BY SetsAssumption DEF TeardownEnd, EventFrame, TypeOK, Requests, RequestFlags, NoRec,
         RecStatuses, States, Flags, PendingActions, Recs, stateVars, tuneVars, sleepVars,
         liveVars, timeVars, recorderVars, dbVars, clientVars
<1>6. RequestTaken => TypeOK'
  <2>. SUFFICES ASSUME RequestTaken PROVE TypeOK'
    OBVIOUS
  <2>1. EventType'
    BY <1>0, SetsAssumption DEF EventType, RequestTaken, Front, PauseNext, TuningNext,
         PendingNext, EventFrame, stateVars, tuneVars, sleepVars, liveVars, timeVars,
         recorderVars, dbVars, clientVars, States, Flags, PendingActions
  <2>2. QueueType'
    <3>1. m_tuningRequests # <<>>
      BY QueueFilled DEF QueueFilled, Shutting, RequestTaken
    <3>2. QED BY <1>0, <3>1 DEF QueueType, RequestTaken, Front
  <2>3. DataType'
    BY <1>0, SetsAssumption DEF DataType, RequestTaken, Front, PauseNext, TuningNext,
         PendingNext, EventFrame, stateVars, tuneVars, sleepVars, liveVars, timeVars,
         recorderVars, dbVars, clientVars, Recs, RecStatuses
  <2>4. FlagType'
    BY <1>0, Zenon DEF FlagType, RequestTaken, Front, PauseNext, TuningNext, PendingNext,
         EventFrame, stateVars, tuneVars, sleepVars, liveVars, timeVars, recorderVars, dbVars,
         clientVars
  <2>5. TimeType'
    BY <1>0, SetsAssumption DEF TimeType, RequestTaken, Front, PauseNext, TuningNext,
         PendingNext, EventFrame, stateVars, tuneVars, sleepVars, liveVars, timeVars,
         recorderVars, dbVars, clientVars
  <2>6. RowType'
    BY <1>0, SetsAssumption DEF RowType, RequestTaken, Front, PauseNext, TuningNext,
         PendingNext, EventFrame, stateVars, tuneVars, sleepVars, liveVars, timeVars,
         recorderVars, dbVars, clientVars, StatusMap, Recs, DataType
  <2>7. ClientType'
    BY <1>0, SetsAssumption DEF ClientType, RequestTaken, Front, PauseNext, TuningNext,
         PendingNext, EventFrame, stateVars, tuneVars, sleepVars, liveVars, timeVars,
         recorderVars, dbVars, clientVars, RecStatuses, DataType
  <2>8. QED
    BY <2>1, <2>2, <2>3, <2>4, <2>5, <2>6, <2>7, TypePartsNext
<1>7. WaitForRecPause => TypeOK'
  BY SetsAssumption DEF WaitForRecPause, PendingNext, EventFrame, TypeOK, Requests,
         RequestFlags, NoRec, RecStatuses, States, Flags, PendingActions, Recs, stateVars,
         tuneVars, sleepVars, liveVars, timeVars, recorderVars, dbVars, clientVars
<1>8. TuningFails => TypeOK'
  <2>. SUFFICES ASSUME TuningFails PROVE TypeOK'
    OBVIOUS
  <2>1. EventType'
    BY <1>0, SetsAssumption DEF EventType, TuningFails, Set, ChangeState, NoStateChange,
         Request, TuningNext, PendingNext, FrequencyFrame, stateVars, tuneVars, sleepVars,
         liveVars, timeVars, recorderVars, dbVars, clientVars, States, Flags, PendingActions
  <2>2. QueueType'
    <3>1. Request({"KillRec"}, Null) \in Requests
      BY DEF Request, Requests, RequestFlags, NoRec
    <3>2. QED BY <1>0, <3>1 DEF QueueType, TuningFails, FrequencyFrame
  <2>3. DataType'
    BY <1>0, SetsAssumption DEF DataType, TuningFails, Set, ChangeState, NoStateChange, Request,
         TuningNext, PendingNext, FrequencyFrame, stateVars, tuneVars, sleepVars, liveVars,
         timeVars, recorderVars, dbVars, clientVars, Recs, RecStatuses
  <2>4. FlagType'
    BY <1>0, Zenon DEF FlagType, TuningFails, Set, ChangeState, NoStateChange, Request,
         TuningNext, PendingNext, FrequencyFrame, stateVars, tuneVars, sleepVars, liveVars,
         timeVars, recorderVars, dbVars, clientVars
  <2>5. TimeType'
    BY <1>0, SetsAssumption DEF TimeType, TuningFails, Set, ChangeState, NoStateChange, Request,
         TuningNext, PendingNext, FrequencyFrame, stateVars, tuneVars, sleepVars, liveVars,
         timeVars, recorderVars, dbVars, clientVars
  <2>6. RowType'
    BY <1>0, SetsAssumption DEF RowType, TuningFails, Set, ChangeState, NoStateChange, Request,
         TuningNext, PendingNext, FrequencyFrame, stateVars, tuneVars, sleepVars, liveVars,
         timeVars, recorderVars, dbVars, clientVars, StatusMap, Recs, DataType
  <2>7. ClientType'
    BY <1>0, SetsAssumption DEF ClientType, TuningFails, Set, ChangeState, NoStateChange,
         Request, TuningNext, PendingNext, FrequencyFrame, stateVars, tuneVars, sleepVars,
         liveVars, timeVars, recorderVars, dbVars, clientVars, RecStatuses, DataType
  <2>8. QED
    BY <2>1, <2>2, <2>3, <2>4, <2>5, <2>6, <2>7, TypePartsNext
<1>9. TuningOnSameMultiplex => TypeOK'
  BY SetsAssumption DEF TuningOnSameMultiplex, TuningNext, PendingNext, FrequencyFrame, TypeOK,
         Requests, RequestFlags, NoRec, RecStatuses, States, Flags, PendingActions, Recs,
         stateVars, tuneVars, sleepVars, liveVars, timeVars, recorderVars, dbVars, clientVars
<1>10. TuningRecording => TypeOK'
  BY SetsAssumption DEF TuningRecording, MonitorErrors, Monitored, TuningNext, PendingNext,
         FrequencyFrame, TypeOK, Requests, RequestFlags, NoRec, RecStatuses, States, Flags,
         PendingActions, Recs, stateVars, tuneVars, sleepVars, liveVars, timeVars, recorderVars,
         dbVars, clientVars
<1>11. TuningLive => TypeOK'
  <2>. SUFFICES ASSUME TuningLive PROVE TypeOK'
    OBVIOUS
  <2>1. EventType'
    BY <1>0, SetsAssumption DEF EventType, TuningLive, MonitorErrors, Monitored, LiveFile,
         NextLive, Set, FinalOf, Final, Of, TuningNext, PendingNext, FrequencyFrame, stateVars,
         tuneVars, sleepVars, liveVars, timeVars, recorderVars, dbVars, clientVars, States,
         Flags, PendingActions
  <2>2. QueueType'
    BY <1>0, SetsAssumption DEF QueueType, TuningLive, MonitorErrors, Monitored, LiveFile,
         NextLive, Set, FinalOf, Final, Of, TuningNext, PendingNext, FrequencyFrame, stateVars,
         tuneVars, sleepVars, liveVars, timeVars, recorderVars, dbVars, clientVars, Requests,
         RequestFlags, NoRec, Recs
  <2>3. DataType'
    BY <1>0, SetsAssumption DEF DataType, TuningLive, MonitorErrors, Monitored, LiveFile,
         NextLive, Set, FinalOf, Final, Of, TuningNext, PendingNext, FrequencyFrame, stateVars,
         tuneVars, sleepVars, liveVars, timeVars, recorderVars, dbVars, clientVars, Recs,
         RecStatuses
  <2>4. FlagType'
    BY <1>0, Zenon DEF FlagType, TuningLive, MonitorErrors, Monitored, LiveFile, NextLive, Set,
         FinalOf, Final, Of, TuningNext, PendingNext, FrequencyFrame, stateVars, tuneVars,
         sleepVars, liveVars, timeVars, recorderVars, dbVars, clientVars
  <2>5. TimeType'
    BY <1>0, SetsAssumption DEF TimeType, TuningLive, MonitorErrors, Monitored, LiveFile,
         NextLive, Set, FinalOf, Final, Of, TuningNext, PendingNext, FrequencyFrame, stateVars,
         tuneVars, sleepVars, liveVars, timeVars, recorderVars, dbVars, clientVars
  <2>6. RowType'
    BY <1>0, SetsAssumption DEF RowType, TuningLive, MonitorErrors, Monitored, LiveFile,
         NextLive, Set, FinalOf, Final, Of, TuningNext, PendingNext, FrequencyFrame, stateVars,
         tuneVars, sleepVars, liveVars, timeVars, recorderVars, dbVars, clientVars, StatusMap,
         Recs, DataType
  <2>7. ClientType'
    BY <1>0, SetsAssumption DEF ClientType, TuningLive, MonitorErrors, Monitored, LiveFile,
         NextLive, Set, FinalOf, Final, Of, TuningNext, PendingNext, FrequencyFrame, stateVars,
         tuneVars, sleepVars, liveVars, timeVars, recorderVars, dbVars, clientVars, RecStatuses,
         DataType
  <2>8. QED
    BY <2>1, <2>2, <2>3, <2>4, <2>5, <2>6, <2>7, TypePartsNext
<1>12. TuningLiveFails => TypeOK'
  BY SetsAssumption DEF TuningLiveFails, NoLiveFile, NoLiveChannel, NoLiveBuffer, NextLive, ChangeState, TuningNext,
         PendingNext, FrequencyFrame, TypeOK, Requests, RequestFlags, NoRec, RecStatuses,
         States, Flags, PendingActions, Recs, stateVars, tuneVars, sleepVars, liveVars,
         timeVars, recorderVars, dbVars, clientVars
<1>13. TuningSignalCheck => TypeOK'
  <2>. SUFFICES ASSUME TuningSignalCheck PROVE TypeOK'
    OBVIOUS
  <2>1. EventType'
    BY <1>0, SetsAssumption DEF EventType, TuningSignalCheck, Signal, Set, TuningNext,
         PendingNext, EventFrame, stateVars, tuneVars, sleepVars, liveVars, timeVars,
         recorderVars, dbVars, clientVars, States, Flags, PendingActions
  <2>2. QueueType'
    BY <1>0, SetsAssumption DEF QueueType, TuningSignalCheck, Signal, Set, TuningNext,
         PendingNext, EventFrame, stateVars, tuneVars, sleepVars, liveVars, timeVars,
         recorderVars, dbVars, clientVars, Requests, RequestFlags, NoRec, Recs
  <2>3. DataType'
    BY <1>0, SetsAssumption DEF DataType, TuningSignalCheck, Signal, Set, TuningNext,
         PendingNext, EventFrame, stateVars, tuneVars, sleepVars, liveVars, timeVars,
         recorderVars, dbVars, clientVars, Recs, RecStatuses
  <2>4. FlagType'
    BY <1>0, Zenon DEF FlagType, TuningSignalCheck, Signal, Set, TuningNext, PendingNext,
         EventFrame, stateVars, tuneVars, sleepVars, liveVars, timeVars, recorderVars, dbVars,
         clientVars
  <2>5. TimeType'
    BY <1>0, SetsAssumption DEF TimeType, TuningSignalCheck, Signal, Set, TuningNext,
         PendingNext, EventFrame, stateVars, tuneVars, sleepVars, liveVars, timeVars,
         recorderVars, dbVars, clientVars
  <2>6. RowType'
    BY <1>0, SetsAssumption DEF RowType, TuningSignalCheck, Signal, Set, TuningNext,
         PendingNext, EventFrame, stateVars, tuneVars, sleepVars, liveVars, timeVars,
         recorderVars, dbVars, clientVars, StatusMap, Recs, DataType
  <2>7. ClientType'
    BY <1>0, SetsAssumption DEF ClientType, TuningSignalCheck, Signal, Set, TuningNext,
         PendingNext, EventFrame, stateVars, tuneVars, sleepVars, liveVars, timeVars,
         recorderVars, dbVars, clientVars, RecStatuses, DataType
  <2>8. QED
    BY <2>1, <2>2, <2>3, <2>4, <2>5, <2>6, <2>7, TypePartsNext
<1>14. NoSignalCheck => TypeOK'
  BY SetsAssumption DEF NoSignalCheck, PendingNext, EventFrame, TypeOK, Requests, RequestFlags,
         NoRec, RecStatuses, States, Flags, PendingActions, Recs, stateVars, tuneVars,
         sleepVars, liveVars, timeVars, recorderVars, dbVars, clientVars
<1>15. NewRecorderLive => TypeOK'
  <2>. SUFFICES ASSUME NewRecorderLive PROVE TypeOK'
    OBVIOUS
  <2>1. EventType'
    BY <1>0, SetsAssumption DEF EventType, NewRecorderLive, LiveFile, NextLive,
         StatusAfterDummy, FinishedAfterDummy, InUseAfterDummy, Set, FinalOf, Final, Of,
         StartFrame, stateVars, tuneVars, sleepVars, liveVars, timeVars, recorderVars, dbVars,
         clientVars, States, Flags, PendingActions
  <2>2. QueueType'
    BY <1>0, SetsAssumption DEF QueueType, NewRecorderLive, LiveFile, NextLive,
         StatusAfterDummy, FinishedAfterDummy, InUseAfterDummy, Set, FinalOf, Final, Of,
         StartFrame, stateVars, tuneVars, sleepVars, liveVars, timeVars, recorderVars, dbVars,
         clientVars, Requests, RequestFlags, NoRec, Recs
  <2>3. DataType'
    BY <1>0, SetsAssumption DEF DataType, NewRecorderLive, LiveFile, NextLive, StatusAfterDummy,
         FinishedAfterDummy, InUseAfterDummy, Set, FinalOf, Final, Of, StartFrame, stateVars,
         tuneVars, sleepVars, liveVars, timeVars, recorderVars, dbVars, clientVars, Recs,
         RecStatuses
  <2>4. FlagType'
    BY <1>0, Zenon DEF FlagType, NewRecorderLive, LiveFile, NextLive, StatusAfterDummy,
         FinishedAfterDummy, InUseAfterDummy, Set, FinalOf, Final, Of, StartFrame, stateVars,
         tuneVars, sleepVars, liveVars, timeVars, recorderVars, dbVars, clientVars
  <2>5. TimeType'
    BY <1>0, SetsAssumption DEF TimeType, NewRecorderLive, LiveFile, NextLive, StatusAfterDummy,
         FinishedAfterDummy, InUseAfterDummy, Set, FinalOf, Final, Of, StartFrame, stateVars,
         tuneVars, sleepVars, liveVars, timeVars, recorderVars, dbVars, clientVars
  <2>6. RowType'
    BY <1>0, SetsAssumption DEF RowType, NewRecorderLive, LiveFile, NextLive, StatusAfterDummy,
         FinishedAfterDummy, InUseAfterDummy, Set, FinalOf, Final, Of, StartFrame, stateVars,
         tuneVars, sleepVars, liveVars, timeVars, recorderVars, dbVars, clientVars, StatusMap,
         Recs, DataType
  <2>7. ClientType'
    BY <1>0, SetsAssumption DEF ClientType, NewRecorderLive, LiveFile, NextLive,
         StatusAfterDummy, FinishedAfterDummy, InUseAfterDummy, Set, FinalOf, Final, Of,
         StartFrame, stateVars, tuneVars, sleepVars, liveVars, timeVars, recorderVars, dbVars,
         clientVars, RecStatuses, DataType
  <2>8. QED
    BY <2>1, <2>2, <2>3, <2>4, <2>5, <2>6, <2>7, TypePartsNext
<1>16. NewRecorderFile => TypeOK'
  <2>. SUFFICES ASSUME NewRecorderFile PROVE TypeOK'
    OBVIOUS
  <2>1. EventType'
    BY <1>0, SetsAssumption DEF EventType, NewRecorderFile, StatusAfterDummy,
         FinishedAfterDummy, InUseAfterDummy, FinalOf, Final, Of, StartFrame, stateVars,
         tuneVars, sleepVars, liveVars, timeVars, recorderVars, dbVars, clientVars, States,
         Flags, PendingActions
  <2>2. QueueType'
    BY <1>0, SetsAssumption DEF QueueType, NewRecorderFile, StatusAfterDummy,
         FinishedAfterDummy, InUseAfterDummy, FinalOf, Final, Of, StartFrame, stateVars,
         tuneVars, sleepVars, liveVars, timeVars, recorderVars, dbVars, clientVars, Requests,
         RequestFlags, NoRec, Recs
  <2>3. DataType'
    <3>1. m_lastTuningRequest.program \in Recs \cup {Null}
      BY <1>0 DEF QueueType, Requests
    <3>2. QED
      BY <1>0, <3>1 DEF DataType, NewRecorderFile, StartFrame, recorderVars
  <2>4. FlagType'
    BY <1>0, Zenon DEF FlagType, NewRecorderFile, StatusAfterDummy, FinishedAfterDummy,
         InUseAfterDummy, FinalOf, Final, Of, StartFrame, stateVars, tuneVars, sleepVars,
         liveVars, timeVars, recorderVars, dbVars, clientVars
  <2>5. TimeType'
    BY <1>0, SetsAssumption DEF TimeType, NewRecorderFile, StatusAfterDummy, FinishedAfterDummy,
         InUseAfterDummy, FinalOf, Final, Of, StartFrame, stateVars, tuneVars, sleepVars,
         liveVars, timeVars, recorderVars, dbVars, clientVars
  <2>6. RowType'
    BY <1>0, SetsAssumption DEF RowType, NewRecorderFile, StatusAfterDummy, FinishedAfterDummy,
         InUseAfterDummy, FinalOf, Final, Of, StartFrame, stateVars, tuneVars, sleepVars,
         liveVars, timeVars, recorderVars, dbVars, clientVars, StatusMap, Recs, DataType
  <2>7. ClientType'
    BY <1>0, SetsAssumption DEF ClientType, NewRecorderFile, StatusAfterDummy,
         FinishedAfterDummy, InUseAfterDummy, FinalOf, Final, Of, StartFrame, stateVars,
         tuneVars, sleepVars, liveVars, timeVars, recorderVars, dbVars, clientVars, RecStatuses,
         DataType
  <2>8. QED
    BY <2>1, <2>2, <2>3, <2>4, <2>5, <2>6, <2>7, TypePartsNext
<1>17. NewRecorderCrash => TypeOK'
  BY SetsAssumption DEF NewRecorderCrash, StartFrame, TypeOK, Requests, RequestFlags, NoRec,
         RecStatuses, States, Flags, PendingActions, Recs, stateVars, tuneVars, sleepVars,
         liveVars, timeVars, recorderVars, dbVars, clientVars
<1>18. NewRecorderNoFile => TypeOK'
  <2>. SUFFICES ASSUME NewRecorderNoFile PROVE TypeOK'
    OBVIOUS
  <2>1. EventType'
    BY <1>0, SetsAssumption DEF EventType, NewRecorderNoFile, NewRecorderFailed, ChangeState,
         NoLiveFile, NoLiveChannel, NoLiveBuffer, NextLive, StatusAfterDummy, FinishedAfterDummy, InUseAfterDummy, Set,
         FinalOf, Final, Of, PendingNext, StartFrame, stateVars, tuneVars, sleepVars, liveVars,
         timeVars, recorderVars, dbVars, clientVars, States, Flags, PendingActions
  <2>2. QueueType'
    BY <1>0, SetsAssumption DEF QueueType, NewRecorderNoFile, NewRecorderFailed, ChangeState,
         NoLiveFile, NoLiveChannel, NoLiveBuffer, NextLive, StatusAfterDummy, FinishedAfterDummy, InUseAfterDummy, Set,
         FinalOf, Final, Of, PendingNext, StartFrame, stateVars, tuneVars, sleepVars, liveVars,
         timeVars, recorderVars, dbVars, clientVars, Requests, RequestFlags, NoRec, Recs
  <2>3. DataType'
    BY <1>0, SetsAssumption DEF DataType, NewRecorderNoFile, NewRecorderFailed, ChangeState,
         NoLiveFile, NoLiveChannel, NoLiveBuffer, NextLive, StatusAfterDummy, FinishedAfterDummy, InUseAfterDummy, Set,
         FinalOf, Final, Of, PendingNext, StartFrame, stateVars, tuneVars, sleepVars, liveVars,
         timeVars, recorderVars, dbVars, clientVars, Recs, RecStatuses
  <2>4. FlagType'
    BY <1>0, Zenon DEF FlagType, NewRecorderNoFile, NewRecorderFailed, ChangeState, NoLiveFile, NoLiveChannel, NoLiveBuffer,
         NextLive, StatusAfterDummy, FinishedAfterDummy, InUseAfterDummy, Set, FinalOf, Final,
         Of, PendingNext, StartFrame, stateVars, tuneVars, sleepVars, liveVars, timeVars,
         recorderVars, dbVars, clientVars
  <2>5. TimeType'
    BY <1>0, SetsAssumption DEF TimeType, NewRecorderNoFile, NewRecorderFailed, ChangeState,
         NoLiveFile, NoLiveChannel, NoLiveBuffer, NextLive, StatusAfterDummy, FinishedAfterDummy, InUseAfterDummy, Set,
         FinalOf, Final, Of, PendingNext, StartFrame, stateVars, tuneVars, sleepVars, liveVars,
         timeVars, recorderVars, dbVars, clientVars
  <2>6. RowType'
    BY <1>0, SetsAssumption DEF RowType, NewRecorderNoFile, NewRecorderFailed, ChangeState,
         NoLiveFile, NoLiveChannel, NoLiveBuffer, NextLive, StatusAfterDummy, FinishedAfterDummy, InUseAfterDummy, Set,
         FinalOf, Final, Of, PendingNext, StartFrame, stateVars, tuneVars, sleepVars, liveVars,
         timeVars, recorderVars, dbVars, clientVars, StatusMap, Recs, DataType
  <2>7. ClientType'
    BY <1>0, SetsAssumption DEF ClientType, NewRecorderNoFile, NewRecorderFailed, ChangeState,
         NoLiveFile, NoLiveChannel, NoLiveBuffer, NextLive, StatusAfterDummy, FinishedAfterDummy, InUseAfterDummy, Set,
         FinalOf, Final, Of, PendingNext, StartFrame, stateVars, tuneVars, sleepVars, liveVars,
         timeVars, recorderVars, dbVars, clientVars, RecStatuses, DataType
  <2>8. QED
    BY <2>1, <2>2, <2>3, <2>4, <2>5, <2>6, <2>7, TypePartsNext
<1>19. CreateRecorder => TypeOK'
  BY SetsAssumption DEF CreateRecorder, StartFrame, TypeOK, Requests, RequestFlags, NoRec,
         RecStatuses, States, Flags, PendingActions, Recs, stateVars, tuneVars, sleepVars,
         liveVars, timeVars, recorderVars, dbVars, clientVars
<1>20. CreateRecorderFails => TypeOK'
  BY SetsAssumption DEF CreateRecorderFails, NewRecorderFailed, ChangeState, Set, Of,
         PendingNext, StartFrame, TypeOK, Requests, RequestFlags, NoRec, RecStatuses, States,
         Flags, PendingActions, Recs, stateVars, tuneVars, sleepVars, liveVars, timeVars,
         recorderVars, dbVars, clientVars
<1>21. RecorderStarted => TypeOK'
  BY SetsAssumption DEF RecorderStarted, PendingNext, StartFrame, TypeOK, Requests,
         RequestFlags, NoRec, RecStatuses, States, Flags, PendingActions, Recs, stateVars,
         tuneVars, sleepVars, liveVars, timeVars, recorderVars, dbVars, clientVars
<1>22. TuningRestartRecorder => TypeOK'
  <2>. SUFFICES ASSUME TuningRestartRecorder PROVE TypeOK'
    OBVIOUS
  <2>1. EventType'
    BY <1>0, SetsAssumption DEF EventType, TuningRestartRecorder, LiveFile, NextLive, Set,
         FinalOf, Final, Of, PendingNext, StartFrame, stateVars, tuneVars, sleepVars, liveVars,
         timeVars, recorderVars, dbVars, clientVars, States, Flags, PendingActions
  <2>2. QueueType'
    BY <1>0, SetsAssumption DEF QueueType, TuningRestartRecorder, LiveFile, NextLive, Set,
         FinalOf, Final, Of, PendingNext, StartFrame, stateVars, tuneVars, sleepVars, liveVars,
         timeVars, recorderVars, dbVars, clientVars, Requests, RequestFlags, NoRec, Recs
  <2>3. DataType'
    BY <1>0, SetsAssumption DEF DataType, TuningRestartRecorder, LiveFile, NextLive, Set,
         FinalOf, Final, Of, PendingNext, StartFrame, stateVars, tuneVars, sleepVars, liveVars,
         timeVars, recorderVars, dbVars, clientVars, Recs, RecStatuses
  <2>4. FlagType'
    BY <1>0, Zenon DEF FlagType, TuningRestartRecorder, LiveFile, NextLive, Set, FinalOf, Final,
         Of, PendingNext, StartFrame, stateVars, tuneVars, sleepVars, liveVars, timeVars,
         recorderVars, dbVars, clientVars
  <2>5. TimeType'
    BY <1>0, SetsAssumption DEF TimeType, TuningRestartRecorder, LiveFile, NextLive, Set,
         FinalOf, Final, Of, PendingNext, StartFrame, stateVars, tuneVars, sleepVars, liveVars,
         timeVars, recorderVars, dbVars, clientVars
  <2>6. RowType'
    BY <1>0, SetsAssumption DEF RowType, TuningRestartRecorder, LiveFile, NextLive, Set,
         FinalOf, Final, Of, PendingNext, StartFrame, stateVars, tuneVars, sleepVars, liveVars,
         timeVars, recorderVars, dbVars, clientVars, StatusMap, Recs, DataType
  <2>7. ClientType'
    BY <1>0, SetsAssumption DEF ClientType, TuningRestartRecorder, LiveFile, NextLive, Set,
         FinalOf, Final, Of, PendingNext, StartFrame, stateVars, tuneVars, sleepVars, liveVars,
         timeVars, recorderVars, dbVars, clientVars, RecStatuses, DataType
  <2>8. QED
    BY <2>1, <2>2, <2>3, <2>4, <2>5, <2>6, <2>7, TypePartsNext
<1>23. TuningRestartFails => TypeOK'
  BY SetsAssumption DEF TuningRestartFails, NoLiveFile, NoLiveChannel, NoLiveBuffer, NextLive, ChangeState, FinalOf, Final,
         Of, PendingNext, StartFrame, TypeOK, Requests, RequestFlags, NoRec, RecStatuses,
         States, Flags, PendingActions, Recs, stateVars, tuneVars, sleepVars, liveVars,
         timeVars, recorderVars, dbVars, clientVars
<1>24. HandlePendingRecordings => TypeOK'
  <2>. SUFFICES ASSUME HandlePendingRecordings PROVE TypeOK'
    OBVIOUS
  <2>1. EventType'
    BY <1>0, SetsAssumption DEF EventType, HandlePendingRecordings, PseudoChecked, GetState,
         LoopFrame, stateVars, tuneVars, sleepVars, liveVars, timeVars, recorderVars, dbVars,
         clientVars, States, Flags, PendingActions
  <2>2. QueueType'
    BY <1>0, SetsAssumption DEF QueueType, HandlePendingRecordings, PseudoChecked, GetState,
         LoopFrame, stateVars, tuneVars, sleepVars, liveVars, timeVars, recorderVars, dbVars,
         clientVars, Requests, RequestFlags, NoRec, Recs
  <2>3. DataType'
    BY <1>0, SetsAssumption DEF DataType, HandlePendingRecordings, PseudoChecked, GetState,
         LoopFrame, stateVars, tuneVars, sleepVars, liveVars, timeVars, recorderVars, dbVars,
         clientVars, Recs, RecStatuses
  <2>4. FlagType'
    BY <1>0, Zenon DEF FlagType, HandlePendingRecordings, PseudoChecked, GetState, LoopFrame,
         stateVars, tuneVars, sleepVars, liveVars, timeVars, recorderVars, dbVars, clientVars
  <2>5. TimeType'
    <3>1. m_pending' = Null \/ \E b \in BOOLEAN : m_pending' = [ask |-> FALSE, canceled |-> b]
      BY Zenon DEF HandlePendingRecordings
    <3>2. over' = over
      BY DEF HandlePendingRecordings
    <3>3. ASSUME NEW b \in BOOLEAN
          PROVE  [ask |-> FALSE, canceled |-> b] \in [ask : BOOLEAN, canceled : BOOLEAN]
      OBVIOUS
    <3>4. QED BY <1>0, <3>1, <3>2, <3>3, Zenon DEF TimeType
  <2>6. RowType'
    BY <1>0, SetsAssumption DEF RowType, HandlePendingRecordings, PseudoChecked, GetState,
         LoopFrame, stateVars, tuneVars, sleepVars, liveVars, timeVars, recorderVars, dbVars,
         clientVars, StatusMap, Recs, DataType
  <2>7. ClientType'
    BY <1>0, SetsAssumption DEF ClientType, HandlePendingRecordings, PseudoChecked, GetState,
         LoopFrame, stateVars, tuneVars, sleepVars, liveVars, timeVars, recorderVars, dbVars,
         clientVars, RecStatuses, DataType
  <2>8. QED
    BY <2>1, <2>2, <2>3, <2>4, <2>5, <2>6, <2>7, TypePartsNext
<1>25. CheckEnd => TypeOK'
  <2>. SUFFICES ASSUME CheckEnd PROVE TypeOK'
    OBVIOUS
  <2>1. EventType'
    BY <1>0, SetsAssumption DEF EventType, CheckEnd, Awake, LoopEnds, ChangeState,
         NoStateChange, Set, LoopFrame, stateVars, tuneVars, sleepVars, liveVars, timeVars,
         recorderVars, dbVars, clientVars, States, Flags, PendingActions
  <2>2. QueueType'
    BY <1>0, SetsAssumption DEF QueueType, CheckEnd, Awake, LoopEnds, ChangeState,
         NoStateChange, Set, LoopFrame, stateVars, tuneVars, sleepVars, liveVars, timeVars,
         recorderVars, dbVars, clientVars, Requests, RequestFlags, NoRec, Recs
  <2>3. DataType'
    BY <1>0, SetsAssumption DEF DataType, CheckEnd, Awake, LoopEnds, ChangeState, NoStateChange,
         Set, LoopFrame, stateVars, tuneVars, sleepVars, liveVars, timeVars, recorderVars,
         dbVars, clientVars, Recs, RecStatuses
  <2>4. FlagType'
    BY <1>0, Zenon DEF FlagType, CheckEnd, Awake, LoopEnds, ChangeState, NoStateChange, Set,
         LoopFrame, stateVars, tuneVars, sleepVars, liveVars, timeVars, recorderVars, dbVars,
         clientVars
  <2>5. TimeType'
    BY <1>0, SetsAssumption DEF TimeType, CheckEnd, Awake, LoopEnds, ChangeState, NoStateChange,
         Set, LoopFrame, stateVars, tuneVars, sleepVars, liveVars, timeVars, recorderVars,
         dbVars, clientVars
  <2>6. RowType'
    BY <1>0, SetsAssumption DEF RowType, CheckEnd, Awake, LoopEnds, ChangeState, NoStateChange,
         Set, LoopFrame, stateVars, tuneVars, sleepVars, liveVars, timeVars, recorderVars,
         dbVars, clientVars, StatusMap, Recs, DataType
  <2>7. ClientType'
    BY <1>0, SetsAssumption DEF ClientType, CheckEnd, Awake, LoopEnds, ChangeState,
         NoStateChange, Set, LoopFrame, stateVars, tuneVars, sleepVars, liveVars, timeVars,
         recorderVars, dbVars, clientVars, RecStatuses, DataType
  <2>8. QED
    BY <2>1, <2>2, <2>3, <2>4, <2>5, <2>6, <2>7, TypePartsNext
<1>26. CheckLive => TypeOK'
  <2>. SUFFICES ASSUME CheckLive PROVE TypeOK'
    OBVIOUS
  <2>1. EventType'
    BY <1>0, SetsAssumption DEF EventType, CheckLive, CheckLiveFrame, LoopEnds, NoStateChange,
         LoopFrame, stateVars, tuneVars, sleepVars, liveVars, timeVars, recorderVars, dbVars,
         clientVars, States, Flags, PendingActions
  <2>2. QueueType'
    BY <1>0, SetsAssumption DEF QueueType, CheckLive, CheckLiveFrame, LoopEnds, NoStateChange,
         LoopFrame, stateVars, tuneVars, sleepVars, liveVars, timeVars, recorderVars, dbVars,
         clientVars, Requests, RequestFlags, NoRec, Recs
  <2>3. DataType'
    BY <1>0, SetsAssumption DEF DataType, CheckLive, CheckLiveFrame, LoopEnds, NoStateChange,
         LoopFrame, stateVars, tuneVars, sleepVars, liveVars, timeVars, recorderVars, dbVars,
         clientVars, Recs, RecStatuses
  <2>4. FlagType'
    BY <1>0, Zenon DEF FlagType, CheckLive, CheckLiveFrame, LoopEnds, NoStateChange, LoopFrame,
         stateVars, tuneVars, sleepVars, liveVars, timeVars, recorderVars, dbVars, clientVars
  <2>5. TimeType'
    BY <1>0, SetsAssumption DEF TimeType, CheckLive, CheckLiveFrame, LoopEnds, NoStateChange,
         LoopFrame, stateVars, tuneVars, sleepVars, liveVars, timeVars, recorderVars, dbVars,
         clientVars
  <2>6. RowType'
    BY <1>0, SetsAssumption DEF RowType, CheckLive, CheckLiveFrame, LoopEnds, NoStateChange,
         LoopFrame, stateVars, tuneVars, sleepVars, liveVars, timeVars, recorderVars, dbVars,
         clientVars, StatusMap, Recs, DataType
  <2>7. ClientType'
    BY <1>0, SetsAssumption DEF ClientType, CheckLive, CheckLiveFrame, LoopEnds, NoStateChange,
         LoopFrame, stateVars, tuneVars, sleepVars, liveVars, timeVars, recorderVars, dbVars,
         clientVars, RecStatuses, DataType
  <2>8. QED
    BY <2>1, <2>2, <2>3, <2>4, <2>5, <2>6, <2>7, TypePartsNext
<1>27. SwitchLive => TypeOK'
  <2>. SUFFICES ASSUME SwitchLive PROVE TypeOK'
    OBVIOUS
  <2>1. EventType'
    BY <1>0, SetsAssumption DEF EventType, SwitchLive, CheckLiveFrame, LoopEnds, NoLiveFile, NoLiveChannel, NoLiveBuffer,
         NextLive, ChangeState, NoStateChange, Of, LoopFrame, stateVars, tuneVars, sleepVars,
         liveVars, timeVars, recorderVars, dbVars, clientVars, States, Flags, PendingActions
  <2>2. QueueType'
    BY <1>0, SetsAssumption DEF QueueType, SwitchLive, CheckLiveFrame, LoopEnds, NoLiveFile, NoLiveChannel, NoLiveBuffer,
         NextLive, ChangeState, NoStateChange, Of, LoopFrame, stateVars, tuneVars, sleepVars,
         liveVars, timeVars, recorderVars, dbVars, clientVars, Requests, RequestFlags, NoRec,
         Recs
  <2>3. DataType'
    BY <1>0, SetsAssumption DEF DataType, SwitchLive, CheckLiveFrame, LoopEnds, NoLiveFile, NoLiveChannel, NoLiveBuffer,
         NextLive, ChangeState, NoStateChange, Of, LoopFrame, stateVars, tuneVars, sleepVars,
         liveVars, timeVars, recorderVars, dbVars, clientVars, Recs, RecStatuses
  <2>4. FlagType'
    BY <1>0, Zenon DEF FlagType, SwitchLive, CheckLiveFrame, LoopEnds, NoLiveFile, NoLiveChannel, NoLiveBuffer, NextLive,
         ChangeState, NoStateChange, Of, LoopFrame, stateVars, tuneVars, sleepVars, liveVars,
         timeVars, recorderVars, dbVars, clientVars
  <2>5. TimeType'
    BY <1>0, SetsAssumption DEF TimeType, SwitchLive, CheckLiveFrame, LoopEnds, NoLiveFile, NoLiveChannel, NoLiveBuffer,
         NextLive, ChangeState, NoStateChange, Of, LoopFrame, stateVars, tuneVars, sleepVars,
         liveVars, timeVars, recorderVars, dbVars, clientVars
  <2>6. RowType'
    BY <1>0, SetsAssumption DEF RowType, SwitchLive, CheckLiveFrame, LoopEnds, NoLiveFile, NoLiveChannel, NoLiveBuffer,
         NextLive, ChangeState, NoStateChange, Of, LoopFrame, stateVars, tuneVars, sleepVars,
         liveVars, timeVars, recorderVars, dbVars, clientVars, StatusMap, Recs, DataType
  <2>7. ClientType'
    BY <1>0, SetsAssumption DEF ClientType, SwitchLive, CheckLiveFrame, LoopEnds, NoLiveFile, NoLiveChannel, NoLiveBuffer,
         NextLive, ChangeState, NoStateChange, Of, LoopFrame, stateVars, tuneVars, sleepVars,
         liveVars, timeVars, recorderVars, dbVars, clientVars, RecStatuses, DataType
  <2>8. QED
    BY <2>1, <2>2, <2>3, <2>4, <2>5, <2>6, <2>7, TypePartsNext
<1>28. RecorderRuns => TypeOK'
  BY SetsAssumption DEF RecorderRuns, ElseFrame, TypeOK, Requests, RequestFlags, NoRec,
         RecStatuses, States, Flags, PendingActions, Recs, stateVars, tuneVars, sleepVars,
         liveVars, timeVars, recorderVars, dbVars, clientVars
<1>29. RecorderErrs => TypeOK'
  BY SetsAssumption DEF RecorderErrs, ElseFrame, TypeOK, Requests, RequestFlags, NoRec,
         RecStatuses, States, Flags, PendingActions, Recs, stateVars, tuneVars, sleepVars,
         liveVars, timeVars, recorderVars, dbVars, clientVars
<1>30. RecorderPauses => TypeOK'
  BY SetsAssumption DEF RecorderPauses, ElseFrame, TypeOK, Requests, RequestFlags, NoRec,
         RecStatuses, States, Flags, PendingActions, Recs, stateVars, tuneVars, sleepVars,
         liveVars, timeVars, recorderVars, dbVars, clientVars
<1>31. RingBufferChanged => TypeOK'
  <2>. SUFFICES ASSUME RingBufferChanged PROVE TypeOK'
    OBVIOUS
  <2>1. EventType'
    BY <1>0, SetsAssumption DEF EventType, RingBufferChanged, FinalOf, Final, Of, ElseFrame,
         stateVars, tuneVars, sleepVars, liveVars, timeVars, recorderVars, dbVars, clientVars,
         States, Flags, PendingActions
  <2>2. QueueType'
    BY <1>0, SetsAssumption DEF QueueType, RingBufferChanged, FinalOf, Final, Of, ElseFrame,
         stateVars, tuneVars, sleepVars, liveVars, timeVars, recorderVars, dbVars, clientVars,
         Requests, RequestFlags, NoRec, Recs
  <2>3. DataType'
    BY <1>0, SetsAssumption DEF DataType, RingBufferChanged, FinalOf, Final, Of, ElseFrame,
         stateVars, tuneVars, sleepVars, liveVars, timeVars, recorderVars, dbVars, clientVars,
         Recs, RecStatuses
  <2>4. FlagType'
    BY <1>0, Zenon DEF FlagType, RingBufferChanged, FinalOf, Final, Of, ElseFrame, stateVars,
         tuneVars, sleepVars, liveVars, timeVars, recorderVars, dbVars, clientVars
  <2>5. TimeType'
    BY <1>0, SetsAssumption DEF TimeType, RingBufferChanged, FinalOf, Final, Of, ElseFrame,
         stateVars, tuneVars, sleepVars, liveVars, timeVars, recorderVars, dbVars, clientVars
  <2>6. RowType'
    BY <1>0, SetsAssumption DEF RowType, RingBufferChanged, FinalOf, Final, Of, ElseFrame,
         stateVars, tuneVars, sleepVars, liveVars, timeVars, recorderVars, dbVars, clientVars,
         StatusMap, Recs, DataType
  <2>7. ClientType'
    BY <1>0, SetsAssumption DEF ClientType, RingBufferChanged, FinalOf, Final, Of, ElseFrame,
         stateVars, tuneVars, sleepVars, liveVars, timeVars, recorderVars, dbVars, clientVars,
         RecStatuses, DataType
  <2>8. QED
    BY <2>1, <2>2, <2>3, <2>4, <2>5, <2>6, <2>7, TypePartsNext
<1>32. TimePasses => TypeOK'
  <2>. SUFFICES ASSUME TimePasses PROVE TypeOK'
    OBVIOUS
  <2>1. EventType'
    BY <1>0, SetsAssumption DEF EventType, TimePasses, ElseFrame, stateVars, tuneVars,
         sleepVars, liveVars, timeVars, recorderVars, dbVars, clientVars, States, Flags,
         PendingActions
  <2>2. QueueType'
    BY <1>0, SetsAssumption DEF QueueType, TimePasses, ElseFrame, stateVars, tuneVars,
         sleepVars, liveVars, timeVars, recorderVars, dbVars, clientVars, Requests,
         RequestFlags, NoRec, Recs
  <2>3. DataType'
    BY <1>0, SetsAssumption DEF DataType, TimePasses, ElseFrame, stateVars, tuneVars, sleepVars,
         liveVars, timeVars, recorderVars, dbVars, clientVars, Recs, RecStatuses
  <2>4. FlagType'
    BY <1>0, Zenon DEF FlagType, TimePasses, ElseFrame, stateVars, tuneVars, sleepVars,
         liveVars, timeVars, recorderVars, dbVars, clientVars
  <2>5. TimeType'
    BY <1>0, SetsAssumption DEF TimeType, TimePasses, ElseFrame, stateVars, tuneVars, sleepVars,
         liveVars, timeVars, recorderVars, dbVars, clientVars
  <2>6. RowType'
    BY <1>0, SetsAssumption DEF RowType, TimePasses, ElseFrame, stateVars, tuneVars, sleepVars,
         liveVars, timeVars, recorderVars, dbVars, clientVars, StatusMap, Recs, DataType
  <2>7. ClientType'
    BY <1>0, SetsAssumption DEF ClientType, TimePasses, ElseFrame, stateVars, tuneVars,
         sleepVars, liveVars, timeVars, recorderVars, dbVars, clientVars, RecStatuses, DataType
  <2>8. QED
    BY <2>1, <2>2, <2>3, <2>4, <2>5, <2>6, <2>7, TypePartsNext
<1>33. KeepLive => TypeOK'
  BY SetsAssumption DEF KeepLive, TypeOK, Requests, RequestFlags, NoRec, RecStatuses, States,
         Flags, PendingActions, Recs, stateVars, tuneVars, sleepVars, liveVars, timeVars,
         recorderVars, dbVars, clientVars
<1>34. \A c \in Clients, p \in Programs : StartRecording(c, p) => TypeOK'
  BY SetsAssumption DEF StartRecording, Begins, Wait, StartRecordingFrame, TypeOK, Requests,
         RequestFlags, NoRec, RecStatuses, States, Flags, PendingActions, Recs, stateVars,
         tuneVars, sleepVars, liveVars, timeVars, recorderVars, dbVars, clientVars
<1>35. \A c \in Clients : StopRecording(c) => TypeOK'
  BY SetsAssumption DEF StopRecording, Begins, StopFrame, TypeOK, Requests, RequestFlags, NoRec,
         RecStatuses, States, Flags, PendingActions, Recs, stateVars, tuneVars, sleepVars,
         liveVars, timeVars, recorderVars, dbVars, clientVars
<1>36. \A c \in Clients : FinishRecording(c) => TypeOK'
  BY SetsAssumption DEF FinishRecording, Begins, StopFrame, TypeOK, Requests, RequestFlags,
         NoRec, RecStatuses, States, Flags, PendingActions, Recs, stateVars, tuneVars,
         sleepVars, liveVars, timeVars, recorderVars, dbVars, clientVars
<1>37. \A c \in Clients : SpawnLiveTV(c) => TypeOK'
  <2>. SUFFICES ASSUME NEW c \in Clients, SpawnLiveTV(c) PROVE TypeOK'
    OBVIOUS
  <2>1. EventType'
    BY <1>0, SetsAssumption DEF EventType, SpawnLiveTV, Begins, ChangeState, Wait, LiveFrame,
         stateVars, tuneVars, sleepVars, liveVars, timeVars, recorderVars, dbVars, clientVars,
         States, Flags, PendingActions
  <2>2. QueueType'
    BY <1>0, SetsAssumption DEF QueueType, SpawnLiveTV, Begins, ChangeState, Wait, LiveFrame,
         stateVars, tuneVars, sleepVars, liveVars, timeVars, recorderVars, dbVars, clientVars,
         Requests, RequestFlags, NoRec, Recs
  <2>3. DataType'
    BY <1>0, SetsAssumption DEF DataType, SpawnLiveTV, Begins, ChangeState, Wait, LiveFrame,
         stateVars, tuneVars, sleepVars, liveVars, timeVars, recorderVars, dbVars, clientVars,
         Recs, RecStatuses
  <2>4. FlagType'
    BY <1>0, Zenon DEF FlagType, SpawnLiveTV, Begins, ChangeState, Wait, LiveFrame, stateVars,
         tuneVars, sleepVars, liveVars, timeVars, recorderVars, dbVars, clientVars
  <2>5. TimeType'
    BY <1>0, SetsAssumption DEF TimeType, SpawnLiveTV, Begins, ChangeState, Wait, LiveFrame,
         stateVars, tuneVars, sleepVars, liveVars, timeVars, recorderVars, dbVars, clientVars
  <2>6. RowType'
    BY <1>0, SetsAssumption DEF RowType, SpawnLiveTV, Begins, ChangeState, Wait, LiveFrame,
         stateVars, tuneVars, sleepVars, liveVars, timeVars, recorderVars, dbVars, clientVars,
         StatusMap, Recs, DataType
  <2>7. ClientType'
    BY <1>0, SetsAssumption DEF ClientType, SpawnLiveTV, Begins, ChangeState, Wait, LiveFrame,
         stateVars, tuneVars, sleepVars, liveVars, timeVars, recorderVars, dbVars, clientVars,
         RecStatuses, DataType
  <2>8. QED
    BY <2>1, <2>2, <2>3, <2>4, <2>5, <2>6, <2>7, TypePartsNext
<1>38. \A c \in Clients : StopLiveTV(c) => TypeOK'
  BY SetsAssumption DEF StopLiveTV, Begins, PseudoChecked, NotifyScheduler, Notified, Set,
         ChangeState, Wait, LiveFrame, TypeOK, Requests, RequestFlags, NoRec, RecStatuses,
         States, Flags, PendingActions, Recs, stateVars, tuneVars, sleepVars, liveVars,
         timeVars, recorderVars, dbVars, clientVars
<1>39. \A c \in Clients : SetLiveRecording(c) => TypeOK'
  BY SetsAssumption DEF SetLiveRecording, Begins, PseudoChecked, Notified, Set, LiveFrame,
         TypeOK, Requests, RequestFlags, NoRec, RecStatuses, States, Flags, PendingActions,
         Recs, stateVars, tuneVars, sleepVars, liveVars, timeVars, recorderVars, dbVars,
         clientVars
<1>40. \A c \in Clients : PauseRecorder(c) => TypeOK'
  BY SetsAssumption DEF PauseRecorder, Begins, Wait, LiveFrame, TypeOK, Requests, RequestFlags,
         NoRec, RecStatuses, States, Flags, PendingActions, Recs, stateVars, tuneVars,
         sleepVars, liveVars, timeVars, recorderVars, dbVars, clientVars
<1>41. \A c \in Clients : RecordPending(c) => TypeOK'
  BY SetsAssumption DEF RecordPending, Begins, PendFrame, TypeOK, Requests, RequestFlags, NoRec,
         RecStatuses, States, Flags, PendingActions, Recs, stateVars, tuneVars, sleepVars,
         liveVars, timeVars, recorderVars, dbVars, clientVars
<1>42. \A c \in Clients : CancelNextRecording(c) => TypeOK'
  <2>. SUFFICES ASSUME NEW c \in Clients, CancelNextRecording(c) PROVE TypeOK'
    OBVIOUS
  <2>1. EventType'
    BY <1>0, SetsAssumption DEF EventType, CancelNextRecording, Begins, PendFrame, stateVars,
         tuneVars, sleepVars, liveVars, timeVars, recorderVars, dbVars, clientVars, States,
         Flags, PendingActions
  <2>2. QueueType'
    BY <1>0, SetsAssumption DEF QueueType, CancelNextRecording, Begins, PendFrame, stateVars,
         tuneVars, sleepVars, liveVars, timeVars, recorderVars, dbVars, clientVars, Requests,
         RequestFlags, NoRec, Recs
  <2>3. DataType'
    BY <1>0, SetsAssumption DEF DataType, CancelNextRecording, Begins, PendFrame, stateVars,
         tuneVars, sleepVars, liveVars, timeVars, recorderVars, dbVars, clientVars, Recs,
         RecStatuses
  <2>4. FlagType'
    BY <1>0, Zenon DEF FlagType, CancelNextRecording, Begins, PendFrame, stateVars, tuneVars,
         sleepVars, liveVars, timeVars, recorderVars, dbVars, clientVars
  <2>5. TimeType'
    <3>1. \/ m_pending' = [ask |-> FALSE, canceled |-> TRUE]
          \/ m_pending' = [m_pending EXCEPT !.canceled = FALSE]
      BY Zenon DEF CancelNextRecording
    <3>2. m_pending # Null /\ over' = over
      BY DEF CancelNextRecording, PendFrame, timeVars
    <3>3. [ask |-> FALSE, canceled |-> TRUE] \in [ask : BOOLEAN, canceled : BOOLEAN]
      OBVIOUS
    <3>4. \A r \in [ask : BOOLEAN, canceled : BOOLEAN] :
            [r EXCEPT !.canceled = FALSE] \in [ask : BOOLEAN, canceled : BOOLEAN]
      OBVIOUS
    <3>5. m_pending \in [ask : BOOLEAN, canceled : BOOLEAN]
      BY <1>0, <3>2, Zenon DEF TimeType
    <3>6. QED BY <1>0, <3>1, <3>2, <3>3, <3>4, <3>5, Zenon DEF TimeType
  <2>6. RowType'
    BY <1>0, SetsAssumption DEF RowType, CancelNextRecording, Begins, PendFrame, stateVars,
         tuneVars, sleepVars, liveVars, timeVars, recorderVars, dbVars, clientVars, StatusMap,
         Recs, DataType
  <2>7. ClientType'
    BY <1>0, SetsAssumption DEF ClientType, CancelNextRecording, Begins, PendFrame, stateVars,
         tuneVars, sleepVars, liveVars, timeVars, recorderVars, dbVars, clientVars, RecStatuses,
         DataType
  <2>8. QED
    BY <2>1, <2>2, <2>3, <2>4, <2>5, <2>6, <2>7, TypePartsNext
<1>43. \A c \in Clients : Doze(c) => TypeOK'
  <2>. SUFFICES ASSUME NEW c \in Clients, Doze(c) PROVE TypeOK'
    OBVIOUS
  <2>1. EventType'
    BY <1>0, SetsAssumption DEF EventType, Doze, WaitFrame, stateVars, tuneVars, sleepVars,
         liveVars, timeVars, recorderVars, dbVars, clientVars, States, Flags, PendingActions
  <2>2. QueueType'
    BY <1>0, SetsAssumption DEF QueueType, Doze, WaitFrame, stateVars, tuneVars, sleepVars,
         liveVars, timeVars, recorderVars, dbVars, clientVars, Requests, RequestFlags, NoRec,
         Recs
  <2>3. DataType'
    BY <1>0, SetsAssumption DEF DataType, Doze, WaitFrame, stateVars, tuneVars, sleepVars,
         liveVars, timeVars, recorderVars, dbVars, clientVars, Recs, RecStatuses
  <2>4. FlagType'
    BY <1>0, Zenon DEF FlagType, Doze, WaitFrame, stateVars, tuneVars, sleepVars, liveVars,
         timeVars, recorderVars, dbVars, clientVars
  <2>5. TimeType'
    BY <1>0, SetsAssumption DEF TimeType, Doze, WaitFrame, stateVars, tuneVars, sleepVars,
         liveVars, timeVars, recorderVars, dbVars, clientVars
  <2>6. RowType'
    BY <1>0, SetsAssumption DEF RowType, Doze, WaitFrame, stateVars, tuneVars, sleepVars,
         liveVars, timeVars, recorderVars, dbVars, clientVars, StatusMap, Recs, DataType
  <2>7. ClientType'
    BY <1>0, SetsAssumption DEF ClientType, Doze, WaitFrame, stateVars, tuneVars, sleepVars,
         liveVars, timeVars, recorderVars, dbVars, clientVars, RecStatuses, DataType
  <2>8. QED
    BY <2>1, <2>2, <2>3, <2>4, <2>5, <2>6, <2>7, TypePartsNext
<1>44. \A c \in Clients : Woken(c) => TypeOK'
  <2>. SUFFICES ASSUME NEW c \in Clients, Woken(c) PROVE TypeOK'
    OBVIOUS
  <2>1. EventType'
    BY <1>0, SetsAssumption DEF EventType, Woken, WaitFrame, stateVars, tuneVars, sleepVars,
         liveVars, timeVars, recorderVars, dbVars, clientVars, States, Flags, PendingActions
  <2>2. QueueType'
    BY <1>0, SetsAssumption DEF QueueType, Woken, WaitFrame, stateVars, tuneVars, sleepVars,
         liveVars, timeVars, recorderVars, dbVars, clientVars, Requests, RequestFlags, NoRec,
         Recs
  <2>3. DataType'
    BY <1>0, SetsAssumption DEF DataType, Woken, WaitFrame, stateVars, tuneVars, sleepVars,
         liveVars, timeVars, recorderVars, dbVars, clientVars, Recs, RecStatuses
  <2>4. FlagType'
    BY <1>0, Zenon DEF FlagType, Woken, WaitFrame, stateVars, tuneVars, sleepVars, liveVars,
         timeVars, recorderVars, dbVars, clientVars
  <2>5. TimeType'
    BY <1>0, SetsAssumption DEF TimeType, Woken, WaitFrame, stateVars, tuneVars, sleepVars,
         liveVars, timeVars, recorderVars, dbVars, clientVars
  <2>6. RowType'
    BY <1>0, SetsAssumption DEF RowType, Woken, WaitFrame, stateVars, tuneVars, sleepVars,
         liveVars, timeVars, recorderVars, dbVars, clientVars, StatusMap, Recs, DataType
  <2>7. ClientType'
    BY <1>0, SetsAssumption DEF ClientType, Woken, WaitFrame, stateVars, tuneVars, sleepVars,
         liveVars, timeVars, recorderVars, dbVars, clientVars, RecStatuses, DataType
  <2>8. QED
    BY <2>1, <2>2, <2>3, <2>4, <2>5, <2>6, <2>7, TypePartsNext
<1>45. \A c \in Clients : Relock(c) => TypeOK'
  BY SetsAssumption DEF Relock, WaitFrame, TypeOK, Requests, RequestFlags, NoRec, RecStatuses,
         States, Flags, PendingActions, Recs, stateVars, tuneVars, sleepVars, liveVars,
         timeVars, recorderVars, dbVars, clientVars
<1>46. \A c \in Clients : StartExtends(c) => TypeOK'
  <2>. SUFFICES ASSUME NEW c \in Clients, StartExtends(c) PROVE TypeOK'
    OBVIOUS
  <2>1. EventType'
    BY <1>0, SetsAssumption DEF EventType, StartExtends, Resumes, StartReturns, Returns,
         StartRecordingFrame, stateVars, tuneVars, sleepVars, liveVars, timeVars, recorderVars,
         dbVars, clientVars, States, Flags, PendingActions
  <2>2. QueueType'
    BY <1>0, SetsAssumption DEF QueueType, StartExtends, Resumes, StartReturns, Returns,
         StartRecordingFrame, stateVars, tuneVars, sleepVars, liveVars, timeVars, recorderVars,
         dbVars, clientVars, Requests, RequestFlags, NoRec, Recs
  <2>3. DataType'
    BY <1>0, SetsAssumption DEF DataType, StartExtends, Resumes, StartReturns, Returns,
         StartRecordingFrame, stateVars, tuneVars, sleepVars, liveVars, timeVars, recorderVars,
         dbVars, clientVars, Recs, RecStatuses
  <2>4. FlagType'
    BY <1>0, Zenon DEF FlagType, StartExtends, Resumes, StartReturns, Returns,
         StartRecordingFrame, stateVars, tuneVars, sleepVars, liveVars, timeVars, recorderVars,
         dbVars, clientVars
  <2>5. TimeType'
    BY <1>0, SetsAssumption DEF TimeType, StartExtends, Resumes, StartReturns, Returns,
         StartRecordingFrame, stateVars, tuneVars, sleepVars, liveVars, timeVars, recorderVars,
         dbVars, clientVars
  <2>6. RowType'
    BY <1>0, SetsAssumption DEF RowType, StartExtends, Resumes, StartReturns, Returns,
         StartRecordingFrame, stateVars, tuneVars, sleepVars, liveVars, timeVars, recorderVars,
         dbVars, clientVars, StatusMap, Recs, DataType
  <2>7. ClientType'
    BY <1>0, SetsAssumption DEF ClientType, StartExtends, Resumes, StartReturns, Returns,
         StartRecordingFrame, stateVars, tuneVars, sleepVars, liveVars, timeVars, recorderVars,
         dbVars, clientVars, RecStatuses, DataType
  <2>8. QED
    BY <2>1, <2>2, <2>3, <2>4, <2>5, <2>6, <2>7, TypePartsNext
<1>47. \A c \in Clients : StartAsks(c) => TypeOK'
  <2>. SUFFICES ASSUME NEW c \in Clients, StartAsks(c) PROVE TypeOK'
    OBVIOUS
  <2>1. EventType'
    BY <1>0, SetsAssumption DEF EventType, StartAsks, Resumes, Wait, StartRecordingFrame,
         stateVars, tuneVars, sleepVars, liveVars, timeVars, recorderVars, dbVars, clientVars,
         States, Flags, PendingActions
  <2>2. QueueType'
    BY <1>0, SetsAssumption DEF QueueType, StartAsks, Resumes, Wait, StartRecordingFrame,
         stateVars, tuneVars, sleepVars, liveVars, timeVars, recorderVars, dbVars, clientVars,
         Requests, RequestFlags, NoRec, Recs
  <2>3. DataType'
    BY <1>0, SetsAssumption DEF DataType, StartAsks, Resumes, Wait, StartRecordingFrame,
         stateVars, tuneVars, sleepVars, liveVars, timeVars, recorderVars, dbVars, clientVars,
         Recs, RecStatuses
  <2>4. FlagType'
    BY <1>0, Zenon DEF FlagType, StartAsks, Resumes, Wait, StartRecordingFrame, stateVars,
         tuneVars, sleepVars, liveVars, timeVars, recorderVars, dbVars, clientVars
  <2>5. TimeType'
    BY <1>0, SetsAssumption DEF TimeType, StartAsks, Resumes, Wait, StartRecordingFrame,
         stateVars, tuneVars, sleepVars, liveVars, timeVars, recorderVars, dbVars, clientVars
  <2>6. RowType'
    BY <1>0, SetsAssumption DEF RowType, StartAsks, Resumes, Wait, StartRecordingFrame,
         stateVars, tuneVars, sleepVars, liveVars, timeVars, recorderVars, dbVars, clientVars,
         StatusMap, Recs, DataType
  <2>7. ClientType'
    BY <1>0, SetsAssumption DEF ClientType, StartAsks, Resumes, Wait, StartRecordingFrame,
         stateVars, tuneVars, sleepVars, liveVars, timeVars, recorderVars, dbVars, clientVars,
         RecStatuses, DataType
  <2>8. QED
    BY <2>1, <2>2, <2>3, <2>4, <2>5, <2>6, <2>7, TypePartsNext
<1>48. \A c \in Clients : StartSwitches(c) => TypeOK'
  <2>. SUFFICES ASSUME NEW c \in Clients, StartSwitches(c) PROVE TypeOK'
    OBVIOUS
  <2>1. EventType'
    BY <1>0, SetsAssumption DEF EventType, StartSwitches, Resumes, Of, StartReturns, Returns,
         StartRecordingFrame, stateVars, tuneVars, sleepVars, liveVars, timeVars, recorderVars,
         dbVars, clientVars, States, Flags, PendingActions
  <2>2. QueueType'
    BY <1>0, SetsAssumption DEF QueueType, StartSwitches, Resumes, Of, StartReturns, Returns,
         StartRecordingFrame, stateVars, tuneVars, sleepVars, liveVars, timeVars, recorderVars,
         dbVars, clientVars, Requests, RequestFlags, NoRec, Recs
  <2>3. DataType'
    <3>1. program[c] \in Recs
      BY StartProgram DEF StartSwitches
    <3>2. QED
      BY <1>0, <3>1 DEF DataType, RecStatuses, StartSwitches, StartRecordingFrame, liveVars
  <2>4. FlagType'
    BY <1>0, Zenon DEF FlagType, StartSwitches, Resumes, Of, StartReturns, Returns,
         StartRecordingFrame, stateVars, tuneVars, sleepVars, liveVars, timeVars, recorderVars,
         dbVars, clientVars
  <2>5. TimeType'
    BY <1>0, SetsAssumption DEF TimeType, StartSwitches, Resumes, Of, StartReturns, Returns,
         StartRecordingFrame, stateVars, tuneVars, sleepVars, liveVars, timeVars, recorderVars,
         dbVars, clientVars
  <2>6. RowType'
    <3>1. program[c] \in Recs
      BY StartProgram DEF StartSwitches
    <3>2. QED
      BY <1>0, <3>1 DEF RowType, StatusMap, DataType, StartSwitches, Of, StartRecordingFrame, dbVars
  <2>7. ClientType'
    BY <1>0, SetsAssumption DEF ClientType, StartSwitches, Resumes, Of, StartReturns, Returns,
         StartRecordingFrame, stateVars, tuneVars, sleepVars, liveVars, timeVars, recorderVars,
         dbVars, clientVars, RecStatuses, DataType
  <2>8. QED
    BY <2>1, <2>2, <2>3, <2>4, <2>5, <2>6, <2>7, TypePartsNext
<1>49. \A c \in Clients : StartStops(c) => TypeOK'
  <2>. SUFFICES ASSUME NEW c \in Clients, StartStops(c) PROVE TypeOK'
    OBVIOUS
  <2>1. EventType'
    BY <1>0, SetsAssumption DEF EventType, StartStops, Resumes, StartRecordingFrame, stateVars,
         tuneVars, sleepVars, liveVars, timeVars, recorderVars, dbVars, clientVars, States,
         Flags, PendingActions
  <2>2. QueueType'
    BY <1>0, SetsAssumption DEF QueueType, StartStops, Resumes, StartRecordingFrame, stateVars,
         tuneVars, sleepVars, liveVars, timeVars, recorderVars, dbVars, clientVars, Requests,
         RequestFlags, NoRec, Recs
  <2>3. DataType'
    BY <1>0, SetsAssumption DEF DataType, StartStops, Resumes, StartRecordingFrame, stateVars,
         tuneVars, sleepVars, liveVars, timeVars, recorderVars, dbVars, clientVars, Recs,
         RecStatuses
  <2>4. FlagType'
    BY <1>0, Zenon DEF FlagType, StartStops, Resumes, StartRecordingFrame, stateVars, tuneVars,
         sleepVars, liveVars, timeVars, recorderVars, dbVars, clientVars
  <2>5. TimeType'
    BY <1>0, SetsAssumption DEF TimeType, StartStops, Resumes, StartRecordingFrame, stateVars,
         tuneVars, sleepVars, liveVars, timeVars, recorderVars, dbVars, clientVars
  <2>6. RowType'
    <3>1. program[c] \in Recs
      BY StartProgram DEF StartStops
    <3>2. QED
      BY <1>0, <3>1 DEF RowType, StatusMap, DataType, StartStops, Of, StartRecordingFrame, dbVars
  <2>7. ClientType'
    BY <1>0, SetsAssumption DEF ClientType, StartStops, Resumes, StartRecordingFrame, stateVars,
         tuneVars, sleepVars, liveVars, timeVars, recorderVars, dbVars, clientVars, RecStatuses,
         DataType
  <2>8. QED
    BY <2>1, <2>2, <2>3, <2>4, <2>5, <2>6, <2>7, TypePartsNext
<1>50. \A c \in Clients : StartDecides(c) => TypeOK'
  <2>. SUFFICES ASSUME NEW c \in Clients, StartDecides(c) PROVE TypeOK'
    OBVIOUS
  <2>1. EventType'
    BY <1>0, SetsAssumption DEF EventType, StartDecides, StartBegins, StartInLive, StartRefused,
         NewRow, NoStateChange, ChangeState, Of, Wait, Resumes, StartRecordingFrame, stateVars,
         tuneVars, sleepVars, liveVars, timeVars, recorderVars, dbVars, clientVars, States,
         Flags, PendingActions
  <2>2. QueueType'
    BY <1>0, SetsAssumption DEF QueueType, StartDecides, StartBegins, StartInLive, StartRefused,
         NewRow, NoStateChange, ChangeState, Of, Wait, Resumes, StartRecordingFrame, stateVars,
         tuneVars, sleepVars, liveVars, timeVars, recorderVars, dbVars, clientVars, Requests,
         RequestFlags, NoRec, Recs
  <2>3. DataType'
    <3>1. program[c] \in Recs
      BY StartProgram DEF StartDecides
    <3>2. QED
      BY <1>0, <3>1 DEF DataType, RecStatuses, StartDecides, StartBegins, StartInLive, StartRefused,
         StartRecordingFrame, liveVars, recorderVars
  <2>4. FlagType'
    BY <1>0, Zenon DEF FlagType, StartDecides, StartBegins, StartInLive, StartRefused, NewRow,
         NoStateChange, ChangeState, Of, Wait, Resumes, StartRecordingFrame, stateVars,
         tuneVars, sleepVars, liveVars, timeVars, recorderVars, dbVars, clientVars
  <2>5. TimeType'
    BY <1>0, SetsAssumption DEF TimeType, StartDecides, StartBegins, StartInLive, StartRefused,
         NewRow, NoStateChange, ChangeState, Of, Wait, Resumes, StartRecordingFrame, stateVars,
         tuneVars, sleepVars, liveVars, timeVars, recorderVars, dbVars, clientVars
  <2>6. RowType'
    <3>1. program[c] \in Recs
      BY StartProgram DEF StartDecides
    <3>2. QED
      BY <1>0, <3>1 DEF RowType, StatusMap, DataType, StartDecides, StartBegins, StartInLive,
           StartRefused,
         NewRow, Of, StartRecordingFrame, dbVars
  <2>7. ClientType'
    BY <1>0, SetsAssumption DEF ClientType, StartDecides, StartBegins, StartInLive,
         StartRefused, NewRow, NoStateChange, ChangeState, Of, Wait, Resumes,
         StartRecordingFrame, stateVars, tuneVars, sleepVars, liveVars, timeVars, recorderVars,
         dbVars, clientVars, RecStatuses, DataType
  <2>8. QED
    BY <2>1, <2>2, <2>3, <2>4, <2>5, <2>6, <2>7, TypePartsNext
<1>51. \A c \in Clients : StartEnds(c) => TypeOK'
  <2>. SUFFICES ASSUME NEW c \in Clients, StartEnds(c) PROVE TypeOK'
    OBVIOUS
  <2>1. EventType'
    BY <1>0, SetsAssumption DEF EventType, StartEnds, Resumes, StartReturns, Returns,
         StartRecordingFrame, stateVars, tuneVars, sleepVars, liveVars, timeVars, recorderVars,
         dbVars, clientVars, States, Flags, PendingActions
  <2>2. QueueType'
    BY <1>0, SetsAssumption DEF QueueType, StartEnds, Resumes, StartReturns, Returns,
         StartRecordingFrame, stateVars, tuneVars, sleepVars, liveVars, timeVars, recorderVars,
         dbVars, clientVars, Requests, RequestFlags, NoRec, Recs
  <2>3. DataType'
    BY <1>0, SetsAssumption DEF DataType, StartEnds, Resumes, StartReturns, Returns,
         StartRecordingFrame, stateVars, tuneVars, sleepVars, liveVars, timeVars, recorderVars,
         dbVars, clientVars, Recs, RecStatuses
  <2>4. FlagType'
    BY <1>0, Zenon DEF FlagType, StartEnds, Resumes, StartReturns, Returns, StartRecordingFrame,
         stateVars, tuneVars, sleepVars, liveVars, timeVars, recorderVars, dbVars, clientVars
  <2>5. TimeType'
    BY <1>0, SetsAssumption DEF TimeType, StartEnds, Resumes, StartReturns, Returns,
         StartRecordingFrame, stateVars, tuneVars, sleepVars, liveVars, timeVars, recorderVars,
         dbVars, clientVars
  <2>6. RowType'
    BY <1>0, SetsAssumption DEF RowType, StartEnds, Resumes, StartReturns, Returns,
         StartRecordingFrame, stateVars, tuneVars, sleepVars, liveVars, timeVars, recorderVars,
         dbVars, clientVars, StatusMap, Recs, DataType
  <2>7. ClientType'
    BY <1>0, SetsAssumption DEF ClientType, StartEnds, Resumes, StartReturns, Returns,
         StartRecordingFrame, stateVars, tuneVars, sleepVars, liveVars, timeVars, recorderVars,
         dbVars, clientVars, RecStatuses, DataType
  <2>8. QED
    BY <2>1, <2>2, <2>3, <2>4, <2>5, <2>6, <2>7, TypePartsNext
<1>52. \A c \in Clients : StopLooks(c) => TypeOK'
  BY SetsAssumption DEF StopLooks, StopReturn, StopFrame, TypeOK, Requests, RequestFlags, NoRec,
         RecStatuses, States, Flags, PendingActions, Recs, stateVars, tuneVars, sleepVars,
         liveVars, timeVars, recorderVars, dbVars, clientVars
<1>53. \A c \in Clients : StopAsks(c) => TypeOK'
  BY SetsAssumption DEF StopAsks, RemoveRecording, StateIsRecording, ChangeState, Of, Wait,
         StopFrame, TypeOK, Requests, RequestFlags, NoRec, RecStatuses, States, Flags,
         PendingActions, Recs, stateVars, tuneVars, sleepVars, liveVars, timeVars, recorderVars,
         dbVars, clientVars
<1>54. \A c \in Clients : StopEnds(c) => TypeOK'
  BY SetsAssumption DEF StopEnds, Resumes, StopReturn, StopFrame, TypeOK, Requests,
         RequestFlags, NoRec, RecStatuses, States, Flags, PendingActions, Recs, stateVars,
         tuneVars, sleepVars, liveVars, timeVars, recorderVars, dbVars, clientVars
<1>55. \A c \in Clients : SpawnEnds(c) => TypeOK'
  BY SetsAssumption DEF SpawnEnds, Resumes, Returns, LiveFrame, TypeOK, Requests, RequestFlags,
         NoRec, RecStatuses, States, Flags, PendingActions, Recs, stateVars, tuneVars,
         sleepVars, liveVars, timeVars, recorderVars, dbVars, clientVars
<1>56. \A c \in Clients : StopLiveEnds(c) => TypeOK'
  <2>. SUFFICES ASSUME NEW c \in Clients, StopLiveEnds(c) PROVE TypeOK'
    OBVIOUS
  <2>1. EventType'
    BY <1>0, SetsAssumption DEF EventType, StopLiveEnds, Resumes, Returns, LiveFrame, stateVars,
         tuneVars, sleepVars, liveVars, timeVars, recorderVars, dbVars, clientVars, States,
         Flags, PendingActions
  <2>2. QueueType'
    BY <1>0, SetsAssumption DEF QueueType, StopLiveEnds, Resumes, Returns, LiveFrame, stateVars,
         tuneVars, sleepVars, liveVars, timeVars, recorderVars, dbVars, clientVars, Requests,
         RequestFlags, NoRec, Recs
  <2>3. DataType'
    BY <1>0, SetsAssumption DEF DataType, StopLiveEnds, Resumes, Returns, LiveFrame, stateVars,
         tuneVars, sleepVars, liveVars, timeVars, recorderVars, dbVars, clientVars, Recs,
         RecStatuses
  <2>4. FlagType'
    BY <1>0, Zenon DEF FlagType, StopLiveEnds, Resumes, Returns, LiveFrame, stateVars, tuneVars,
         sleepVars, liveVars, timeVars, recorderVars, dbVars, clientVars
  <2>5. TimeType'
    BY <1>0, SetsAssumption DEF TimeType, StopLiveEnds, Resumes, Returns, LiveFrame, stateVars,
         tuneVars, sleepVars, liveVars, timeVars, recorderVars, dbVars, clientVars
  <2>6. RowType'
    BY <1>0, SetsAssumption DEF RowType, StopLiveEnds, Resumes, Returns, LiveFrame, stateVars,
         tuneVars, sleepVars, liveVars, timeVars, recorderVars, dbVars, clientVars, StatusMap,
         Recs, DataType
  <2>7. ClientType'
    BY <1>0, SetsAssumption DEF ClientType, StopLiveEnds, Resumes, Returns, LiveFrame,
         stateVars, tuneVars, sleepVars, liveVars, timeVars, recorderVars, dbVars, clientVars,
         RecStatuses, DataType
  <2>8. QED
    BY <2>1, <2>2, <2>3, <2>4, <2>5, <2>6, <2>7, TypePartsNext
<1>57. \A c \in Clients : SetChannel(c) => TypeOK'
  BY SetsAssumption DEF SetChannel, Resumes, Request, Wait, LiveFrame, TypeOK, Requests,
         RequestFlags, NoRec, RecStatuses, States, Flags, PendingActions, Recs, stateVars,
         tuneVars, sleepVars, liveVars, timeVars, recorderVars, dbVars, clientVars
<1>58. \A c \in Clients : SetChannelEnds(c) => TypeOK'
  BY SetsAssumption DEF SetChannelEnds, Resumes, Wait, Returns, LiveFrame, TypeOK, Requests,
         RequestFlags, NoRec, RecStatuses, States, Flags, PendingActions, Recs, stateVars,
         tuneVars, sleepVars, liveVars, timeVars, recorderVars, dbVars, clientVars
<1>59. QED
  BY <1>1, <1>2, <1>3, <1>4, <1>5, <1>6, <1>7, <1>8, <1>9, <1>10, <1>11, <1>12, <1>13, <1>14,
             <1>15, <1>16, <1>17, <1>18, <1>19, <1>20, <1>21, <1>22, <1>23, <1>24, <1>25,
             <1>26, <1>27, <1>28, <1>29, <1>30, <1>31, <1>32, <1>33, <1>34, <1>35, <1>36,
             <1>37, <1>38, <1>39, <1>40, <1>41, <1>42, <1>43, <1>44, <1>45, <1>46, <1>47,
             <1>48, <1>49, <1>50, <1>51, <1>52, <1>53, <1>54, <1>55, <1>56, <1>57, <1>58
     DEF Next, EventThread, HandleTuning, TuningFrequency, Recorder, Call, Continue

-----------------------------------------------------------------------------
(* Calls *)

\* Only clients change what they are at.
LEMMA CallsUntouched ==
  ASSUME EventThread \/ Recorder \/ TimePasses
  PROVE  UNCHANGED clientVars
<1>1. HandleStateChange => UNCHANGED clientVars
  BY DEF HandleStateChange, EventFrame, FrequencyFrame, StartFrame, LoopFrame, CheckLiveFrame, ElseFrame
<1>2. TuningShutdowns => UNCHANGED clientVars
  BY DEF TuningShutdowns, EventFrame, FrequencyFrame, StartFrame, LoopFrame, CheckLiveFrame, ElseFrame
<1>3. TeardownStop => UNCHANGED clientVars
  BY DEF TeardownStop, EventFrame, FrequencyFrame, StartFrame, LoopFrame, CheckLiveFrame, ElseFrame
<1>4. TeardownFinish => UNCHANGED clientVars
  BY DEF TeardownFinish, EventFrame, FrequencyFrame, StartFrame, LoopFrame, CheckLiveFrame, ElseFrame
<1>5. TeardownEnd => UNCHANGED clientVars
  BY DEF TeardownEnd, EventFrame, FrequencyFrame, StartFrame, LoopFrame, CheckLiveFrame, ElseFrame
<1>6. RequestTaken => UNCHANGED clientVars
  BY DEF RequestTaken, EventFrame, FrequencyFrame, StartFrame, LoopFrame, CheckLiveFrame, ElseFrame
<1>7. WaitForRecPause => UNCHANGED clientVars
  BY DEF WaitForRecPause, EventFrame, FrequencyFrame, StartFrame, LoopFrame, CheckLiveFrame, ElseFrame
<1>8. TuningFails => UNCHANGED clientVars
  BY DEF TuningFails, EventFrame, FrequencyFrame, StartFrame, LoopFrame, CheckLiveFrame, ElseFrame
<1>9. TuningOnSameMultiplex => UNCHANGED clientVars
  BY DEF TuningOnSameMultiplex, EventFrame, FrequencyFrame, StartFrame, LoopFrame, CheckLiveFrame,
       ElseFrame
<1>10. TuningRecording => UNCHANGED clientVars
  BY DEF TuningRecording, EventFrame, FrequencyFrame, StartFrame, LoopFrame, CheckLiveFrame, ElseFrame
<1>11. TuningLive => UNCHANGED clientVars
  BY DEF TuningLive, EventFrame, FrequencyFrame, StartFrame, LoopFrame, CheckLiveFrame, ElseFrame
<1>12. TuningLiveFails => UNCHANGED clientVars
  BY DEF TuningLiveFails, EventFrame, FrequencyFrame, StartFrame, LoopFrame, CheckLiveFrame, ElseFrame
<1>13. TuningSignalCheck => UNCHANGED clientVars
  BY DEF TuningSignalCheck, EventFrame, FrequencyFrame, StartFrame, LoopFrame, CheckLiveFrame, ElseFrame
<1>14. NoSignalCheck => UNCHANGED clientVars
  BY DEF NoSignalCheck, EventFrame, FrequencyFrame, StartFrame, LoopFrame, CheckLiveFrame, ElseFrame
<1>15. NewRecorderLive => UNCHANGED clientVars
  BY DEF NewRecorderLive, EventFrame, FrequencyFrame, StartFrame, LoopFrame, CheckLiveFrame, ElseFrame
<1>16. NewRecorderFile => UNCHANGED clientVars
  BY DEF NewRecorderFile, EventFrame, FrequencyFrame, StartFrame, LoopFrame, CheckLiveFrame, ElseFrame
<1>17. NewRecorderCrash => UNCHANGED clientVars
  BY DEF NewRecorderCrash, EventFrame, FrequencyFrame, StartFrame, LoopFrame, CheckLiveFrame, ElseFrame
<1>18. NewRecorderNoFile => UNCHANGED clientVars
  BY DEF NewRecorderNoFile, EventFrame, FrequencyFrame, StartFrame, LoopFrame, CheckLiveFrame, ElseFrame
<1>19. CreateRecorder => UNCHANGED clientVars
  BY DEF CreateRecorder, EventFrame, FrequencyFrame, StartFrame, LoopFrame, CheckLiveFrame, ElseFrame
<1>20. CreateRecorderFails => UNCHANGED clientVars
  BY DEF CreateRecorderFails, EventFrame, FrequencyFrame, StartFrame, LoopFrame, CheckLiveFrame,
       ElseFrame
<1>21. RecorderStarted => UNCHANGED clientVars
  BY DEF RecorderStarted, EventFrame, FrequencyFrame, StartFrame, LoopFrame, CheckLiveFrame, ElseFrame
<1>22. TuningRestartRecorder => UNCHANGED clientVars
  BY DEF TuningRestartRecorder, EventFrame, FrequencyFrame, StartFrame, LoopFrame, CheckLiveFrame,
       ElseFrame
<1>23. TuningRestartFails => UNCHANGED clientVars
  BY DEF TuningRestartFails, EventFrame, FrequencyFrame, StartFrame, LoopFrame, CheckLiveFrame,
       ElseFrame
<1>24. HandlePendingRecordings => UNCHANGED clientVars
  BY DEF HandlePendingRecordings, EventFrame, FrequencyFrame, StartFrame, LoopFrame, CheckLiveFrame,
       ElseFrame
<1>25. CheckEnd => UNCHANGED clientVars
  BY DEF CheckEnd, EventFrame, FrequencyFrame, StartFrame, LoopFrame, CheckLiveFrame, ElseFrame
<1>26. CheckLive => UNCHANGED clientVars
  BY DEF CheckLive, EventFrame, FrequencyFrame, StartFrame, LoopFrame, CheckLiveFrame, ElseFrame
<1>27. SwitchLive => UNCHANGED clientVars
  BY DEF SwitchLive, EventFrame, FrequencyFrame, StartFrame, LoopFrame, CheckLiveFrame, ElseFrame
<1>28. RecorderRuns => UNCHANGED clientVars
  BY DEF RecorderRuns, EventFrame, FrequencyFrame, StartFrame, LoopFrame, CheckLiveFrame, ElseFrame
<1>29. RecorderErrs => UNCHANGED clientVars
  BY DEF RecorderErrs, EventFrame, FrequencyFrame, StartFrame, LoopFrame, CheckLiveFrame, ElseFrame
<1>30. RecorderPauses => UNCHANGED clientVars
  BY DEF RecorderPauses, EventFrame, FrequencyFrame, StartFrame, LoopFrame, CheckLiveFrame, ElseFrame
<1>31. RingBufferChanged => UNCHANGED clientVars
  BY DEF RingBufferChanged, EventFrame, FrequencyFrame, StartFrame, LoopFrame, CheckLiveFrame, ElseFrame
<1>32. TimePasses => UNCHANGED clientVars
  BY DEF TimePasses, EventFrame, FrequencyFrame, StartFrame, LoopFrame, CheckLiveFrame, ElseFrame
<1>33. QED
  BY <1>1, <1>2, <1>3, <1>4, <1>5, <1>6, <1>7, <1>8, <1>9, <1>10, <1>11, <1>12, <1>13, <1>14,
         <1>15, <1>16, <1>17, <1>18, <1>19, <1>20, <1>21, <1>22, <1>23, <1>24, <1>25, <1>26,
         <1>27, <1>28, <1>29, <1>30, <1>31, <1>32
     DEF EventThread, HandleTuning, TuningFrequency, Recorder

\* Every step preserves ProgramGiven.
LEMMA ProgramStep ==
  ASSUME TypeOK, ProgramGiven, Next
  PROVE  ProgramGiven'
<1>1. CASE EventThread \/ Recorder \/ TimePasses
  BY <1>1, CallsUntouched DEF ProgramGiven, clientVars
<1>2. CASE KeepLive
  BY <1>2 DEF ProgramGiven, KeepLive
<1>3. ASSUME NEW c \in Clients, NEW p \in Programs, StartRecording(c, p) PROVE ProgramGiven'
  BY <1>3, SetsAssumption DEF ProgramGiven, TypeOK, StartRecording, Begins, Wait,
         StartRecordingFrame
<1>4. ASSUME NEW c \in Clients, StopRecording(c) PROVE ProgramGiven'
  BY <1>4, SetsAssumption DEF ProgramGiven, TypeOK, StopRecording, Begins, StopFrame
<1>5. ASSUME NEW c \in Clients, FinishRecording(c) PROVE ProgramGiven'
  BY <1>5, SetsAssumption DEF ProgramGiven, TypeOK, FinishRecording, Begins, StopFrame
<1>6. ASSUME NEW c \in Clients, SpawnLiveTV(c) PROVE ProgramGiven'
  BY <1>6, SetsAssumption DEF ProgramGiven, TypeOK, SpawnLiveTV, Begins, ChangeState, Wait,
         LiveFrame
<1>7. ASSUME NEW c \in Clients, StopLiveTV(c) PROVE ProgramGiven'
  BY <1>7, SetsAssumption DEF ProgramGiven, TypeOK, StopLiveTV, Begins, PseudoChecked,
         NotifyScheduler, Notified, Set, ChangeState, Wait, LiveFrame
<1>8. ASSUME NEW c \in Clients, SetLiveRecording(c) PROVE ProgramGiven'
  BY <1>8, SetsAssumption DEF ProgramGiven, TypeOK, SetLiveRecording, Begins, PseudoChecked,
         Notified, Set, LiveFrame
<1>9. ASSUME NEW c \in Clients, PauseRecorder(c) PROVE ProgramGiven'
  BY <1>9, SetsAssumption DEF ProgramGiven, TypeOK, PauseRecorder, Begins, Wait, LiveFrame
<1>10. ASSUME NEW c \in Clients, RecordPending(c) PROVE ProgramGiven'
  BY <1>10, SetsAssumption DEF ProgramGiven, TypeOK, RecordPending, Begins, PendFrame
<1>11. ASSUME NEW c \in Clients, CancelNextRecording(c) PROVE ProgramGiven'
  BY <1>11, SetsAssumption DEF ProgramGiven, TypeOK, CancelNextRecording, Begins, PendFrame
<1>12. ASSUME NEW c \in Clients, Doze(c) PROVE ProgramGiven'
  BY <1>12, SetsAssumption DEF ProgramGiven, TypeOK, Doze, WaitFrame
<1>13. ASSUME NEW c \in Clients, Woken(c) PROVE ProgramGiven'
  BY <1>13, SetsAssumption DEF ProgramGiven, TypeOK, Woken, WaitFrame
<1>14. ASSUME NEW c \in Clients, Relock(c) PROVE ProgramGiven'
  BY <1>14, SetsAssumption DEF ProgramGiven, TypeOK, Relock, WaitFrame
<1>15. ASSUME NEW c \in Clients, StartExtends(c) PROVE ProgramGiven'
  BY <1>15, SetsAssumption DEF ProgramGiven, TypeOK, StartExtends, Resumes, StartReturns,
         Returns, StartRecordingFrame
<1>16. ASSUME NEW c \in Clients, StartAsks(c) PROVE ProgramGiven'
  BY <1>16, SetsAssumption DEF ProgramGiven, TypeOK, StartAsks, Resumes, Wait,
         StartRecordingFrame
<1>17. ASSUME NEW c \in Clients, StartSwitches(c) PROVE ProgramGiven'
  BY <1>17, SetsAssumption DEF ProgramGiven, TypeOK, StartSwitches, Resumes, Of, StartReturns,
         Returns, StartRecordingFrame
<1>18. ASSUME NEW c \in Clients, StartStops(c) PROVE ProgramGiven'
  BY <1>18, SetsAssumption DEF ProgramGiven, TypeOK, StartStops, Resumes, StartRecordingFrame
<1>19. ASSUME NEW c \in Clients, StartDecides(c) PROVE ProgramGiven'
  BY <1>19, SetsAssumption DEF ProgramGiven, TypeOK, StartDecides, StartBegins, StartInLive,
         StartRefused, NewRow, NoStateChange, ChangeState, Of, Wait, Resumes,
         StartRecordingFrame
<1>20. ASSUME NEW c \in Clients, StartEnds(c) PROVE ProgramGiven'
  BY <1>20, SetsAssumption DEF ProgramGiven, TypeOK, StartEnds, Resumes, StartReturns, Returns,
         StartRecordingFrame
<1>21. ASSUME NEW c \in Clients, StopLooks(c) PROVE ProgramGiven'
  BY <1>21, SetsAssumption DEF ProgramGiven, TypeOK, StopLooks, StopReturn, StopFrame
<1>22. ASSUME NEW c \in Clients, StopAsks(c) PROVE ProgramGiven'
  BY <1>22, SetsAssumption DEF ProgramGiven, TypeOK, StopAsks, RemoveRecording,
         StateIsRecording, ChangeState, Of, Wait, StopFrame
<1>23. ASSUME NEW c \in Clients, StopEnds(c) PROVE ProgramGiven'
  BY <1>23, SetsAssumption DEF ProgramGiven, TypeOK, StopEnds, Resumes, StopReturn, StopFrame
<1>24. ASSUME NEW c \in Clients, SpawnEnds(c) PROVE ProgramGiven'
  BY <1>24, SetsAssumption DEF ProgramGiven, TypeOK, SpawnEnds, Resumes, Returns, LiveFrame
<1>25. ASSUME NEW c \in Clients, StopLiveEnds(c) PROVE ProgramGiven'
  BY <1>25, SetsAssumption DEF ProgramGiven, TypeOK, StopLiveEnds, Resumes, Returns, LiveFrame
<1>26. ASSUME NEW c \in Clients, SetChannel(c) PROVE ProgramGiven'
  BY <1>26, SetsAssumption DEF ProgramGiven, TypeOK, SetChannel, Resumes, Request, Wait,
         LiveFrame
<1>27. ASSUME NEW c \in Clients, SetChannelEnds(c) PROVE ProgramGiven'
  BY <1>27, SetsAssumption DEF ProgramGiven, TypeOK, SetChannelEnds, Resumes, Wait, Returns,
         LiveFrame
<1>28. QED
  BY <1>1, <1>2, <1>3, <1>4, <1>5, <1>6, <1>7, <1>8, <1>9, <1>10, <1>11, <1>12, <1>13, <1>14,
         <1>15, <1>16, <1>17, <1>18, <1>19, <1>20, <1>21, <1>22, <1>23, <1>24, <1>25, <1>26,
         <1>27
     DEF Next, Call, Continue

\* The steps of clients, time and the recorder's thread but RingBufferChanged
\* are of one of the forms of Other.
LEMMA OtherStep ==
  ASSUME TypeOK, ProgramGiven, Next, ~ EventThread, ~ RingBufferChanged
  PROVE  Other
<1>1. CASE RecorderRuns
  BY <1>1 DEF Other, Quiet, CoreFlags, PendingActions, RowsFrame, OtherFrame, stateVars,
         tuneVars, sleepVars, liveVars, timeVars, recorderVars, dbVars, clientVars,
         RecorderRuns, ElseFrame
<1>2. CASE RecorderErrs
  BY <1>2 DEF Other, Quiet, CoreFlags, PendingActions, RowsFrame, OtherFrame, stateVars,
         tuneVars, sleepVars, liveVars, timeVars, recorderVars, dbVars, clientVars,
         RecorderErrs, ElseFrame
<1>3. CASE RecorderPauses
  BY <1>3 DEF Other, Quiet, CoreFlags, PendingActions, RowsFrame, OtherFrame, stateVars,
         tuneVars, sleepVars, liveVars, timeVars, recorderVars, dbVars, clientVars,
         RecorderPauses, ElseFrame
<1>4. CASE TimePasses
  BY <1>4 DEF Other, Quiet, CoreFlags, PendingActions, RowsFrame, OtherFrame, stateVars,
         tuneVars, sleepVars, liveVars, timeVars, recorderVars, dbVars, clientVars, TimePasses,
         ElseFrame
<1>5. CASE KeepLive
  BY <1>5 DEF Other, Quiet, CoreFlags, PendingActions, RowsFrame, OtherFrame, stateVars,
         tuneVars, sleepVars, liveVars, timeVars, recorderVars, dbVars, clientVars, KeepLive
<1>6. ASSUME NEW c \in Clients, NEW p \in Programs, StartRecording(c, p) PROVE Other
  BY <1>6 DEF Other, Quiet, CoreFlags, PendingActions, RowsFrame, OtherFrame, stateVars,
         tuneVars, sleepVars, liveVars, timeVars, recorderVars, dbVars, clientVars,
         StartRecording, Begins, Wait, StartRecordingFrame
<1>7. ASSUME NEW c \in Clients, StopRecording(c) PROVE Other
  BY <1>7 DEF Other, Quiet, CoreFlags, PendingActions, RowsFrame, OtherFrame, stateVars,
         tuneVars, sleepVars, liveVars, timeVars, recorderVars, dbVars, clientVars,
         StopRecording, Begins, StopFrame
<1>8. ASSUME NEW c \in Clients, FinishRecording(c) PROVE Other
  BY <1>8 DEF Other, Quiet, CoreFlags, PendingActions, RowsFrame, OtherFrame, stateVars,
         tuneVars, sleepVars, liveVars, timeVars, recorderVars, dbVars, clientVars,
         FinishRecording, Begins, StopFrame
<1>9. ASSUME NEW c \in Clients, SpawnLiveTV(c) PROVE Other
  <2>1. OtherFrame
    BY <1>9 DEF CoreFlags, PendingActions, RowsFrame, OtherFrame, stateVars, tuneVars,
         sleepVars, liveVars, timeVars, recorderVars, dbVars, clientVars, SpawnLiveTV, Begins,
         ChangeState, Wait, LiveFrame
  <2>2. Spawns
    BY <1>9 DEF Spawns, SpawnLiveTV, Begins, ChangeState, Wait, LiveFrame, RowsFrame, GetState,
         TypeOK, stateVars, tuneVars, sleepVars, liveVars, timeVars, recorderVars, dbVars,
         clientVars
  <2>3. QED BY <2>1, <2>2 DEF Other
<1>10. ASSUME NEW c \in Clients, StopLiveTV(c) PROVE Other
  <2>1. OtherFrame
    BY <1>10 DEF CoreFlags, PendingActions, RowsFrame, OtherFrame, stateVars, tuneVars,
         sleepVars, liveVars, timeVars, recorderVars, dbVars, clientVars, StopLiveTV, Begins,
         PseudoChecked, NotifyScheduler, Notified, Set, ChangeState, Wait, LiveFrame
  <2>2. LeavesLive
    BY <1>10 DEF LeavesLive, StopLiveTV, Begins, PseudoChecked, NotifyScheduler, Notified, Set,
         ChangeState, Wait, LiveFrame, RowsFrame, GetState, TypeOK, stateVars, tuneVars,
         sleepVars, liveVars, timeVars, recorderVars, dbVars, clientVars
  <2>3. QED BY <2>1, <2>2 DEF Other
<1>11. ASSUME NEW c \in Clients, SetLiveRecording(c) PROVE Other
  BY <1>11 DEF Other, Quiet, CoreFlags, PendingActions, RowsFrame, OtherFrame, stateVars,
         tuneVars, sleepVars, liveVars, timeVars, recorderVars, dbVars, clientVars,
         SetLiveRecording, Begins, PseudoChecked, Notified, Set, LiveFrame
<1>12. ASSUME NEW c \in Clients, PauseRecorder(c) PROVE Other
  BY <1>12 DEF Other, Quiet, CoreFlags, PendingActions, RowsFrame, OtherFrame, stateVars,
         tuneVars, sleepVars, liveVars, timeVars, recorderVars, dbVars, clientVars,
         PauseRecorder, Begins, Wait, LiveFrame
<1>13. ASSUME NEW c \in Clients, RecordPending(c) PROVE Other
  BY <1>13 DEF Other, Quiet, CoreFlags, PendingActions, RowsFrame, OtherFrame, stateVars,
         tuneVars, sleepVars, liveVars, timeVars, recorderVars, dbVars, clientVars,
         RecordPending, Begins, PendFrame
<1>14. ASSUME NEW c \in Clients, CancelNextRecording(c) PROVE Other
  BY <1>14 DEF Other, Quiet, CoreFlags, PendingActions, RowsFrame, OtherFrame, stateVars,
         tuneVars, sleepVars, liveVars, timeVars, recorderVars, dbVars, clientVars,
         CancelNextRecording, Begins, PendFrame
<1>15. ASSUME NEW c \in Clients, Doze(c) PROVE Other
  BY <1>15 DEF Other, Quiet, CoreFlags, PendingActions, RowsFrame, OtherFrame, stateVars,
         tuneVars, sleepVars, liveVars, timeVars, recorderVars, dbVars, clientVars, Doze,
         WaitFrame
<1>16. ASSUME NEW c \in Clients, Woken(c) PROVE Other
  BY <1>16 DEF Other, Quiet, CoreFlags, PendingActions, RowsFrame, OtherFrame, stateVars,
         tuneVars, sleepVars, liveVars, timeVars, recorderVars, dbVars, clientVars, Woken,
         WaitFrame
<1>17. ASSUME NEW c \in Clients, Relock(c) PROVE Other
  BY <1>17 DEF Other, Quiet, CoreFlags, PendingActions, RowsFrame, OtherFrame, stateVars,
         tuneVars, sleepVars, liveVars, timeVars, recorderVars, dbVars, clientVars, Relock,
         WaitFrame
<1>18. ASSUME NEW c \in Clients, StartExtends(c) PROVE Other
  BY <1>18 DEF Other, Quiet, CoreFlags, PendingActions, RowsFrame, OtherFrame, stateVars,
         tuneVars, sleepVars, liveVars, timeVars, recorderVars, dbVars, clientVars,
         StartExtends, Resumes, StartReturns, Returns, StartRecordingFrame
<1>19. ASSUME NEW c \in Clients, StartAsks(c) PROVE Other
  BY <1>19 DEF Other, Quiet, CoreFlags, PendingActions, RowsFrame, OtherFrame, stateVars,
         tuneVars, sleepVars, liveVars, timeVars, recorderVars, dbVars, clientVars, StartAsks,
         Resumes, Wait, StartRecordingFrame
<1>20. ASSUME NEW c \in Clients, StartSwitches(c) PROVE Other
  BY <1>20 DEF Other, Quiet, CoreFlags, PendingActions, RowsFrame, OtherFrame, stateVars,
         tuneVars, sleepVars, liveVars, timeVars, recorderVars, dbVars, clientVars,
         StartSwitches, Resumes, Of, StartReturns, Returns, StartRecordingFrame
<1>21. ASSUME NEW c \in Clients, StartStops(c) PROVE Other
  BY <1>21 DEF Other, Quiet, CoreFlags, PendingActions, RowsFrame, OtherFrame, stateVars,
         tuneVars, sleepVars, liveVars, timeVars, recorderVars, dbVars, clientVars, StartStops,
         Resumes, StartRecordingFrame
<1>22. ASSUME NEW c \in Clients, StartDecides(c) PROVE Other
  <2>1. program[c] \in Programs
    BY <1>22, StartProgram DEF StartDecides
  <2>2. OtherFrame
    BY <1>22 DEF CoreFlags, PendingActions, RowsFrame, OtherFrame, stateVars, tuneVars,
         sleepVars, liveVars, timeVars, recorderVars, dbVars, clientVars, StartDecides,
         StartBegins, StartInLive, StartRefused, StartRecordingFrame, Of
  <2>3. CASE StartBegins(c)
    <3>1. BeginsRecording
      BY <1>22, <2>1, <2>3 DEF BeginsRecording, StartDecides, StartBegins, Resumes, GetState,
           ChangeState,
         StartRecordingFrame, tuneVars
    <3>2. QED BY <2>2, <3>1 DEF Other
  <2>4. CASE StartInLive(c) \/ StartRefused(c)
    BY <1>22, <2>2, <2>4 DEF Other, Quiet, RowsFrame, StartDecides, StartInLive, StartRefused,
       NoStateChange, StartRecordingFrame, tuneVars, dbVars
  <2>5. QED BY <1>22, <2>3, <2>4 DEF StartDecides
<1>23. ASSUME NEW c \in Clients, StartEnds(c) PROVE Other
  BY <1>23 DEF Other, Quiet, CoreFlags, PendingActions, RowsFrame, OtherFrame, stateVars,
         tuneVars, sleepVars, liveVars, timeVars, recorderVars, dbVars, clientVars, StartEnds,
         Resumes, StartReturns, Returns, StartRecordingFrame
<1>24. ASSUME NEW c \in Clients, StopLooks(c) PROVE Other
  BY <1>24 DEF Other, Quiet, CoreFlags, PendingActions, RowsFrame, OtherFrame, stateVars,
         tuneVars, sleepVars, liveVars, timeVars, recorderVars, dbVars, clientVars, StopLooks,
         StopReturn, StopFrame
<1>25. ASSUME NEW c \in Clients, StopAsks(c) PROVE Other
  <2>1. OtherFrame
    BY <1>25 DEF CoreFlags, PendingActions, RowsFrame, OtherFrame, stateVars, tuneVars,
         sleepVars, liveVars, timeVars, recorderVars, dbVars, clientVars, StopAsks,
         RemoveRecording, StateIsRecording, ChangeState, Of, Wait, StopFrame
  <2>2. Asks
    BY <1>25 DEF Asks, StopAsks, RemoveRecording, StateIsRecording, ChangeState, Of, Wait,
         StopFrame, RowsFrame, GetState, TypeOK, stateVars, tuneVars, sleepVars, liveVars,
         timeVars, recorderVars, dbVars, clientVars
  <2>3. QED BY <2>1, <2>2 DEF Other
<1>26. ASSUME NEW c \in Clients, StopEnds(c) PROVE Other
  BY <1>26 DEF Other, Quiet, CoreFlags, PendingActions, RowsFrame, OtherFrame, stateVars,
         tuneVars, sleepVars, liveVars, timeVars, recorderVars, dbVars, clientVars, StopEnds,
         Resumes, StopReturn, StopFrame
<1>27. ASSUME NEW c \in Clients, SpawnEnds(c) PROVE Other
  BY <1>27 DEF Other, Quiet, CoreFlags, PendingActions, RowsFrame, OtherFrame, stateVars,
         tuneVars, sleepVars, liveVars, timeVars, recorderVars, dbVars, clientVars, SpawnEnds,
         Resumes, Returns, LiveFrame
<1>28. ASSUME NEW c \in Clients, StopLiveEnds(c) PROVE Other
  BY <1>28 DEF Other, Quiet, CoreFlags, PendingActions, RowsFrame, OtherFrame, stateVars,
         tuneVars, sleepVars, liveVars, timeVars, recorderVars, dbVars, clientVars,
         StopLiveEnds, Resumes, Returns, LiveFrame
<1>29. ASSUME NEW c \in Clients, SetChannel(c) PROVE Other
  <2>1. OtherFrame
    BY <1>29 DEF CoreFlags, PendingActions, RowsFrame, OtherFrame, stateVars, tuneVars,
         sleepVars, liveVars, timeVars, recorderVars, dbVars, clientVars, SetChannel, Resumes,
         Request, Wait, LiveFrame
  <2>2. Channels
    BY <1>29 DEF Channels, SetChannel, Resumes, Request, Wait, LiveFrame, RowsFrame, GetState,
         TypeOK, stateVars, tuneVars, sleepVars, liveVars, timeVars, recorderVars, dbVars,
         clientVars
  <2>3. QED BY <2>1, <2>2 DEF Other
<1>30. ASSUME NEW c \in Clients, SetChannelEnds(c) PROVE Other
  BY <1>30 DEF Other, Quiet, CoreFlags, PendingActions, RowsFrame, OtherFrame, stateVars,
         tuneVars, sleepVars, liveVars, timeVars, recorderVars, dbVars, clientVars,
         SetChannelEnds, Resumes, Wait, Returns, LiveFrame
<1>31. QED
  BY <1>1, <1>2, <1>3, <1>4, <1>5, <1>6, <1>7, <1>8, <1>9, <1>10, <1>11, <1>12, <1>13, <1>14,
         <1>15, <1>16, <1>17, <1>18, <1>19, <1>20, <1>21, <1>22, <1>23, <1>24, <1>25, <1>26,
         <1>27, <1>28, <1>29, <1>30
     DEF Next, Recorder, Call, Continue

-----------------------------------------------------------------------------
(* The lock, the queue and the recorder *)

\* Every step preserves LockHeld.
LEMMA LockStep ==
  ASSUME TypeOK, ProgramGiven, LockHeld, Next
  PROVE  LockHeld'
<1>1. CASE HandleStateChange
  BY <1>1, SetsAssumption DEF HandleStateChange, Awake, PauseNext, TuningNext, PendingNext,
         LockHeld, Unlocked, TypeOK, tuneVars
<1>2. CASE TuningShutdowns
  BY <1>2, SetsAssumption DEF TuningShutdowns, LockHeld, Unlocked, TypeOK, tuneVars
<1>3. CASE TeardownStop
  BY <1>3, SetsAssumption DEF TeardownStop, LockHeld, Unlocked, TypeOK, tuneVars
<1>4. CASE TeardownFinish
  BY <1>4, SetsAssumption DEF TeardownFinish, LockHeld, Unlocked, TypeOK, tuneVars
<1>5. CASE TeardownEnd
  BY <1>5, SetsAssumption DEF TeardownEnd, LockHeld, Unlocked, TypeOK, tuneVars
<1>6. CASE RequestTaken
  BY <1>6, SetsAssumption DEF RequestTaken, PauseNext, TuningNext, PendingNext, LockHeld,
         Unlocked, TypeOK, tuneVars
<1>7. CASE WaitForRecPause
  BY <1>7, SetsAssumption DEF WaitForRecPause, PendingNext, LockHeld, Unlocked, TypeOK, tuneVars
<1>8. CASE TuningFails
  BY <1>8, SetsAssumption DEF TuningFails, TuningNext, PendingNext, FrequencyFrame, LockHeld,
         Unlocked, TypeOK, tuneVars
<1>9. CASE TuningOnSameMultiplex
  BY <1>9, SetsAssumption DEF TuningOnSameMultiplex, TuningNext, PendingNext, FrequencyFrame,
         LockHeld, Unlocked, TypeOK, tuneVars
<1>10. CASE TuningRecording
  BY <1>10, SetsAssumption DEF TuningRecording, TuningNext, PendingNext, FrequencyFrame,
         LockHeld, Unlocked, TypeOK, tuneVars
<1>11. CASE TuningLive
  BY <1>11, SetsAssumption DEF TuningLive, TuningNext, PendingNext, FrequencyFrame, LockHeld,
         Unlocked, TypeOK, tuneVars
<1>12. CASE TuningLiveFails
  BY <1>12, SetsAssumption DEF TuningLiveFails, TuningNext, PendingNext, FrequencyFrame,
         LockHeld, Unlocked, TypeOK, tuneVars
<1>13. CASE TuningSignalCheck
  BY <1>13, SetsAssumption DEF TuningSignalCheck, Signal, TuningNext, PendingNext, LockHeld,
         Unlocked, TypeOK, tuneVars
<1>14. CASE NoSignalCheck
  BY <1>14, SetsAssumption DEF NoSignalCheck, PendingNext, LockHeld, Unlocked, TypeOK, tuneVars
<1>15. CASE NewRecorderLive
  BY <1>15, SetsAssumption DEF NewRecorderLive, StartFrame, LockHeld, Unlocked, TypeOK, tuneVars
<1>16. CASE NewRecorderFile
  BY <1>16, SetsAssumption DEF NewRecorderFile, StartFrame, LockHeld, Unlocked, TypeOK, tuneVars
<1>17. CASE NewRecorderCrash
  BY <1>17, SetsAssumption DEF NewRecorderCrash, StartFrame, LockHeld, Unlocked, TypeOK,
         tuneVars
<1>18. CASE NewRecorderNoFile
  BY <1>18, SetsAssumption DEF NewRecorderNoFile, NewRecorderFailed, PendingNext, StartFrame,
         LockHeld, Unlocked, TypeOK, tuneVars
<1>19. CASE CreateRecorder
  BY <1>19, SetsAssumption DEF CreateRecorder, StartFrame, LockHeld, Unlocked, TypeOK, tuneVars
<1>20. CASE CreateRecorderFails
  BY <1>20, SetsAssumption DEF CreateRecorderFails, NewRecorderFailed, PendingNext, StartFrame,
         LockHeld, Unlocked, TypeOK, tuneVars
<1>21. CASE RecorderStarted
  BY <1>21, SetsAssumption DEF RecorderStarted, PendingNext, StartFrame, LockHeld, Unlocked,
         TypeOK, tuneVars
<1>22. CASE TuningRestartRecorder
  BY <1>22, SetsAssumption DEF TuningRestartRecorder, PendingNext, StartFrame, LockHeld,
         Unlocked, TypeOK, tuneVars
<1>23. CASE TuningRestartFails
  BY <1>23, SetsAssumption DEF TuningRestartFails, PendingNext, StartFrame, LockHeld, Unlocked,
         TypeOK, tuneVars
<1>24. CASE HandlePendingRecordings
  BY <1>24, SetsAssumption DEF HandlePendingRecordings, LoopFrame, LockHeld, Unlocked, TypeOK,
         tuneVars
<1>25. CASE CheckEnd
  BY <1>25, SetsAssumption DEF CheckEnd, Awake, LoopEnds, LoopFrame, LockHeld, Unlocked, TypeOK,
         tuneVars
<1>26. CASE CheckLive
  BY <1>26, SetsAssumption DEF CheckLive, CheckLiveFrame, LoopEnds, LoopFrame, LockHeld,
         Unlocked, TypeOK, tuneVars
<1>27. CASE SwitchLive
  BY <1>27, SetsAssumption DEF SwitchLive, CheckLiveFrame, LoopEnds, LoopFrame, LockHeld,
         Unlocked, TypeOK, tuneVars
<1>28. CASE RingBufferChanged
  BY <1>28, SetsAssumption DEF RingBufferChanged, ElseFrame, LockHeld, Unlocked, TypeOK,
         tuneVars
<1>29. CASE Other
  BY <1>29 DEF Other, OtherFrame, LockHeld, Unlocked
<1>30. QED
  BY OtherStep, <1>1, <1>2, <1>3, <1>4, <1>5, <1>6, <1>7, <1>8, <1>9, <1>10, <1>11, <1>12,
         <1>13, <1>14, <1>15, <1>16, <1>17, <1>18, <1>19, <1>20, <1>21, <1>22, <1>23, <1>24,
         <1>25, <1>26, <1>27, <1>28, <1>29
     DEF EventThread, HandleTuning, TuningFrequency

\* Every step preserves QueueFilled.
LEMMA FilledStep ==
  ASSUME TypeOK, ProgramGiven, QueueFilled, Next
  PROVE  QueueFilled'
<1>1. CASE HandleStateChange
  <2>1. m_tuningRequests \in Seq(Requests)
    BY DEF TypeOK
  <2>2. epc' \in Shutting => m_tuningRequests' # <<>>
    BY <1>1, <2>1 DEF HandleStateChange, Shutting, PauseNext, TuningNext, PendingNext
  <2>3. QED BY <2>2 DEF QueueFilled
<1>2. CASE TuningShutdowns
  BY <1>2 DEF TuningShutdowns, QueueFilled, Shutting, TypeOK, tuneVars
<1>3. CASE TeardownStop
  BY <1>3 DEF TeardownStop, QueueFilled, Shutting, TypeOK, tuneVars
<1>4. CASE TeardownFinish
  BY <1>4 DEF TeardownFinish, QueueFilled, Shutting, TypeOK, tuneVars
<1>5. CASE TeardownEnd
  BY <1>5 DEF TeardownEnd, QueueFilled, Shutting, TypeOK, tuneVars
<1>6. CASE RequestTaken
  BY <1>6 DEF QueueFilled, Shutting, RequestTaken, PauseNext, TuningNext, PendingNext
<1>7. CASE WaitForRecPause
  BY <1>7 DEF WaitForRecPause, PendingNext, QueueFilled, Shutting, TypeOK, tuneVars
<1>8. CASE TuningFails
  BY <1>8 DEF TuningFails, TuningNext, PendingNext, FrequencyFrame, QueueFilled, Shutting,
         TypeOK, tuneVars
<1>9. CASE TuningOnSameMultiplex
  BY <1>9 DEF TuningOnSameMultiplex, TuningNext, PendingNext, FrequencyFrame, QueueFilled,
         Shutting, TypeOK, tuneVars
<1>10. CASE TuningRecording
  BY <1>10 DEF TuningRecording, TuningNext, PendingNext, FrequencyFrame, QueueFilled, Shutting,
         TypeOK, tuneVars
<1>11. CASE TuningLive
  BY <1>11 DEF TuningLive, TuningNext, PendingNext, FrequencyFrame, QueueFilled, Shutting,
         TypeOK, tuneVars
<1>12. CASE TuningLiveFails
  BY <1>12 DEF TuningLiveFails, TuningNext, PendingNext, FrequencyFrame, QueueFilled, Shutting,
         TypeOK, tuneVars
<1>13. CASE TuningSignalCheck
  BY <1>13 DEF TuningSignalCheck, Signal, TuningNext, PendingNext, QueueFilled, Shutting,
         TypeOK, tuneVars
<1>14. CASE NoSignalCheck
  BY <1>14 DEF NoSignalCheck, PendingNext, QueueFilled, Shutting, TypeOK, tuneVars
<1>15. CASE NewRecorderLive
  BY <1>15 DEF NewRecorderLive, StartFrame, QueueFilled, Shutting, TypeOK, tuneVars
<1>16. CASE NewRecorderFile
  BY <1>16 DEF NewRecorderFile, StartFrame, QueueFilled, Shutting, TypeOK, tuneVars
<1>17. CASE NewRecorderCrash
  BY <1>17 DEF NewRecorderCrash, StartFrame, QueueFilled, Shutting, TypeOK, tuneVars
<1>18. CASE NewRecorderNoFile
  BY <1>18 DEF NewRecorderNoFile, NewRecorderFailed, PendingNext, StartFrame, QueueFilled,
         Shutting, TypeOK, tuneVars
<1>19. CASE CreateRecorder
  BY <1>19 DEF CreateRecorder, StartFrame, QueueFilled, Shutting, TypeOK, tuneVars
<1>20. CASE CreateRecorderFails
  BY <1>20 DEF CreateRecorderFails, NewRecorderFailed, PendingNext, StartFrame, QueueFilled,
         Shutting, TypeOK, tuneVars
<1>21. CASE RecorderStarted
  BY <1>21 DEF RecorderStarted, PendingNext, StartFrame, QueueFilled, Shutting, TypeOK, tuneVars
<1>22. CASE TuningRestartRecorder
  BY <1>22 DEF TuningRestartRecorder, PendingNext, StartFrame, QueueFilled, Shutting, TypeOK,
         tuneVars
<1>23. CASE TuningRestartFails
  BY <1>23 DEF TuningRestartFails, PendingNext, StartFrame, QueueFilled, Shutting, TypeOK,
         tuneVars
<1>24. CASE HandlePendingRecordings
  BY <1>24 DEF HandlePendingRecordings, LoopFrame, QueueFilled, Shutting, TypeOK, tuneVars
<1>25. CASE CheckEnd
  BY <1>25 DEF CheckEnd, Awake, LoopEnds, LoopFrame, QueueFilled, Shutting, TypeOK, tuneVars
<1>26. CASE CheckLive
  BY <1>26 DEF CheckLive, CheckLiveFrame, LoopEnds, LoopFrame, QueueFilled, Shutting, TypeOK,
         tuneVars
<1>27. CASE SwitchLive
  BY <1>27 DEF SwitchLive, CheckLiveFrame, LoopEnds, LoopFrame, QueueFilled, Shutting, TypeOK,
         tuneVars
<1>28. CASE RingBufferChanged
  BY <1>28 DEF RingBufferChanged, ElseFrame, QueueFilled, Shutting, TypeOK, tuneVars
<1>29. CASE Other
  <2>1. CASE Channels
    BY <1>29, <2>1 DEF Other, OtherFrame, Channels, QueueFilled
  <2>2. CASE ~ Channels
    BY <1>29, <2>2 DEF Other, OtherFrame, Quiet, BeginsRecording, Asks, Spawns, LeavesLive, QueueFilled
  <2>3. QED BY <2>1, <2>2
<1>30. QED
  BY OtherStep, <1>1, <1>2, <1>3, <1>4, <1>5, <1>6, <1>7, <1>8, <1>9, <1>10, <1>11, <1>12,
         <1>13, <1>14, <1>15, <1>16, <1>17, <1>18, <1>19, <1>20, <1>21, <1>22, <1>23, <1>24,
         <1>25, <1>26, <1>27, <1>28, <1>29
     DEF EventThread, HandleTuning, TuningFrequency

\* Every step preserves RecorderState.
LEMMA RecorderStep ==
  ASSUME TypeOK, ProgramGiven, QueueFilled, LockHeld, RecorderState, Next
  PROVE  RecorderState'
<1>1. CASE HandleStateChange
  BY <1>1 DEF HandleStateChange, Awake, PauseNext, TuningNext, PendingNext, RecorderState,
         TypeOK, stateVars, tuneVars, recorderVars
<1>2. CASE TuningShutdowns
  BY <1>2 DEF TuningShutdowns, Front, Kill, RecorderState, TypeOK, stateVars, tuneVars,
         recorderVars
<1>3. CASE TeardownStop
  BY <1>3 DEF TeardownStop, RecorderState, TypeOK, stateVars, tuneVars, recorderVars
<1>4. CASE TeardownFinish
  BY <1>4 DEF TeardownFinish, RecorderState, TypeOK, stateVars, tuneVars, recorderVars
<1>5. CASE TeardownEnd
  BY <1>5 DEF TeardownEnd, RecorderState, TypeOK, stateVars, tuneVars, recorderVars
<1>6. CASE RequestTaken
  BY <1>6 DEF RequestTaken, Front, PauseNext, TuningNext, PendingNext, PendingActions, Kill,
         RecorderState, TypeOK, stateVars, tuneVars, recorderVars
<1>7. CASE WaitForRecPause
  BY <1>7 DEF WaitForRecPause, PendingNext, RecorderState, TypeOK, stateVars, tuneVars,
         recorderVars
<1>8. CASE TuningFails
  BY <1>8 DEF TuningFails, TuningNext, PendingNext, FrequencyFrame, RecorderState, TypeOK,
         stateVars, tuneVars, recorderVars
<1>9. CASE TuningOnSameMultiplex
  BY <1>9 DEF TuningOnSameMultiplex, TuningNext, PendingNext, FrequencyFrame, RecorderState,
         TypeOK, stateVars, tuneVars, recorderVars
<1>10. CASE TuningRecording
  BY <1>10 DEF TuningRecording, MonitorErrors, Monitored, TuningNext, PendingNext,
         FrequencyFrame, RecorderState, TypeOK, stateVars, tuneVars, recorderVars
<1>11. CASE TuningLive
  <2>1. PICK r \in NextLive(Null) : m_curRecording' = r
    BY <1>11 DEF TuningLive, LiveFile
  <2>2. m_curRecording' # Null
    BY <2>1, NextLiveType, SetsAssumption DEF Recs
  <2>3. QED
    BY <1>11, <2>2 DEF TuningLive, MonitorErrors, Monitored, TuningNext, PendingNext, FrequencyFrame,
       RecorderState, recorderVars
<1>12. CASE TuningLiveFails
  BY <1>12 DEF TuningLiveFails, TuningNext, PendingNext, FrequencyFrame, RecorderState, TypeOK,
         stateVars, tuneVars, recorderVars
<1>13. CASE TuningSignalCheck
  BY <1>13 DEF TuningSignalCheck, Signal, TuningNext, PendingNext, RecorderState, TypeOK,
         stateVars, tuneVars, recorderVars
<1>14. CASE NoSignalCheck
  BY <1>14 DEF NoSignalCheck, PendingNext, RecorderState, TypeOK, stateVars, tuneVars,
         recorderVars
<1>15. CASE NewRecorderLive
  BY <1>15 DEF NewRecorderLive, LiveFile, StartFrame, RecorderState, TypeOK, stateVars,
         tuneVars, recorderVars
<1>16. CASE NewRecorderFile
  BY <1>16 DEF NewRecorderFile, StartFrame, RecorderState, TypeOK, stateVars, tuneVars,
         recorderVars
<1>17. CASE NewRecorderCrash
  BY <1>17 DEF NewRecorderCrash, StartFrame, RecorderState, TypeOK, stateVars, tuneVars,
         recorderVars
<1>18. CASE NewRecorderNoFile
  BY <1>18 DEF NewRecorderNoFile, NewRecorderFailed, PendingNext, StartFrame, RecorderState,
         TypeOK, stateVars, tuneVars, recorderVars
<1>19. CASE CreateRecorder
  BY <1>19 DEF CreateRecorder, StartFrame, RecorderState, TypeOK, stateVars, tuneVars,
         recorderVars
<1>20. CASE CreateRecorderFails
  BY <1>20 DEF CreateRecorderFails, NewRecorderFailed, PendingNext, StartFrame, RecorderState,
         TypeOK, stateVars, tuneVars, recorderVars
<1>21. CASE RecorderStarted
  BY <1>21 DEF RecorderStarted, PendingNext, StartFrame, RecorderState, TypeOK, stateVars,
         tuneVars, recorderVars
<1>22. CASE TuningRestartRecorder
  BY <1>22 DEF TuningRestartRecorder, LiveFile, PendingNext, StartFrame, RecorderState, TypeOK,
         stateVars, tuneVars, recorderVars
<1>23. CASE TuningRestartFails
  BY <1>23 DEF TuningRestartFails, PendingNext, StartFrame, RecorderState, TypeOK, stateVars,
         tuneVars, recorderVars
<1>24. CASE HandlePendingRecordings
  BY <1>24 DEF HandlePendingRecordings, LoopFrame, RecorderState, TypeOK, stateVars, tuneVars,
         recorderVars
<1>25. CASE CheckEnd
  BY <1>25 DEF CheckEnd, Awake, LoopEnds, LoopFrame, RecorderState, TypeOK, stateVars, tuneVars,
         recorderVars
<1>26. CASE CheckLive
  BY <1>26 DEF CheckLive, CheckLiveFrame, LoopEnds, LoopFrame, RecorderState, TypeOK, stateVars,
         tuneVars, recorderVars
<1>27. CASE SwitchLive
  BY <1>27 DEF SwitchLive, CheckLiveFrame, LoopEnds, LoopFrame, RecorderState, TypeOK,
         stateVars, tuneVars, recorderVars
<1>28. CASE RingBufferChanged
  BY <1>28 DEF RingBufferChanged, ElseFrame, Front, Kill, RecorderState, TypeOK, stateVars,
         tuneVars, recorderVars
<1>29. CASE Other
  <2>1. epc' = epc /\ m_recorder' \in {"none", "starting", "running", "error"}
    BY <1>29, TypeStep DEF Other, OtherFrame, TypeOK
  <2>2. epc \notin {"shut", "create"} \/ UNCHANGED <<m_tuningRequests, m_curRecording>>
    BY <1>29 DEF Other, Quiet, BeginsRecording, Asks, Spawns, LeavesLive, Channels, RowsFrame,
         LockHeld, Unlocked
  <2>3. m_curRecording # Null => m_curRecording' # Null
    BY <1>29, SetsAssumption DEF Other, Quiet, BeginsRecording, Asks, Spawns, LeavesLive, Channels,
         RowsFrame
  <2>4. \A f \in CoreFlags : f \in m_stateFlags' <=> f \in m_stateFlags
    BY <1>29 DEF Other, OtherFrame
  <2>5. (m_recorder' = "none") <=> (m_recorder = "none")
    BY <1>29 DEF Other, OtherFrame
  <2>6. QED
    BY <2>1, <2>2, <2>3, <2>4, <2>5 DEF RecorderState, CoreFlags, PendingActions, Front, Kill
<1>30. QED
  BY OtherStep, <1>1, <1>2, <1>3, <1>4, <1>5, <1>6, <1>7, <1>8, <1>9, <1>10, <1>11, <1>12,
         <1>13, <1>14, <1>15, <1>16, <1>17, <1>18, <1>19, <1>20, <1>21, <1>22, <1>23, <1>24,
         <1>25, <1>26, <1>27, <1>28, <1>29
     DEF EventThread, HandleTuning, TuningFrequency

-----------------------------------------------------------------------------
(* What a change of the queue does to its predicates *)

\* Nothing changes with the queue unchanged.
LEMMA QueueSame ==
  ASSUME m_tuningRequests' = m_tuningRequests, m_lastTuningRequest' = m_lastTuningRequest
  PROVE  /\ KillAhead' <=> KillAhead
         /\ NothingNew' <=> NothingNew
         /\ LastIsNew' <=> LastIsNew
BY DEF KillAhead, NothingNew, LastIsNew, LastRequest, Queue, Full, Kill, New

\* The queue after a request is appended.
LEMMA QueueAppended ==
  ASSUME m_tuningRequests \in Seq(Requests), NEW r \in Requests,
         m_tuningRequests' = Append(m_tuningRequests, r)
  PROVE  /\ LastRequest' = r
         /\ Queue' = Queue \cup {Len(m_tuningRequests) + 1}
         /\ \A i \in Queue : m_tuningRequests'[i] = m_tuningRequests[i]
         /\ m_tuningRequests'[Len(m_tuningRequests) + 1] = r
         /\ \A i \in Queue : i < Len(m_tuningRequests) + 1 /\ i \in Nat
         /\ m_tuningRequests' # <<>>
         /\ Len(m_tuningRequests) + 1 \in Nat
<1>1. Len(m_tuningRequests) \in Nat /\ Queue = 1 .. Len(m_tuningRequests)
  BY DEF Queue
<1>2. Len(m_tuningRequests') = Len(m_tuningRequests) + 1 /\ m_tuningRequests' # <<>>
  OBVIOUS
<1>3. Queue' = 1 .. (Len(m_tuningRequests) + 1)
  BY DEF Queue
<1>4. QED
  BY <1>1, <1>2, <1>3 DEF LastRequest

\* ... and what it looks like.
LEMMA KillAppended ==
  ASSUME m_tuningRequests \in Seq(Requests), NEW r \in Requests,
         m_tuningRequests' = Append(m_tuningRequests, r)
  PROVE  /\ Full(r) \/ (KillAhead /\ ~New(r)) => KillAhead'
         /\ NothingNew /\ ~New(r) => NothingNew'
         /\ LastIsNew' <=> New(r)
<1> DEFINE n == Len(m_tuningRequests) + 1
<1>1. /\ LastRequest' = r /\ Queue' = Queue \cup {n}
      /\ \A i \in Queue : m_tuningRequests'[i] = m_tuningRequests[i]
      /\ m_tuningRequests'[n] = r
      /\ \A i \in Queue : i < n /\ i \in Nat
      /\ n \in Nat
  BY QueueAppended
<1> HIDE DEF n
<1>2. ASSUME Full(r) PROVE KillAhead'
  <2>1. n \in Queue' /\ \A j \in Queue' : ~ (j > n)
    BY <1>1
  <2>2. QED BY <1>1, <1>2, <2>1 DEF KillAhead, Full, Kill, New
<1>3. ASSUME KillAhead, ~ New(r) PROVE KillAhead'
  <2>1. PICK i \in Queue : /\ Full(m_tuningRequests[i])
                            /\ \A j \in Queue : j > i => ~New(m_tuningRequests[j])
    BY <1>3 DEF KillAhead
  <2>2. i \in Queue' /\ m_tuningRequests'[i] = m_tuningRequests[i]
    BY <1>1
  <2>3. \A j \in Queue' : j > i => m_tuningRequests'[j].flags \cap {"LiveTV", "Recording"} = {}
    BY <1>1, <1>3, <2>1 DEF New
  <2>4. QED BY <2>1, <2>2, <2>3 DEF KillAhead, Full, Kill, New
<1>4. ASSUME NothingNew, ~ New(r) PROVE NothingNew'
  BY <1>1, <1>4 DEF NothingNew, New
<1>5. LastIsNew' <=> New(r)
  BY <1>1 DEF LastIsNew, New
<1>6. QED BY <1>2, <1>3, <1>4, <1>5

\* The queue after its first request was taken.
LEMMA QueueTaken ==
  ASSUME m_tuningRequests \in Seq(Requests), m_tuningRequests # <<>>,
         m_lastTuningRequest' = Front, m_tuningRequests' = Tail(m_tuningRequests)
  PROVE  /\ LastRequest' = LastRequest
         /\ 1 \in Queue /\ Front = m_tuningRequests[1] /\ Front \in Requests
         /\ \A i \in Queue' : i \in Nat /\ i >= 1 /\ i + 1 \in Queue /\ m_tuningRequests'[i] = m_tuningRequests[i + 1]
         /\ \A i \in Queue : i \in Nat /\ (i = 1 \/ (i - 1 \in Queue' /\ m_tuningRequests'[i - 1] = m_tuningRequests[i]))
<1>0. Len(m_tuningRequests) \in Nat /\ Len(m_tuningRequests) >= 1
  OBVIOUS
<1>1. Queue = 1 .. Len(m_tuningRequests)
  BY DEF Queue
<1>2. Front = m_tuningRequests[1] /\ Front \in Requests
  BY DEF Front
<1>3. /\ Len(m_tuningRequests') = Len(m_tuningRequests) - 1
      /\ \A i \in 1 .. (Len(m_tuningRequests) - 1) : m_tuningRequests'[i] = m_tuningRequests[i + 1]
      /\ m_tuningRequests' \in Seq(Requests)
  OBVIOUS
<1>4. Queue' = 1 .. (Len(m_tuningRequests) - 1)
  BY <1>3 DEF Queue
<1>5. LastRequest' = LastRequest
  <2>0. PICK n \in Nat : n = Len(m_tuningRequests) /\ n >= 1
    BY <1>0
  <2>1. CASE n = 1
    <3>1. m_tuningRequests' = <<>>
      BY <1>3, <2>0, <2>1
    <3>2. QED BY <1>2, <2>0, <2>1, <3>1 DEF LastRequest
  <2>2. CASE n > 1
    <3>1. Len(m_tuningRequests') # 0 /\ m_tuningRequests'[n - 1] = m_tuningRequests[n]
      BY <1>3, <2>0, <2>2
    <3>2. Len(<<>>) = 0
      OBVIOUS
    <3>3. m_tuningRequests' # <<>>
      BY <3>1, <3>2
    <3>4. QED BY <1>3, <2>0, <3>1, <3>3 DEF LastRequest
  <2>3. QED BY <2>0, <2>1, <2>2
<1>6. QED
  BY <1>0, <1>1, <1>2, <1>3, <1>4, <1>5

\* ... and what it looks like: the request that lets go of everything may have
\* been the first.
LEMMA KillTaken ==
  ASSUME m_tuningRequests \in Seq(Requests), m_tuningRequests # <<>>,
         m_lastTuningRequest' = Front, m_tuningRequests' = Tail(m_tuningRequests)
  PROVE  /\ LastIsNew' <=> LastIsNew
         /\ NothingNew => NothingNew' /\ ~New(Front)
         /\ KillAhead => KillAhead' \/ (Full(Front) /\ NothingNew')
<1>1. /\ LastRequest' = LastRequest
      /\ 1 \in Queue /\ Front = m_tuningRequests[1]
      /\ \A i \in Queue' : i \in Nat /\ i >= 1 /\ i + 1 \in Queue /\ m_tuningRequests'[i] = m_tuningRequests[i + 1]
      /\ \A i \in Queue : i \in Nat /\ (i = 1 \/ (i - 1 \in Queue' /\ m_tuningRequests'[i - 1] = m_tuningRequests[i]))
  BY QueueTaken
<1>2. LastIsNew' <=> LastIsNew
  BY <1>1 DEF LastIsNew, New
<1>3. NothingNew => NothingNew' /\ ~New(Front)
  BY <1>1 DEF NothingNew, New
<1>4. ASSUME KillAhead PROVE KillAhead' \/ (Full(Front) /\ NothingNew')
  <2>1. PICK i \in Queue : /\ Full(m_tuningRequests[i])
                            /\ \A j \in Queue : j > i => ~New(m_tuningRequests[j])
    BY <1>4 DEF KillAhead
  <2>2. CASE i = 1
    <3>1. \A j \in Queue' : j + 1 > i
      BY <1>1, <2>2
    <3>2. NothingNew'
      BY <1>1, <2>1, <3>1 DEF NothingNew, New
    <3>3. QED BY <1>1, <2>1, <2>2, <3>2
  <2>3. CASE i # 1
    <3>1. i - 1 \in Queue' /\ m_tuningRequests'[i - 1] = m_tuningRequests[i]
      BY <1>1, <2>3
    <3>2. \A j \in Queue' : j > i - 1 => j + 1 \in Queue /\ j + 1 > i /\ m_tuningRequests'[j] = m_tuningRequests[j + 1]
      <4>1. TAKE j \in Queue'
      <4>2. i \in Nat /\ j \in Nat
        BY <1>1
      <4>3. j > i - 1 => j + 1 > i
        BY <4>2
      <4>4. QED BY <1>1, <4>3
    <3>3. \A j \in Queue' : j > i - 1 => m_tuningRequests'[j].flags \cap {"LiveTV", "Recording"} = {}
      BY <2>1, <3>2 DEF New
    <3>4. KillAhead'
      BY <2>1, <3>1, <3>3 DEF KillAhead, Full, Kill, New
    <3>5. QED BY <3>4
  <2>4. QED BY <2>2, <2>3
<1>5. QED BY <1>2, <1>3, <1>4

-----------------------------------------------------------------------------
(* The state None and the current recording *)

\* Every step preserves NoneState.
LEMMA NoneStep ==
  ASSUME TypeOK, ProgramGiven, QueueFilled, LockHeld, RecorderState, NoneState, Next
  PROVE  NoneState'
<1>1. m_tuningRequests' = m_tuningRequests /\ m_lastTuningRequest' = m_lastTuningRequest =>
        /\ KillAhead' <=> KillAhead
        /\ NothingNew' <=> NothingNew
        /\ LastIsNew' <=> LastIsNew
  BY QueueSame
<1>2. m_tuningRequests \in Seq(Requests)
  BY DEF TypeOK
<1>3. CASE HandleStateChange
  <2>1. m_lastTuningRequest' = m_lastTuningRequest /\ epc' # "live"
    BY <1>3 DEF HandleStateChange, PauseNext, TuningNext, PendingNext
  <2>2. CASE m_internalState' # "None"
    BY <2>1, <2>2 DEF NoneState
  <2>3. CASE m_internalState' = "None" /\ m_internalState # "None"
    <3>1. PICK r \in Requests : m_tuningRequests' = Append(m_tuningRequests, r) /\ Full(r)
      BY <1>3, <2>3, QueueAfterChange
    <3>2. KillAhead' /\ ~ LastIsNew'
      BY <1>2, <3>1, KillAppended DEF Full
    <3>3. QED BY <2>1, <3>2 DEF NoneState
  <2>4. CASE m_internalState' = "None" /\ m_internalState = "None"
    <3>1. m_tuningRequests' = m_tuningRequests
      BY <1>3, <2>4, QueueAfterChange
    <3>2. epc \in {"top", "asleep"}
      BY <1>3 DEF HandleStateChange, Awake
    <3>3. Clean => Clean'
      BY <1>3, <1>1, <2>1, <3>1 DEF Clean, HandleStateChange, PauseNext, TuningNext, PendingNext,
           PendingActions,
         recorderVars
    <3>4. QED BY <1>1, <2>1, <2>4, <3>1, <3>3 DEF NoneState
  <2>5. QED BY <2>2, <2>3, <2>4
<1>4. CASE TuningShutdowns
  BY <1>4, <1>1 DEF TuningShutdowns, NoneState, Clean, stateVars, tuneVars, recorderVars
<1>5. CASE TeardownStop
  BY <1>5, <1>1 DEF TeardownStop, NoneState, Clean, stateVars, tuneVars, recorderVars
<1>6. CASE TeardownFinish
  BY <1>6, <1>1 DEF TeardownFinish, NoneState, Clean, stateVars, tuneVars, recorderVars
<1>7. CASE TeardownEnd
  BY <1>7, <1>1 DEF TeardownEnd, NoneState, Clean, stateVars, tuneVars, recorderVars
<1>8. CASE RequestTaken
  <2>1. m_tuningRequests # <<>>
    BY <1>8 DEF QueueFilled, Shutting, RequestTaken
  <2>2. m_lastTuningRequest' = Front /\ m_tuningRequests' = Tail(m_tuningRequests)
    BY <1>8 DEF RequestTaken
  <2>3. /\ LastIsNew' <=> LastIsNew
        /\ NothingNew => NothingNew' /\ ~New(Front)
        /\ KillAhead => KillAhead' \/ (Full(Front) /\ NothingNew')
    BY <1>2, <2>1, <2>2, KillTaken
  <2>4. m_internalState' = m_internalState /\ epc' # "live" /\ epc = "shut"
    BY <1>8 DEF RequestTaken, PauseNext, TuningNext, PendingNext, stateVars
  <2>5. ASSUME m_internalState = "None", Clean PROVE Clean'
    BY <1>8, <2>3, <2>5 DEF Clean, RequestTaken, New, PauseNext, TuningNext, PendingNext,
         PendingActions, recorderVars
  <2>6. ASSUME Full(Front), NothingNew' PROVE Clean'
    <3>1. m_recorder = "none" /\ m_stateFlags \cap {"RecorderRunning", "DummyRecorderRunning", "SignalMonitorRunning"} = {}
      BY <2>4, <2>6 DEF RecorderState, Full
    <3>2. m_buffer' = Null
      BY <1>8, <2>6 DEF RequestTaken, Full
    <3>3. Front.flags \cap {"Recording", "LiveTV"} = {}
      BY <2>6 DEF Full, New
    <3>4. m_stateFlags' \subseteq m_stateFlags \ PendingActions
      BY <1>8, <3>3 DEF RequestTaken
    <3>5. epc' \in {"pending", "ends"}
      BY <1>8, <3>3, <3>4 DEF RequestTaken, PauseNext, TuningNext, PendingNext, PendingActions
    <3>6. m_recorder' = "none"
      BY <1>8, <3>1 DEF RequestTaken, recorderVars
    <3>7. QED BY <2>6, <3>1, <3>2, <3>4, <3>5, <3>6 DEF Clean
  <2>7. QED
    BY <2>3, <2>4, <2>5, <2>6 DEF NoneState
<1>9. CASE WaitForRecPause
  BY <1>9, <1>1 DEF WaitForRecPause, PendingNext, NoneState, Clean, stateVars, tuneVars,
         recorderVars
<1>10. CASE TuningFails
  <2>1. m_internalState' = m_internalState /\ epc' # "live"
    BY <1>10 DEF TuningFails, FrequencyFrame, TuningNext, PendingNext
  <2>2. CASE m_internalState = "None"
    <3>1. PICK r \in Requests : r = Request({"KillRec"}, Null)
      BY DEF Request, Requests, RequestFlags, NoRec
    <3>2. m_tuningRequests' = Append(m_tuningRequests, r) /\ ~ New(r)
      BY <1>10, <2>2, <3>1 DEF TuningFails, New, Request
    <3>3. KillAhead
      BY <1>10, <2>2 DEF TuningFails, NoneState, Clean
    <3>4. KillAhead' /\ ~ LastIsNew'
      BY <1>2, <3>2, <3>3, KillAppended
    <3>5. QED BY <2>1, <3>4 DEF NoneState
  <2>3. QED BY <2>1, <2>2 DEF NoneState
<1>11. CASE TuningOnSameMultiplex
  BY <1>11, <1>1 DEF TuningOnSameMultiplex, TuningNext, PendingNext, FrequencyFrame, NoneState,
         Clean, stateVars, tuneVars, recorderVars
<1>12. CASE TuningRecording
  BY <1>12, <1>1 DEF TuningRecording, MonitorErrors, Monitored, TuningNext, PendingNext,
         FrequencyFrame, NoneState, Clean, stateVars, tuneVars, recorderVars
<1>13. CASE TuningLive
  BY <1>13, <1>1 DEF TuningLive, MonitorErrors, Monitored, LiveFile, TuningNext, PendingNext,
         FrequencyFrame, NoneState, Clean, stateVars, tuneVars, recorderVars
<1>14. CASE TuningLiveFails
  BY <1>14, <1>1 DEF TuningLiveFails, TuningNext, PendingNext, FrequencyFrame, NoneState, Clean,
         stateVars, tuneVars, recorderVars
<1>15. CASE TuningSignalCheck
  BY <1>15, <1>1 DEF TuningSignalCheck, Signal, TuningNext, PendingNext, NoneState, Clean,
         stateVars, tuneVars, recorderVars
<1>16. CASE NoSignalCheck
  BY <1>16, <1>1 DEF NoSignalCheck, PendingNext, NoneState, Clean, stateVars, tuneVars,
         recorderVars
<1>17. CASE NewRecorderLive
  BY <1>17, <1>1 DEF NewRecorderLive, LiveFile, StartFrame, NoneState, Clean, stateVars,
         tuneVars, recorderVars
<1>18. CASE NewRecorderFile
  BY <1>18, <1>1 DEF NewRecorderFile, StartFrame, NoneState, Clean, stateVars, tuneVars,
         recorderVars
<1>19. CASE NewRecorderCrash
  BY <1>19, <1>1 DEF NewRecorderCrash, StartFrame, NoneState, Clean, stateVars, tuneVars,
         recorderVars
<1>20. CASE NewRecorderNoFile
  BY <1>20, <1>1 DEF NewRecorderNoFile, NewRecorderFailed, PendingNext, StartFrame, NoneState,
         Clean, stateVars, tuneVars, recorderVars
<1>21. CASE CreateRecorder
  BY <1>21, <1>1 DEF CreateRecorder, StartFrame, NoneState, Clean, stateVars, tuneVars,
         recorderVars
<1>22. CASE CreateRecorderFails
  BY <1>22, <1>1 DEF CreateRecorderFails, NewRecorderFailed, PendingNext, StartFrame, NoneState,
         Clean, stateVars, tuneVars, recorderVars
<1>23. CASE RecorderStarted
  BY <1>23, <1>1 DEF RecorderStarted, PendingNext, StartFrame, NoneState, Clean, stateVars,
         tuneVars, recorderVars
<1>24. CASE TuningRestartRecorder
  BY <1>24, <1>1 DEF TuningRestartRecorder, LiveFile, PendingNext, StartFrame, NoneState, Clean,
         stateVars, tuneVars, recorderVars
<1>25. CASE TuningRestartFails
  BY <1>25, <1>1 DEF TuningRestartFails, PendingNext, StartFrame, NoneState, Clean, stateVars,
         tuneVars, recorderVars
<1>26. CASE HandlePendingRecordings
  BY <1>26, <1>1 DEF HandlePendingRecordings, LoopFrame, NoneState, Clean, stateVars, tuneVars,
         recorderVars
<1>27. CASE CheckEnd
  BY <1>27, <1>1 DEF CheckEnd, Awake, LoopEnds, GetState, LoopFrame, NoneState, Clean,
         stateVars, tuneVars, recorderVars
<1>28. CASE CheckLive
  BY <1>28, <1>1 DEF CheckLive, CheckLiveFrame, LoopEnds, LoopFrame, NoneState, Clean,
         stateVars, tuneVars, recorderVars
<1>29. CASE SwitchLive
  BY <1>29, <1>1 DEF SwitchLive, CheckLiveFrame, LoopEnds, LoopFrame, NoneState, Clean,
         stateVars, tuneVars, recorderVars
<1>30. CASE RingBufferChanged
  BY <1>30, <1>1 DEF RingBufferChanged, ElseFrame, Front, Kill, NoneState, Clean, stateVars,
         tuneVars, recorderVars
<1>31. CASE Other
  <2>1. m_internalState' = m_internalState /\ epc' = epc /\ m_lastTuningRequest' = m_lastTuningRequest
    BY <1>31 DEF Other, OtherFrame
  <2>2. (NothingNew => NothingNew') => (Clean => Clean')
    BY <1>31 DEF Other, OtherFrame, Clean, CoreFlags
  <2>3. CASE Channels
    <3>1. PICK r \in Requests : r = Request(m_lastTuningRequest.flags \cap ({"LiveTV", "Recording"} \cup NoRec), Null)
      BY DEF TypeOK, Request, Requests
    <3>2. m_tuningRequests = <<>> /\ m_tuningRequests' = Append(m_tuningRequests, r)
      BY <2>3, <3>1 DEF Channels
    <3>3. New(r) <=> LastIsNew
      BY <3>1, <3>2 DEF New, LastIsNew, LastRequest, Request
    <3>4. ~ KillAhead /\ NothingNew
      BY <3>2 DEF KillAhead, NothingNew, Queue
    <3>5. m_internalState = "None" => ~ LastIsNew /\ Clean /\ ~ LastIsNew' /\ NothingNew'
      BY <1>2, <3>2, <3>3, <3>4, KillAppended DEF NoneState
    <3>6. QED BY <2>1, <2>2, <3>4, <3>5 DEF NoneState
  <2>4. CASE ~ Channels
    <3>1. m_tuningRequests' = m_tuningRequests
      BY <1>31, <2>4 DEF Other, Quiet, BeginsRecording, Asks, Spawns, LeavesLive
    <3>2. QED BY <1>1, <2>1, <2>2, <3>1 DEF NoneState
  <2>5. QED BY <2>3, <2>4
<1>32. QED
  BY OtherStep, <1>3, <1>4, <1>5, <1>6, <1>7, <1>8, <1>9, <1>10, <1>11, <1>12, <1>13, <1>14,
         <1>15, <1>16, <1>17, <1>18, <1>19, <1>20, <1>21, <1>22, <1>23, <1>24, <1>25, <1>26,
         <1>27, <1>28, <1>29, <1>30, <1>31
     DEF EventThread, HandleTuning, TuningFrequency

\* Every step preserves CurrentState.
LEMMA CurrentStep ==
  ASSUME TypeOK, ProgramGiven, QueueFilled, LockHeld, RecorderState, NoneState, CurrentState,
         Next
  PROVE  CurrentState'
<1>1. m_tuningRequests' = m_tuningRequests /\ m_lastTuningRequest' = m_lastTuningRequest =>
        /\ KillAhead' <=> KillAhead
        /\ NothingNew' <=> NothingNew
        /\ LastIsNew' <=> LastIsNew
  BY QueueSame
<1>2. m_tuningRequests \in Seq(Requests)
  BY DEF TypeOK
<1>3. CASE HandleStateChange
  <2>1. epc' \notin {"relock", "shut"} /\ ~ m_changeState' /\ UNCHANGED <<m_curRecording, finished, dropped>>
    BY <1>3 DEF HandleStateChange, PauseNext, TuningNext, PendingNext, dbVars
  <2>2. CASE m_internalState' # "None"
    BY <2>2 DEF CurrentState
  <2>3. CASE m_internalState' = "None" /\ m_internalState # "None"
    <3>1. PICK r \in Requests : m_tuningRequests' = Append(m_tuningRequests, r) /\ Full(r)
      BY <1>3, <2>3, QueueAfterChange
    <3>2. KillAhead'
      BY <1>2, <3>1, KillAppended
    <3>3. QED BY <2>1, <3>2 DEF CurrentState, KillDone
  <2>4. CASE m_internalState' = "None" /\ m_internalState = "None"
    <3>1. m_tuningRequests' = m_tuningRequests /\ m_lastTuningRequest' = m_lastTuningRequest
      BY <1>3, <2>4, QueueAfterChange DEF HandleStateChange
    <3>2. ~ Begun
      BY <1>3, <2>4 DEF HandleStateChange, Known, Begun
    <3>3. QED BY <1>1, <2>1, <2>4, <3>1, <3>2 DEF CurrentState, KillDone
  <2>5. QED BY <2>2, <2>3, <2>4
<1>4. CASE TuningShutdowns
  <2>1. /\ UNCHANGED <<m_internalState, m_changeState, m_desiredNextState, m_curRecording>>
        /\ m_tuningRequests' = m_tuningRequests /\ m_lastTuningRequest' = m_lastTuningRequest
        /\ epc' \in {"teardown", "shut"} /\ epc = "tune"
    BY <1>4 DEF TuningShutdowns, stateVars, tuneVars
  <2>2. finished \subseteq finished' /\ dropped \subseteq dropped'
    BY <1>4 DEF TuningShutdowns
  <2>3. epc' = "shut" /\ Kill(Front) => Of(m_curRecording) \subseteq finished' \cup dropped'
    BY <1>4 DEF TuningShutdowns, Kill
  <2>4. Front' = Front
    BY <2>1 DEF Front
  <2>5. KillDone' => m_curRecording \in {Null} \cup finished' \cup dropped'
    BY <2>1, <2>3, <2>4 DEF KillDone, Kill, Of
  <2>6. QED
    BY <1>1, <2>1, <2>2, <2>5 DEF CurrentState, KillDone, Begun
<1>5. CASE TeardownStop
  BY <1>5, <1>1 DEF TeardownStop, NoneState, Clean, CurrentState, KillDone, Begun, stateVars,
         tuneVars, recorderVars, dbVars
<1>6. CASE TeardownFinish
  BY <1>6, <1>1 DEF TeardownFinish, NoneState, Clean, CurrentState, KillDone, Begun, stateVars,
         tuneVars, recorderVars, dbVars
<1>7. CASE TeardownEnd
  BY <1>7, <1>1 DEF TeardownEnd, NoneState, Clean, CurrentState, KillDone, Begun, stateVars,
         tuneVars, recorderVars, dbVars
<1>8. CASE RequestTaken
  <2>1. m_tuningRequests # <<>>
    BY <1>8 DEF QueueFilled, Shutting, RequestTaken
  <2>2. m_lastTuningRequest' = Front /\ m_tuningRequests' = Tail(m_tuningRequests)
    BY <1>8 DEF RequestTaken
  <2>3. KillAhead => KillAhead' \/ Full(Front)
    BY <1>2, <2>1, <2>2, KillTaken
  <2>4. /\ UNCHANGED <<m_internalState, m_changeState, m_desiredNextState, m_curRecording, finished, dropped>>
        /\ epc' \notin {"relock", "shut"} /\ epc = "shut"
    BY <1>8 DEF RequestTaken, PauseNext, TuningNext, PendingNext, stateVars, dbVars
  <2>5. Full(Front) => KillDone
    BY <2>4 DEF KillDone, Full
  <2>6. QED
    BY <2>3, <2>4, <2>5 DEF CurrentState, KillDone, Begun
<1>9. CASE WaitForRecPause
  BY <1>9, <1>1 DEF WaitForRecPause, PendingNext, NoneState, Clean, CurrentState, KillDone,
         Begun, stateVars, tuneVars, recorderVars, dbVars
<1>10. CASE TuningFails
  <2>1. m_internalState = "None" => KillAhead
    BY <1>10 DEF TuningFails, NoneState, Clean
  <2>2. m_internalState' = m_internalState /\ epc' \notin {"relock", "shut"}
    BY <1>10 DEF TuningFails, FrequencyFrame, TuningNext, PendingNext
  <2>3. m_internalState = "None" => KillAhead'
    <3>1. PICK r \in Requests : r = Request({"KillRec"}, Null)
      BY DEF Request, Requests, RequestFlags, NoRec
    <3>2. m_internalState = "None" => m_tuningRequests' = Append(m_tuningRequests, r) /\ ~ New(r)
      BY <1>10, <3>1 DEF TuningFails, New, Request
    <3>3. QED BY <1>2, <2>1, <3>2, KillAppended
  <2>4. QED BY <2>2, <2>3 DEF CurrentState, KillDone
<1>11. CASE TuningOnSameMultiplex
  BY <1>11, <1>1 DEF TuningOnSameMultiplex, TuningNext, PendingNext, FrequencyFrame, NoneState,
         Clean, CurrentState, KillDone, Begun, stateVars, tuneVars, recorderVars, dbVars
<1>12. CASE TuningRecording
  BY <1>12, <1>1 DEF TuningRecording, MonitorErrors, Monitored, TuningNext, PendingNext,
         FrequencyFrame, NoneState, Clean, CurrentState, KillDone, Begun, stateVars, tuneVars,
         recorderVars, dbVars
<1>13. CASE TuningLive
  BY <1>13, <1>1 DEF TuningLive, MonitorErrors, Monitored, LiveFile, TuningNext, PendingNext,
         FrequencyFrame, NoneState, Clean, CurrentState, KillDone, Begun, stateVars, tuneVars,
         recorderVars, dbVars
<1>14. CASE TuningLiveFails
  BY <1>14, <1>1 DEF TuningLiveFails, TuningNext, PendingNext, ChangeState, FrequencyFrame,
         NoneState, Clean, CurrentState, KillDone, Begun, stateVars, tuneVars, recorderVars,
         dbVars
<1>15. CASE TuningSignalCheck
  BY <1>15, <1>1 DEF TuningSignalCheck, Signal, TuningNext, PendingNext, NoneState, Clean,
         CurrentState, KillDone, Begun, stateVars, tuneVars, recorderVars, dbVars
<1>16. CASE NoSignalCheck
  BY <1>16, <1>1 DEF NoSignalCheck, PendingNext, NoneState, Clean, CurrentState, KillDone,
         Begun, stateVars, tuneVars, recorderVars, dbVars
<1>17. CASE NewRecorderLive
  BY <1>17, <1>1 DEF NewRecorderLive, LiveFile, StartFrame, NoneState, Clean, CurrentState,
         KillDone, Begun, stateVars, tuneVars, recorderVars, dbVars
<1>18. CASE NewRecorderFile
  BY <1>18, <1>1 DEF NewRecorderFile, StartFrame, NoneState, Clean, CurrentState, KillDone,
         Begun, stateVars, tuneVars, recorderVars, dbVars
<1>19. CASE NewRecorderCrash
  BY <1>19, <1>1 DEF NewRecorderCrash, StartFrame, NoneState, Clean, CurrentState, KillDone,
         Begun, stateVars, tuneVars, recorderVars, dbVars
<1>20. CASE NewRecorderNoFile
  BY <1>20, <1>1 DEF NewRecorderNoFile, NewRecorderFailed, ChangeState, PendingNext, StartFrame,
         NoneState, Clean, CurrentState, KillDone, Begun, stateVars, tuneVars, recorderVars,
         dbVars
<1>21. CASE CreateRecorder
  BY <1>21, <1>1 DEF CreateRecorder, StartFrame, NoneState, Clean, CurrentState, KillDone,
         Begun, stateVars, tuneVars, recorderVars, dbVars
<1>22. CASE CreateRecorderFails
  BY <1>22, <1>1 DEF CreateRecorderFails, NewRecorderFailed, ChangeState, PendingNext,
         StartFrame, NoneState, Clean, CurrentState, KillDone, Begun, stateVars, tuneVars,
         recorderVars, dbVars
<1>23. CASE RecorderStarted
  BY <1>23, <1>1 DEF RecorderStarted, PendingNext, StartFrame, NoneState, Clean, CurrentState,
         KillDone, Begun, stateVars, tuneVars, recorderVars, dbVars
<1>24. CASE TuningRestartRecorder
  BY <1>24, <1>1 DEF TuningRestartRecorder, LiveFile, PendingNext, StartFrame, NoneState, Clean,
         CurrentState, KillDone, Begun, stateVars, tuneVars, recorderVars, dbVars
<1>25. CASE TuningRestartFails
  BY <1>25, <1>1 DEF TuningRestartFails, PendingNext, StartFrame, NoneState, Clean,
         CurrentState, KillDone, Begun, stateVars, tuneVars, recorderVars, dbVars
<1>26. CASE HandlePendingRecordings
  BY <1>26, <1>1 DEF HandlePendingRecordings, LoopFrame, NoneState, Clean, CurrentState,
         KillDone, Begun, stateVars, tuneVars, recorderVars, dbVars
<1>27. CASE CheckEnd
  BY <1>27, <1>1 DEF CheckEnd, Awake, LoopEnds, ChangeState, NoStateChange, GetState, LoopFrame,
         NoneState, Clean, CurrentState, KillDone, Begun, stateVars, tuneVars, recorderVars,
         dbVars
<1>28. CASE CheckLive
  BY <1>28, <1>1 DEF CheckLive, CheckLiveFrame, LoopEnds, LoopFrame, NoneState, Clean,
         CurrentState, KillDone, Begun, stateVars, tuneVars, recorderVars, dbVars
<1>29. CASE SwitchLive
  BY <1>29, <1>1 DEF SwitchLive, CheckLiveFrame, LoopEnds, LoopFrame, NoneState, Clean,
         CurrentState, KillDone, Begun, stateVars, tuneVars, recorderVars, dbVars
<1>30. CASE RingBufferChanged
  BY <1>30, <1>1 DEF RingBufferChanged, ElseFrame, RecorderState, Front, Kill, NoneState, Clean,
         CurrentState, KillDone, Begun, stateVars, tuneVars, recorderVars, dbVars
<1>31. CASE Other
  <2>1. UNCHANGED <<m_internalState, epc>> /\ dropped \subseteq dropped'
    BY <1>31 DEF Other, OtherFrame
  <2>2. CASE BeginsRecording
    BY <2>2 DEF BeginsRecording, CurrentState, Begun
  <2>3. CASE ~ BeginsRecording
    <3>1. m_curRecording' = m_curRecording /\ finished \subseteq finished'
      BY <1>31, <2>3 DEF Other, Quiet, Asks, Spawns, LeavesLive, Channels, RowsFrame
    <3>2. KillDone' => KillDone
      <4>1. CASE Channels
        BY <2>1, <4>1 DEF KillDone, Channels, LockHeld, Unlocked
      <4>2. CASE ~ Channels
        BY <1>31, <2>1, <2>3, <4>2 DEF Other, Quiet, Asks, Spawns, LeavesLive, KillDone, Front, Kill
      <4>3. QED BY <4>1, <4>2
    <3>3. KillAhead => KillAhead'
      <4>1. CASE Channels
        BY <4>1 DEF Channels, KillAhead, Queue
      <4>2. CASE ~ Channels
        BY <1>31, <1>1, <2>3, <4>2 DEF Other, OtherFrame, Quiet, Asks, Spawns, LeavesLive
      <4>3. QED BY <4>1, <4>2
    <3>4. m_internalState = "None" /\ Begun /\ ~ Begun' => m_curRecording \in {Null} \cup dropped'
      BY <1>31, <2>3 DEF Other, Quiet, Asks, Spawns, LeavesLive, Channels, Begun, Of
    <3>5. QED
      BY <2>1, <3>1, <3>2, <3>3, <3>4 DEF CurrentState
  <2>4. QED BY <2>2, <2>3
<1>32. QED
  BY OtherStep, <1>3, <1>4, <1>5, <1>6, <1>7, <1>8, <1>9, <1>10, <1>11, <1>12, <1>13, <1>14,
         <1>15, <1>16, <1>17, <1>18, <1>19, <1>20, <1>21, <1>22, <1>23, <1>24, <1>25, <1>26,
         <1>27, <1>28, <1>29, <1>30, <1>31
     DEF EventThread, HandleTuning, TuningFrequency

-----------------------------------------------------------------------------
(* The requests and where they wait *)

\* Every step preserves RequestState.
LEMMA RequestStep ==
  ASSUME TypeOK, ProgramGiven, QueueFilled, LockHeld, NoneState, RequestState, Next
  PROVE  RequestState'
<1>1. m_tuningRequests \in Seq(Requests) /\ m_lastTuningRequest \in Requests
  BY DEF TypeOK
<1>2. ASSUME m_tuningRequests' = m_tuningRequests, m_lastTuningRequest' = m_lastTuningRequest,
             m_internalState' = m_internalState
      PROVE  RequestState'
  BY <1>2, QueueSame DEF RequestState, Formed, New, Kill, Queue
<1>3. ASSUME NEW r \in Requests, m_tuningRequests' = Append(m_tuningRequests, r), Formed(r),
             m_lastTuningRequest' = m_lastTuningRequest, New(r) <=> m_internalState' # "None"
      PROVE  RequestState'
  <2>1. LastIsNew' <=> New(r)
    BY <1>1, <1>3, KillAppended
  <2>2. /\ Queue' = Queue \cup {Len(m_tuningRequests) + 1}
        /\ \A i \in Queue : m_tuningRequests'[i] = m_tuningRequests[i]
        /\ m_tuningRequests'[Len(m_tuningRequests) + 1] = r
    BY <1>1, <1>3, QueueAppended
  <2>3. \A i \in Queue' : Formed(m_tuningRequests'[i])
    BY <1>3, <2>2 DEF RequestState
  <2>4. QED BY <1>3, <2>1, <2>3 DEF RequestState, Formed, New, Kill
<1>4. CASE HandleStateChange
  <2>1. m_lastTuningRequest' = m_lastTuningRequest
    BY <1>4 DEF HandleStateChange
  <2>2. CASE m_tuningRequests' = m_tuningRequests
    <3>1. \/ m_internalState' = m_internalState
          \/ m_internalState # "None" /\ m_internalState' # "None"
          \/ \E r \in Requests : m_tuningRequests' = Append(m_tuningRequests, r)
      BY <1>4, QueueAfterChange
    <3>2. \A r \in Requests : Append(m_tuningRequests, r) # m_tuningRequests
      <4>1. \A r \in Requests : Len(Append(m_tuningRequests, r)) # Len(m_tuningRequests)
        BY <1>1
      <4>2. QED BY <4>1
    <3>3. QED
      BY <1>2, <2>1, <2>2, <3>1, <3>2, QueueSame DEF RequestState, Formed, New, Kill, Queue
  <2>3. CASE m_tuningRequests' # m_tuningRequests
    <3>1. PICK r \in Requests :
            /\ m_tuningRequests' = Append(m_tuningRequests, r)
            /\ \/ m_internalState' # "None" /\ r = Request({"LiveTV"}, Null)
               \/ m_internalState' # "None" /\ r = Request({"Recording"}, m_curRecording)
               \/ m_internalState' = "None" /\ Full(r)
      BY <1>4, <2>3, QueueAfterChange
    <3>2. Formed(r) /\ (New(r) <=> m_internalState' # "None")
      BY <3>1 DEF Formed, New, Kill, Full, NoRec, Request
    <3>3. QED BY <1>3, <2>1, <3>1, <3>2
  <2>4. QED BY <2>2, <2>3
<1>5. CASE RequestTaken
  <2>1. m_tuningRequests # <<>>
    BY <1>5 DEF QueueFilled, Shutting, RequestTaken
  <2>2. /\ m_lastTuningRequest' = Front /\ m_tuningRequests' = Tail(m_tuningRequests)
        /\ m_internalState' = m_internalState
    BY <1>5 DEF RequestTaken, stateVars
  <2>3. LastIsNew' <=> LastIsNew
    BY <1>1, <2>1, <2>2, KillTaken
  <2>4. /\ 1 \in Queue /\ Front = m_tuningRequests[1]
        /\ \A i \in Queue' : i + 1 \in Queue /\ m_tuningRequests'[i] = m_tuningRequests[i + 1]
    BY <1>1, <2>1, <2>2, QueueTaken
  <2>5. \A i \in Queue' : Formed(m_tuningRequests'[i])
    BY <2>4 DEF RequestState
  <2>6. Formed(Front)
    BY <2>4 DEF RequestState
  <2>7. QED BY <2>2, <2>3, <2>5, <2>6 DEF RequestState, Formed, New, Kill
<1>6. CASE TuningFails
  <2>1. m_internalState' = m_internalState /\ m_lastTuningRequest' = m_lastTuningRequest
    BY <1>6 DEF TuningFails, FrequencyFrame
  <2>2. CASE m_internalState # "None"
    BY <1>2, <1>6, <2>1, <2>2 DEF TuningFails
  <2>3. CASE m_internalState = "None"
    <3>1. PICK r \in Requests : r = Request({"KillRec"}, Null)
      BY DEF Request, Requests, RequestFlags, NoRec
    <3>2. /\ m_tuningRequests' = Append(m_tuningRequests, r)
          /\ Formed(r) /\ ~ New(r)
      BY <1>6, <2>3, <3>1 DEF TuningFails, New, Kill, Formed, Request, NoRec
    <3>3. QED BY <1>3, <2>1, <2>3, <3>2
  <2>4. QED BY <2>2, <2>3
<1>7. CASE Other
  <2>1. m_internalState' = m_internalState /\ m_lastTuningRequest' = m_lastTuningRequest
    BY <1>7 DEF Other, OtherFrame
  <2>2. CASE Channels
    <3>1. PICK r \in Requests : r = Request(m_lastTuningRequest.flags \cap ({"LiveTV", "Recording"} \cup NoRec), Null)
      BY <1>1 DEF Request, Requests
    <3>2. m_tuningRequests = <<>> /\ m_tuningRequests' = Append(m_tuningRequests, r)
      BY <2>2, <3>1 DEF Channels
    <3>3. (New(r) <=> LastIsNew) /\ Formed(r)
      BY <3>1, <3>2 DEF New, Kill, Formed, NoRec, LastIsNew, LastRequest, Request, RequestState
    <3>4. m_internalState # "None" <=> LastIsNew
      BY DEF NoneState, RequestState
    <3>5. QED BY <1>3, <2>1, <3>2, <3>3, <3>4
  <2>3. CASE ~ Channels
    BY <1>2, <1>7, <2>1, <2>3 DEF Other, Quiet, BeginsRecording, Asks, Spawns, LeavesLive
  <2>4. QED BY <2>2, <2>3
<1>8. CASE TuningShutdowns
  BY <1>2, <1>8 DEF TuningShutdowns, stateVars, tuneVars
<1>9. CASE TeardownStop
  BY <1>2, <1>9 DEF TeardownStop, stateVars, tuneVars
<1>10. CASE TeardownFinish
  BY <1>2, <1>10 DEF TeardownFinish, stateVars, tuneVars
<1>11. CASE TeardownEnd
  BY <1>2, <1>11 DEF TeardownEnd, stateVars, tuneVars
<1>12. CASE WaitForRecPause
  BY <1>2, <1>12 DEF WaitForRecPause, stateVars, tuneVars
<1>13. CASE TuningOnSameMultiplex
  BY <1>2, <1>13 DEF TuningOnSameMultiplex, FrequencyFrame, stateVars, tuneVars
<1>14. CASE TuningRecording
  BY <1>2, <1>14 DEF TuningRecording, FrequencyFrame, stateVars, tuneVars
<1>15. CASE TuningLive
  BY <1>2, <1>15 DEF TuningLive, FrequencyFrame, stateVars, tuneVars
<1>16. CASE TuningLiveFails
  BY <1>2, <1>16 DEF TuningLiveFails, FrequencyFrame, stateVars, tuneVars
<1>17. CASE TuningSignalCheck
  BY <1>2, <1>17 DEF TuningSignalCheck, stateVars, tuneVars
<1>18. CASE NoSignalCheck
  BY <1>2, <1>18 DEF NoSignalCheck, stateVars, tuneVars
<1>19. CASE NewRecorderLive
  BY <1>2, <1>19 DEF NewRecorderLive, StartFrame, stateVars, tuneVars
<1>20. CASE NewRecorderFile
  BY <1>2, <1>20 DEF NewRecorderFile, StartFrame, stateVars, tuneVars
<1>21. CASE NewRecorderCrash
  BY <1>2, <1>21 DEF NewRecorderCrash, StartFrame, stateVars, tuneVars
<1>22. CASE NewRecorderNoFile
  BY <1>2, <1>22 DEF NewRecorderNoFile, StartFrame, stateVars, tuneVars
<1>23. CASE CreateRecorder
  BY <1>2, <1>23 DEF CreateRecorder, StartFrame, stateVars, tuneVars
<1>24. CASE CreateRecorderFails
  BY <1>2, <1>24 DEF CreateRecorderFails, StartFrame, stateVars, tuneVars
<1>25. CASE RecorderStarted
  BY <1>2, <1>25 DEF RecorderStarted, StartFrame, stateVars, tuneVars
<1>26. CASE TuningRestartRecorder
  BY <1>2, <1>26 DEF TuningRestartRecorder, StartFrame, stateVars, tuneVars
<1>27. CASE TuningRestartFails
  BY <1>2, <1>27 DEF TuningRestartFails, StartFrame, stateVars, tuneVars
<1>28. CASE HandlePendingRecordings
  BY <1>2, <1>28 DEF HandlePendingRecordings, LoopFrame, stateVars, tuneVars
<1>29. CASE CheckEnd
  BY <1>2, <1>29 DEF CheckEnd, LoopFrame, stateVars, tuneVars
<1>30. CASE CheckLive
  BY <1>2, <1>30 DEF CheckLive, CheckLiveFrame, LoopFrame, stateVars, tuneVars
<1>31. CASE SwitchLive
  BY <1>2, <1>31 DEF SwitchLive, CheckLiveFrame, LoopFrame, stateVars, tuneVars
<1>32. CASE RingBufferChanged
  BY <1>2, <1>32 DEF RingBufferChanged, ElseFrame, stateVars, tuneVars
<1>33. QED
  BY OtherStep, <1>4, <1>5, <1>6, <1>7, <1>8, <1>9, <1>10, <1>11, <1>12, <1>13, <1>14, <1>15,
         <1>16, <1>17, <1>18, <1>19, <1>20, <1>21, <1>22, <1>23, <1>24, <1>25, <1>26, <1>27,
         <1>28, <1>29, <1>30, <1>31, <1>32
     DEF EventThread, HandleTuning, TuningFrequency

\* Every step preserves WaitState.
LEMMA WaitStep ==
  ASSUME TypeOK, ProgramGiven, QueueFilled, LockHeld, RequestState, WaitState, Next
  PROVE  WaitState'
<1>1. CASE HandleStateChange
  BY <1>1 DEF HandleStateChange, WaitState, PauseNext, TuningNext, PendingNext, PendingActions
<1>2. CASE TuningShutdowns
  BY <1>2 DEF TuningShutdowns, WaitState, Front, Kill, PendingActions, TypeOK, stateVars,
         tuneVars
<1>3. CASE TeardownStop
  BY <1>3 DEF TeardownStop, WaitState, Front, Kill, PendingActions, TypeOK, stateVars, tuneVars
<1>4. CASE TeardownFinish
  BY <1>4 DEF TeardownFinish, WaitState, Front, Kill, PendingActions, TypeOK, stateVars,
         tuneVars
<1>5. CASE TeardownEnd
  BY <1>5 DEF TeardownEnd, WaitState, Front, Kill, PendingActions, TypeOK, stateVars, tuneVars
<1>6. CASE RequestTaken
  <2>1. m_tuningRequests # <<>>
    BY <1>6 DEF QueueFilled, Shutting, RequestTaken
  <2>2. Front = m_tuningRequests[1] /\ 1 \in Queue
    BY <2>1 DEF Front, Queue, TypeOK
  <2>3. New(Front) => ~ m_changeState
    BY <1>6, <2>2 DEF RequestTaken, RequestState, Formed, WaitState
  <2>4. m_changeState' = m_changeState
    BY <1>6 DEF RequestTaken, stateVars
  <2>5. QED
    BY <1>6, <2>3, <2>4 DEF RequestTaken, WaitState, New, PauseNext, TuningNext, PendingNext,
         PendingActions
<1>7. CASE WaitForRecPause
  BY <1>7 DEF WaitForRecPause, PendingNext, WaitState, Front, Kill, PendingActions, TypeOK,
         stateVars, tuneVars
<1>8. CASE TuningFails
  BY <1>8 DEF TuningFails, TuningNext, PendingNext, FrequencyFrame, WaitState, Front, Kill,
         PendingActions, TypeOK, stateVars, tuneVars
<1>9. CASE TuningOnSameMultiplex
  BY <1>9 DEF TuningOnSameMultiplex, TuningNext, PendingNext, FrequencyFrame, WaitState, Front,
         Kill, PendingActions, TypeOK, stateVars, tuneVars
<1>10. CASE TuningRecording
  BY <1>10 DEF TuningRecording, MonitorErrors, Monitored, TuningNext, PendingNext,
         FrequencyFrame, WaitState, Front, Kill, PendingActions, TypeOK, stateVars, tuneVars
<1>11. CASE TuningLive
  BY <1>11 DEF TuningLive, MonitorErrors, Monitored, LiveFile, TuningNext, PendingNext,
         FrequencyFrame, WaitState, Front, Kill, PendingActions, TypeOK, stateVars, tuneVars
<1>12. CASE TuningLiveFails
  BY <1>12 DEF TuningLiveFails, TuningNext, PendingNext, FrequencyFrame, WaitState, Front, Kill,
         PendingActions, TypeOK, stateVars, tuneVars
<1>13. CASE TuningSignalCheck
  BY <1>13 DEF TuningSignalCheck, Signal, TuningNext, PendingNext, WaitState, Front, Kill,
         PendingActions, TypeOK, stateVars, tuneVars
<1>14. CASE NoSignalCheck
  BY <1>14 DEF NoSignalCheck, PendingNext, WaitState, Front, Kill, PendingActions, TypeOK,
         stateVars, tuneVars
<1>15. CASE NewRecorderLive
  BY <1>15 DEF NewRecorderLive, LiveFile, StartFrame, WaitState, Front, Kill, PendingActions,
         TypeOK, stateVars, tuneVars
<1>16. CASE NewRecorderFile
  BY <1>16 DEF NewRecorderFile, StartFrame, WaitState, Front, Kill, PendingActions, TypeOK,
         stateVars, tuneVars
<1>17. CASE NewRecorderCrash
  BY <1>17 DEF NewRecorderCrash, StartFrame, WaitState, Front, Kill, PendingActions, TypeOK,
         stateVars, tuneVars
<1>18. CASE NewRecorderNoFile
  BY <1>18 DEF NewRecorderNoFile, NewRecorderFailed, PendingNext, StartFrame, WaitState, Front,
         Kill, PendingActions, TypeOK, stateVars, tuneVars
<1>19. CASE CreateRecorder
  BY <1>19 DEF CreateRecorder, StartFrame, WaitState, Front, Kill, PendingActions, TypeOK,
         stateVars, tuneVars
<1>20. CASE CreateRecorderFails
  BY <1>20 DEF CreateRecorderFails, NewRecorderFailed, PendingNext, StartFrame, WaitState,
         Front, Kill, PendingActions, TypeOK, stateVars, tuneVars
<1>21. CASE RecorderStarted
  BY <1>21 DEF RecorderStarted, PendingNext, StartFrame, WaitState, Front, Kill, PendingActions,
         TypeOK, stateVars, tuneVars
<1>22. CASE TuningRestartRecorder
  BY <1>22 DEF TuningRestartRecorder, LiveFile, PendingNext, StartFrame, WaitState, Front, Kill,
         PendingActions, TypeOK, stateVars, tuneVars
<1>23. CASE TuningRestartFails
  BY <1>23 DEF TuningRestartFails, PendingNext, StartFrame, WaitState, Front, Kill,
         PendingActions, TypeOK, stateVars, tuneVars
<1>24. CASE HandlePendingRecordings
  BY <1>24 DEF HandlePendingRecordings, LoopFrame, WaitState, Front, Kill, PendingActions,
         TypeOK, stateVars, tuneVars
<1>25. CASE CheckEnd
  BY <1>25 DEF CheckEnd, Awake, LoopEnds, LoopFrame, WaitState, Front, Kill, PendingActions,
         TypeOK, stateVars, tuneVars
<1>26. CASE CheckLive
  BY <1>26 DEF CheckLive, CheckLiveFrame, LoopEnds, LoopFrame, WaitState, Front, Kill,
         PendingActions, TypeOK, stateVars, tuneVars
<1>27. CASE SwitchLive
  BY <1>27 DEF SwitchLive, CheckLiveFrame, LoopEnds, LoopFrame, WaitState, Front, Kill,
         PendingActions, TypeOK, stateVars, tuneVars
<1>28. CASE RingBufferChanged
  BY <1>28 DEF RingBufferChanged, ElseFrame, Front, Kill, WaitState, Front, Kill,
         PendingActions, TypeOK, stateVars, tuneVars
<1>29. CASE Other
  <2>1. epc' = epc /\ \A f \in CoreFlags : f \in m_stateFlags' <=> f \in m_stateFlags
    BY <1>29 DEF Other, OtherFrame
  <2>2. epc \in {"tune", "pause", "frequency", "shut"} => m_changeState' = m_changeState /\ m_tuningRequests' = m_tuningRequests
    BY <1>29 DEF Other, Quiet, BeginsRecording, Asks, Spawns, LeavesLive, Channels, LockHeld, Unlocked
  <2>3. epc \in {"teardown", "torn", "relock"} => m_tuningRequests' = m_tuningRequests
    BY <1>29 DEF Other, Quiet, BeginsRecording, Asks, Spawns, LeavesLive, Channels, QueueFilled,
         Shutting
  <2>4. QED
    BY <2>1, <2>2, <2>3 DEF WaitState, Front, Kill, CoreFlags, PendingActions
<1>30. QED
  BY OtherStep, <1>1, <1>2, <1>3, <1>4, <1>5, <1>6, <1>7, <1>8, <1>9, <1>10, <1>11, <1>12,
         <1>13, <1>14, <1>15, <1>16, <1>17, <1>18, <1>19, <1>20, <1>21, <1>22, <1>23, <1>24,
         <1>25, <1>26, <1>27, <1>28, <1>29
     DEF EventThread, HandleTuning, TuningFrequency

\* Nothing changes with the queue unchanged.
LEMMA QueueKept ==
  ASSUME m_tuningRequests' = m_tuningRequests
  PROVE  /\ NothingNew' <=> NothingNew
         /\ FirstNew' <=> FirstNew
         /\ NoFull' <=> NoFull
         /\ NoKill' <=> NoKill
BY DEF NothingNew, FirstNew, NoFull, NoKill, Queue, Full, Kill, New

\* Every step preserves QueueState.
LEMMA QueueStep ==
  ASSUME TypeOK, ProgramGiven, QueueFilled, LockHeld, NoneState, RequestState, WaitState,
         QueueState, Next
  PROVE  QueueState'
<1>1. m_tuningRequests \in Seq(Requests) /\ Len(m_tuningRequests) \in Nat
  BY DEF TypeOK
<1>2. m_tuningRequests' = m_tuningRequests =>
        /\ NothingNew' <=> NothingNew
        /\ FirstNew' <=> FirstNew
        /\ NoFull' <=> NoFull
        /\ NoKill' <=> NoKill
  BY QueueKept
<1>3. /\ NothingNew => FirstNew
      /\ m_tuningRequests = <<>> => NothingNew /\ NoFull /\ NoKill
  BY DEF NothingNew, FirstNew, NoFull, NoKill, Queue
<1>4. CASE HandleStateChange
  <2>1. ~ m_changeState' /\ epc' = (IF m_tuningRequests' # <<>> THEN "tune" ELSE PauseNext(m_stateFlags)) /\ epc \in {"top", "asleep"}
    BY <1>4 DEF HandleStateChange, Awake
  <2>2. PauseNext(m_stateFlags) \notin Shutting \cup {"asleep"}
    BY DEF PauseNext, TuningNext, PendingNext, Shutting
  <2>3. CASE m_tuningRequests' = m_tuningRequests /\ (m_internalState' = "None" => m_internalState = "None")
    <3>0. Len(m_tuningRequests) <= 1 \/ Len(m_tuningRequests) = 2
      BY <2>1 DEF QueueState, Shutting
    <3>1. Len(m_tuningRequests) <= 2
      <4>1. PICK n \in Nat : n = Len(m_tuningRequests)
        BY <1>1
      <4>2. QED BY <3>0, <4>1
    <3>2. m_tuningRequests = <<>> => Len(m_tuningRequests) <= 1
      OBVIOUS
    <3>3. m_internalState' = "None" => NothingNew
      BY <2>1, <2>3 DEF QueueState, Shutting
    <3>4. QED
      BY <1>2, <1>3, <2>1, <2>2, <2>3, <3>1, <3>2, <3>3 DEF QueueState, Shutting
  <2>4. CASE \E r \in Requests :
              /\ m_tuningRequests' = Append(m_tuningRequests, r)
              /\ m_internalState = "None" => Begun
              /\ m_internalState' = "None" => Full(r)
    <3>1. PICK r \in Requests :
              /\ m_tuningRequests' = Append(m_tuningRequests, r)
              /\ m_internalState = "None" => Begun
              /\ m_internalState' = "None" => Full(r)
      BY <2>4
    <3>2. Len(m_tuningRequests) <= 1
      BY <1>1, <2>1, <3>1 DEF QueueState, Shutting
    <3>3. /\ Queue' = Queue \cup {Len(m_tuningRequests) + 1}
          /\ \A i \in Queue : m_tuningRequests'[i] = m_tuningRequests[i]
          /\ m_tuningRequests'[Len(m_tuningRequests) + 1] = r
          /\ m_tuningRequests' # <<>>
      BY <1>1, <3>1, QueueAppended
    <3>4. Len(m_tuningRequests') <= 2
      BY <1>1, <3>1, <3>2
    <3>5. Queue \subseteq {1}
      BY <1>1, <3>2 DEF Queue
    <3>6. m_internalState' = "None" => FirstNew'
      BY <3>1, <3>3, <3>5 DEF FirstNew, Full, New
    <3>7. epc' = "tune"
      BY <2>1, <3>3
    <3>8. QED BY <3>4, <3>6, <3>7 DEF QueueState, Shutting
  <2>5. QED
    BY <1>4, <2>3, <2>4, QueueAfterChange DEF Begun
<1>5. CASE TuningShutdowns
  BY <1>5, <1>1, <1>2, <1>3 DEF TuningShutdowns, QueueState, Shutting, Begun, stateVars,
         tuneVars
<1>6. CASE TeardownStop
  BY <1>6, <1>1, <1>2, <1>3 DEF TeardownStop, QueueState, Shutting, Begun, stateVars, tuneVars
<1>7. CASE TeardownFinish
  BY <1>7, <1>1, <1>2, <1>3 DEF TeardownFinish, QueueState, Shutting, Begun, stateVars, tuneVars
<1>8. CASE TeardownEnd
  BY <1>8, <1>1, <1>2, <1>3 DEF TeardownEnd, QueueState, Shutting, Begun, stateVars, tuneVars
<1>9. CASE RequestTaken
  <2>1. m_tuningRequests # <<>> /\ epc = "shut"
    BY <1>9 DEF QueueFilled, Shutting, RequestTaken
  <2>2. m_lastTuningRequest' = Front /\ m_tuningRequests' = Tail(m_tuningRequests) /\ m_internalState' = m_internalState
    BY <1>9 DEF RequestTaken, stateVars
  <2>3. epc' \notin Shutting \cup {"asleep"}
    BY <1>9 DEF RequestTaken, PauseNext, TuningNext, PendingNext, Shutting
  <2>4. Len(m_tuningRequests') <= 1
    BY <1>1, <2>1, <2>2 DEF QueueState, Shutting
  <2>5. \A i \in Queue' : i \in Nat /\ i >= 1 /\ i + 1 \in Queue /\ m_tuningRequests'[i] = m_tuningRequests[i + 1]
    BY <1>1, <2>1, <2>2, QueueTaken
  <2>6. FirstNew => NothingNew'
    <3>1. \A i \in Queue' : i + 1 # 1
      BY <2>5
    <3>2. QED BY <2>5, <3>1 DEF FirstNew, NothingNew, New
  <2>7. QED
    BY <2>1, <2>2, <2>3, <2>4, <2>6 DEF QueueState, Shutting
<1>10. CASE WaitForRecPause
  BY <1>10, <1>1, <1>2, <1>3 DEF WaitForRecPause, PendingNext, QueueState, Shutting, Begun,
         stateVars, tuneVars
<1>11. CASE TuningFails
  <2>1. /\ m_internalState' = m_internalState /\ epc = "frequency"
        /\ epc' \in {"pending", "ends"}
    BY <1>11 DEF TuningFails, FrequencyFrame, TuningNext, PendingNext, WaitState, PendingActions
  <2>2. Len(m_tuningRequests) <= 1
    BY <2>1 DEF QueueState, Shutting
  <2>3. CASE m_internalState # "None"
    BY <1>11, <2>1, <2>2, <2>3 DEF TuningFails, QueueState, Shutting
  <2>4. CASE m_internalState = "None"
    <3>1. PICK r \in Requests : r = Request({"KillRec"}, Null)
      BY DEF Request, Requests, RequestFlags, NoRec
    <3>2. m_tuningRequests' = Append(m_tuningRequests, r) /\ ~ New(r) /\ m_changeState' = m_changeState
      BY <1>11, <2>4, <3>1 DEF TuningFails, NoStateChange, New, Request
    <3>3. NothingNew'
      BY <1>1, <2>1, <2>4, <3>2, KillAppended DEF QueueState, Shutting
    <3>4. Len(m_tuningRequests') = Len(m_tuningRequests) + 1
      BY <1>1, <3>2
    <3>5. ~ Begun'
      BY <2>1, <3>2 DEF Begun, WaitState
    <3>6. Len(m_tuningRequests') <= 1 \/ Len(m_tuningRequests') = 2
      BY <1>1, <2>2, <3>4
    <3>7. QED BY <2>1, <2>4, <3>3, <3>5, <3>6 DEF QueueState, Shutting
  <2>5. QED BY <2>3, <2>4
<1>12. CASE TuningOnSameMultiplex
  BY <1>12, <1>1, <1>2, <1>3 DEF TuningOnSameMultiplex, TuningNext, PendingNext, FrequencyFrame,
         QueueState, Shutting, Begun, stateVars, tuneVars
<1>13. CASE TuningRecording
  BY <1>13, <1>1, <1>2, <1>3 DEF TuningRecording, MonitorErrors, Monitored, TuningNext,
         PendingNext, FrequencyFrame, QueueState, Shutting, Begun, stateVars, tuneVars
<1>14. CASE TuningLive
  BY <1>14, <1>1, <1>2, <1>3 DEF TuningLive, MonitorErrors, Monitored, LiveFile, TuningNext,
         PendingNext, FrequencyFrame, QueueState, Shutting, Begun, stateVars, tuneVars
<1>15. CASE TuningLiveFails
  BY <1>15, <1>1, <1>2, <1>3 DEF TuningLiveFails, TuningNext, PendingNext, FrequencyFrame,
         QueueState, Shutting, Begun, stateVars, tuneVars
<1>16. CASE TuningSignalCheck
  BY <1>16, <1>1, <1>2, <1>3 DEF TuningSignalCheck, Signal, TuningNext, PendingNext, QueueState,
         Shutting, Begun, stateVars, tuneVars
<1>17. CASE NoSignalCheck
  BY <1>17, <1>1, <1>2, <1>3 DEF NoSignalCheck, PendingNext, QueueState, Shutting, Begun,
         stateVars, tuneVars
<1>18. CASE NewRecorderLive
  BY <1>18, <1>1, <1>2, <1>3 DEF NewRecorderLive, LiveFile, StartFrame, QueueState, Shutting,
         Begun, stateVars, tuneVars
<1>19. CASE NewRecorderFile
  BY <1>19, <1>1, <1>2, <1>3 DEF NewRecorderFile, StartFrame, QueueState, Shutting, Begun,
         stateVars, tuneVars
<1>20. CASE NewRecorderCrash
  BY <1>20, <1>1, <1>2, <1>3 DEF NewRecorderCrash, StartFrame, QueueState, Shutting, Begun,
         stateVars, tuneVars
<1>21. CASE NewRecorderNoFile
  BY <1>21, <1>1, <1>2, <1>3 DEF NewRecorderNoFile, NewRecorderFailed, PendingNext, StartFrame,
         QueueState, Shutting, Begun, stateVars, tuneVars
<1>22. CASE CreateRecorder
  BY <1>22, <1>1, <1>2, <1>3 DEF CreateRecorder, StartFrame, QueueState, Shutting, Begun,
         stateVars, tuneVars
<1>23. CASE CreateRecorderFails
  BY <1>23, <1>1, <1>2, <1>3 DEF CreateRecorderFails, NewRecorderFailed, PendingNext,
         StartFrame, QueueState, Shutting, Begun, stateVars, tuneVars
<1>24. CASE RecorderStarted
  BY <1>24, <1>1, <1>2, <1>3 DEF RecorderStarted, PendingNext, StartFrame, QueueState, Shutting,
         Begun, stateVars, tuneVars
<1>25. CASE TuningRestartRecorder
  BY <1>25, <1>1, <1>2, <1>3 DEF TuningRestartRecorder, LiveFile, PendingNext, StartFrame,
         QueueState, Shutting, Begun, stateVars, tuneVars
<1>26. CASE TuningRestartFails
  BY <1>26, <1>1, <1>2, <1>3 DEF TuningRestartFails, PendingNext, StartFrame, QueueState,
         Shutting, Begun, stateVars, tuneVars
<1>27. CASE HandlePendingRecordings
  BY <1>27, <1>1, <1>2, <1>3 DEF HandlePendingRecordings, LoopFrame, QueueState, Shutting,
         Begun, stateVars, tuneVars
<1>28. CASE CheckEnd
  BY <1>28, <1>1, <1>2, <1>3 DEF CheckEnd, Awake, LoopEnds, ChangeState, NoStateChange,
         GetState, LoopFrame, QueueState, Shutting, Begun, stateVars, tuneVars
<1>29. CASE CheckLive
  BY <1>29, <1>1, <1>2, <1>3 DEF CheckLive, CheckLiveFrame, LoopEnds, LoopFrame, NoneState,
         QueueState, Shutting, Begun, stateVars, tuneVars
<1>30. CASE SwitchLive
  BY <1>30, <1>1, <1>2, <1>3 DEF SwitchLive, CheckLiveFrame, LoopEnds, LoopFrame, NoneState,
         QueueState, Shutting, Begun, stateVars, tuneVars
<1>31. CASE RingBufferChanged
  BY <1>31, <1>1, <1>2, <1>3 DEF RingBufferChanged, ElseFrame, Front, Kill, QueueState,
         Shutting, Begun, stateVars, tuneVars
<1>32. CASE Other
  <2>1. m_internalState' = m_internalState /\ epc' = epc /\ m_lastTuningRequest' = m_lastTuningRequest
    BY <1>32 DEF Other, OtherFrame
  <2>2. CASE Channels
    <3>1. PICK r \in Requests : r = Request(m_lastTuningRequest.flags \cap ({"LiveTV", "Recording"} \cup NoRec), Null)
      BY DEF TypeOK, Request, Requests
    <3>2. m_tuningRequests = <<>> /\ m_tuningRequests' = <<r>>
      BY <2>2, <3>1 DEF Channels
    <3>3. epc \notin Shutting
      BY <3>2 DEF QueueFilled
    <3>4. Len(m_tuningRequests') = 1 /\ Queue' = {1} /\ m_tuningRequests'[1] = r
      BY <3>2 DEF Queue
    <3>5. (New(r) <=> LastIsNew) /\ ~ Full(r) /\ (New(r) => ~ Kill(r))
      BY <3>1, <3>2 DEF New, Kill, Full, NoRec, LastIsNew, LastRequest, Request, RequestState, Formed
    <3>6. m_internalState # "None" <=> LastIsNew
      BY DEF NoneState, RequestState
    <3>7. (~ New(r) => NothingNew') /\ NoFull' /\ (~ Kill(r) => NoKill')
      BY <3>4, <3>5 DEF NothingNew, NoFull, NoKill, New, Full, Kill
    <3>8. QED
      BY <2>1, <3>3, <3>4, <3>5, <3>6, <3>7 DEF QueueState
  <2>3. CASE ~ Channels
    <3>1. m_tuningRequests' = m_tuningRequests
      BY <1>32, <2>3 DEF Other, Quiet, BeginsRecording, Asks, Spawns, LeavesLive
    <3>2. epc \in {"pending", "ends", "top"} => (Begun' <=> Begun)
      BY <1>32, <2>3 DEF Other, Quiet, BeginsRecording, Asks, Spawns, LeavesLive, LockHeld,
           Unlocked, Begun
    <3>3. QED BY <1>2, <2>1, <3>1, <3>2 DEF QueueState
  <2>4. QED BY <2>2, <2>3
<1>33. QED
  BY OtherStep, <1>4, <1>5, <1>6, <1>7, <1>8, <1>9, <1>10, <1>11, <1>12, <1>13, <1>14, <1>15,
         <1>16, <1>17, <1>18, <1>19, <1>20, <1>21, <1>22, <1>23, <1>24, <1>25, <1>26, <1>27,
         <1>28, <1>29, <1>30, <1>31, <1>32
     DEF EventThread, HandleTuning, TuningFrequency

-----------------------------------------------------------------------------
(* The recording of a request *)

\* A client that gets the lock in the state None finds no request to record:
\* the one that is torn down was first.
LEMMA NothingNewWhenNone ==
  ASSUME TypeOK, QueueFilled, LockHeld, RequestState, WaitState, QueueState, m_internalState = "None", lock = Null
  PROVE  NothingNew
<1>1. epc \in {"asleep", "starting"} => NothingNew
  BY DEF QueueState, Shutting
<1>2. CASE epc \in {"teardown", "torn", "relock"}
  <2>1. m_tuningRequests # <<>> /\ FirstNew /\ Kill(Front)
    BY <1>2 DEF QueueFilled, QueueState, WaitState, Shutting
  <2>2. Front = m_tuningRequests[1] /\ 1 \in Queue
    BY <2>1 DEF Front, Queue, TypeOK
  <2>3. ~ New(m_tuningRequests[1])
    BY <2>1, <2>2 DEF RequestState, Formed
  <2>4. QED BY <2>1, <2>3 DEF FirstNew, NothingNew
<1>3. QED BY <1>1, <1>2 DEF LockHeld, Unlocked

\* The recordings that requests name, with the queue unchanged ...
LEMMA ProgramsKept ==
  ASSUME m_tuningRequests' = m_tuningRequests
  PROVE  /\ NoProgram' <=> NoProgram
         /\ NoLaterProgram' <=> NoLaterProgram
         /\ OwnProgram /\ m_curRecording' = m_curRecording => OwnProgram'
         /\ NoProgram => OwnProgram'
         /\ NothingNew => NoProgram
BY DEF NoProgram, NoLaterProgram, OwnProgram, NothingNew, Queue, New, ForRecording

\* ... after a request is appended ...
LEMMA ProgramsAppended ==
  ASSUME m_tuningRequests \in Seq(Requests), NEW r \in Requests,
         m_tuningRequests' = Append(m_tuningRequests, r), m_curRecording' = m_curRecording
  PROVE  /\ OwnProgram /\ r.program \in {m_curRecording, Null} => OwnProgram'
         /\ NoProgram /\ r.program = Null => NoProgram'
         /\ NoLaterProgram /\ (NothingNew \/ ~ ForRecording(r)) => NoLaterProgram'
<1> DEFINE n == Len(m_tuningRequests) + 1
<1>1. /\ Queue' = Queue \cup {n}
      /\ \A i \in Queue : m_tuningRequests'[i] = m_tuningRequests[i]
      /\ m_tuningRequests'[n] = r
      /\ \A i \in Queue : i < n /\ i \in Nat
      /\ n \in Nat
  BY QueueAppended
<1> HIDE DEF n
<1>2. OwnProgram /\ r.program \in {m_curRecording, Null} => OwnProgram'
  BY <1>1 DEF OwnProgram, ForRecording
<1>3. NoProgram /\ r.program = Null => NoProgram'
  BY <1>1 DEF NoProgram, ForRecording
<1>4. ASSUME NoLaterProgram, NothingNew \/ ~ ForRecording(r) PROVE NoLaterProgram'
  <2>1. SUFFICES ASSUME NEW i \in Queue', NEW j \in Queue', i < j,
                        m_tuningRequests'[i].flags \cap {"LiveTV", "Recording"} # {},
                        "Recording" \in m_tuningRequests'[j].flags
                 PROVE  m_tuningRequests'[j].program = Null
    BY DEF NoLaterProgram, New, ForRecording
  <2>2. i \in Queue
    BY <1>1, <2>1
  <2>3. CASE j \in Queue
    BY <1>1, <1>4, <2>1, <2>2, <2>3 DEF NoLaterProgram, New, ForRecording
  <2>4. CASE j = n
    BY <1>1, <1>4, <2>1, <2>2, <2>4 DEF NothingNew, New, ForRecording
  <2>5. QED BY <1>1, <2>3, <2>4
<1>5. QED BY <1>2, <1>3, <1>4

\* ... and after the first was taken.
LEMMA ProgramsTaken ==
  ASSUME m_tuningRequests \in Seq(Requests), m_tuningRequests # <<>>,
         m_lastTuningRequest' = Front, m_tuningRequests' = Tail(m_tuningRequests),
         m_curRecording' = m_curRecording
  PROVE  /\ OwnProgram => OwnProgram' /\ (ForRecording(Front) => Front.program \in {m_curRecording, Null})
         /\ NoLaterProgram => NoLaterProgram'
         /\ NoLaterProgram /\ New(Front) => NoProgram'
         /\ NoKill' /\ ~ Kill(Front) => NoKill
<1>1. /\ 1 \in Queue /\ Front = m_tuningRequests[1]
      /\ \A i \in Queue' : i \in Nat /\ i >= 1 /\ i + 1 \in Queue /\ m_tuningRequests'[i] = m_tuningRequests[i + 1]
      /\ \A i \in Queue : i \in Nat /\ (i = 1 \/ (i - 1 \in Queue' /\ m_tuningRequests'[i - 1] = m_tuningRequests[i]))
  BY QueueTaken
<1>2. OwnProgram => OwnProgram' /\ (ForRecording(Front) => Front.program \in {m_curRecording, Null})
  BY <1>1 DEF OwnProgram, ForRecording
<1>3. NoLaterProgram /\ New(Front) => NoProgram'
  <2>1. \A i \in Queue' : 1 < i + 1
    BY <1>1
  <2>2. QED BY <1>1, <2>1 DEF NoLaterProgram, NoProgram, ForRecording
<1>4. ASSUME NoLaterProgram PROVE NoLaterProgram'
  <2>1. SUFFICES ASSUME NEW i \in Queue', NEW j \in Queue', i < j,
                        m_tuningRequests'[i].flags \cap {"LiveTV", "Recording"} # {},
                        "Recording" \in m_tuningRequests'[j].flags
                 PROVE  m_tuningRequests'[j].program = Null
    BY DEF NoLaterProgram, New, ForRecording
  <2>2. i + 1 \in Queue /\ j + 1 \in Queue /\ i + 1 < j + 1
    BY <1>1, <2>1
  <2>3. m_tuningRequests'[i] = m_tuningRequests[i + 1] /\ m_tuningRequests'[j] = m_tuningRequests[j + 1]
    BY <1>1, <2>1
  <2>4. New(m_tuningRequests[i + 1]) /\ ForRecording(m_tuningRequests[j + 1])
    BY <2>1, <2>3 DEF New, ForRecording
  <2>5. m_tuningRequests[j + 1].program = Null
    BY <1>4, <2>2, <2>4 DEF NoLaterProgram
  <2>6. QED BY <2>3, <2>5
<1>5. NoKill' /\ ~ Kill(Front) => NoKill
  BY <1>1 DEF NoKill, Kill
<1>6. QED BY <1>2, <1>3, <1>4, <1>5

\* Every step preserves ProgramState.
LEMMA ProgramsStep ==
  ASSUME TypeOK, ProgramGiven, QueueFilled, LockHeld, RecorderState, NoneState, RequestState,
         WaitState, QueueState, ProgramState, Next
  PROVE  ProgramState'
<1>1. m_tuningRequests \in Seq(Requests)
  BY DEF TypeOK
<1>2. m_tuningRequests' = m_tuningRequests =>
        /\ NoProgram' <=> NoProgram
        /\ NoLaterProgram' <=> NoLaterProgram
        /\ OwnProgram /\ m_curRecording' = m_curRecording => OwnProgram'
        /\ NoProgram => OwnProgram'
        /\ NothingNew => NoProgram
  BY ProgramsKept
<1>3. CASE HandleStateChange
  <2>1. /\ epc' = (IF m_tuningRequests' # <<>> THEN "tune" ELSE PauseNext(m_stateFlags)) /\ epc \in {"top", "asleep"}
        /\ m_curRecording' = m_curRecording /\ m_recorder' = m_recorder
    BY <1>3 DEF HandleStateChange, Awake, recorderVars
  <2>2. CASE m_tuningRequests' = m_tuningRequests
    <3>1. m_tuningRequests = <<>> => NoProgram
      BY DEF NoProgram, Queue
    <3>2. QED BY <1>2, <2>1, <2>2, <3>1 DEF ProgramState, Phases
  <2>3. CASE \E r \in Requests :
              /\ m_tuningRequests' = Append(m_tuningRequests, r)
              /\ \/ m_internalState = "None" /\ r = Request({"LiveTV"}, Null)
                 \/ m_internalState = "None" /\ r = Request({"Recording"}, m_curRecording)
                 \/ Full(r)
    <3>1. PICK r \in Requests :
              /\ m_tuningRequests' = Append(m_tuningRequests, r)
              /\ \/ m_internalState = "None" /\ r = Request({"LiveTV"}, Null)
                 \/ m_internalState = "None" /\ r = Request({"Recording"}, m_curRecording)
                 \/ Full(r)
      BY <2>3
    <3>2. NothingNew \/ ~ ForRecording(r)
      BY <2>1, <3>1 DEF QueueState, Shutting, ForRecording, Full, New, Request
    <3>3. NoLaterProgram'
      BY <1>1, <2>1, <3>1, <3>2, ProgramsAppended DEF ProgramState
    <3>4. OwnProgram => OwnProgram'
      <4>1. CASE ForRecording(r)
        <5>1. r.program \in {m_curRecording, Null}
          BY <3>1, <4>1 DEF ForRecording, Full, New, Request
        <5>2. QED BY <1>1, <2>1, <3>1, <5>1, ProgramsAppended
      <4>2. CASE ~ ForRecording(r)
        <5>1. /\ Queue' = Queue \cup {Len(m_tuningRequests) + 1}
              /\ \A i \in Queue : m_tuningRequests'[i] = m_tuningRequests[i]
              /\ m_tuningRequests'[Len(m_tuningRequests) + 1] = r
          BY <1>1, <3>1, QueueAppended
        <5>2. QED BY <2>1, <4>2, <5>1 DEF OwnProgram, ForRecording
      <4>3. QED BY <4>1, <4>2
    <3>5. epc' = "tune"
      BY <1>1, <2>1, <3>1, QueueAppended
    <3>6. epc # "torn"
      BY <2>1
    <3>7. QED BY <2>1, <3>3, <3>4, <3>5, <3>6 DEF ProgramState, Phases
  <2>4. QED BY <1>3, <2>2, <2>3, QueueAfterChange
<1>4. CASE TuningShutdowns
  BY <1>4, <1>2 DEF TuningShutdowns, ProgramState, Phases, stateVars, tuneVars, recorderVars
<1>5. CASE TeardownStop
  BY <1>5, <1>2 DEF TeardownStop, ProgramState, Phases, stateVars, tuneVars, recorderVars
<1>6. CASE TeardownFinish
  BY <1>6, <1>2 DEF TeardownFinish, ProgramState, Phases, stateVars, tuneVars, recorderVars
<1>7. CASE TeardownEnd
  BY <1>7, <1>2 DEF TeardownEnd, ProgramState, Phases, stateVars, tuneVars, recorderVars
<1>8. CASE RequestTaken
  <2>1. m_tuningRequests # <<>> /\ epc = "shut"
    BY <1>8 DEF QueueFilled, Shutting, RequestTaken
  <2>2. /\ m_lastTuningRequest' = Front /\ m_tuningRequests' = Tail(m_tuningRequests)
        /\ m_curRecording' = m_curRecording /\ m_recorder' = m_recorder
    BY <1>8 DEF RequestTaken, recorderVars
  <2>3. /\ OwnProgram => OwnProgram'
        /\ NoLaterProgram => NoLaterProgram'
        /\ NoLaterProgram /\ New(Front) => NoProgram'
    BY <1>1, <2>1, <2>2, ProgramsTaken
  <2>4. epc' \in Phases => New(Front)
    BY <1>8 DEF RequestTaken, PauseNext, TuningNext, PendingNext, PendingActions, Phases, New
  <2>5. epc' # "torn"
    BY <1>8 DEF RequestTaken, PauseNext, TuningNext, PendingNext
  <2>6. QED BY <2>1, <2>2, <2>3, <2>4 DEF ProgramState
<1>9. CASE WaitForRecPause
  BY <1>9, <1>2 DEF WaitForRecPause, PendingNext, ProgramState, Phases, stateVars, tuneVars,
         recorderVars
<1>10. CASE TuningFails
  <2>1. /\ epc = "frequency" /\ epc' \in {"pending", "ends"}
        /\ m_curRecording' = m_curRecording /\ m_recorder' = m_recorder
    BY <1>10 DEF TuningFails, FrequencyFrame, TuningNext, PendingNext, WaitState, PendingActions,
         recorderVars
  <2>2. CASE m_internalState # "None"
    BY <1>10, <1>2, <2>1, <2>2 DEF TuningFails, ProgramState, Phases
  <2>3. CASE m_internalState = "None"
    <3>1. PICK r \in Requests : r = Request({"KillRec"}, Null)
      BY DEF Request, Requests, RequestFlags, NoRec
    <3>2. m_tuningRequests' = Append(m_tuningRequests, r) /\ r.program = Null /\ ~ ForRecording(r)
      BY <1>10, <2>3, <3>1 DEF TuningFails, Request, ForRecording
    <3>3. OwnProgram => OwnProgram'
      BY <1>1, <2>1, <3>2, ProgramsAppended
    <3>4. NoLaterProgram => NoLaterProgram'
      BY <1>1, <2>1, <3>2, ProgramsAppended
    <3>5. QED BY <2>1, <3>3, <3>4 DEF ProgramState, Phases
  <2>4. QED BY <2>2, <2>3
<1>11. CASE TuningOnSameMultiplex
  BY <1>11, <1>2 DEF TuningOnSameMultiplex, TuningNext, PendingNext, FrequencyFrame,
         ProgramState, Phases, stateVars, tuneVars, recorderVars
<1>12. CASE TuningRecording
  BY <1>12, <1>2 DEF TuningRecording, MonitorErrors, Monitored, TuningNext, PendingNext,
         FrequencyFrame, ProgramState, Phases, stateVars, tuneVars, recorderVars
<1>13. CASE TuningLive
  BY <1>13, <1>2 DEF TuningLive, MonitorErrors, Monitored, LiveFile, TuningNext, PendingNext,
         FrequencyFrame, ProgramState, Phases, stateVars, tuneVars, recorderVars
<1>14. CASE TuningLiveFails
  BY <1>14, <1>2 DEF TuningLiveFails, TuningNext, PendingNext, FrequencyFrame, ProgramState,
         Phases, stateVars, tuneVars, recorderVars
<1>15. CASE TuningSignalCheck
  BY <1>15, <1>2 DEF TuningSignalCheck, Signal, TuningNext, PendingNext, ProgramState, Phases,
         stateVars, tuneVars, recorderVars
<1>16. CASE NoSignalCheck
  BY <1>16, <1>2 DEF NoSignalCheck, PendingNext, ProgramState, Phases, stateVars, tuneVars,
         recorderVars
<1>17. CASE NewRecorderLive
  BY <1>17, <1>2 DEF NewRecorderLive, LiveFile, StartFrame, ProgramState, Phases, stateVars,
         tuneVars, recorderVars
<1>18. CASE NewRecorderFile
  BY <1>18, <1>2 DEF NewRecorderFile, StartFrame, ProgramState, Phases, stateVars, tuneVars,
         recorderVars
<1>19. CASE NewRecorderCrash
  BY <1>19, <1>2 DEF NewRecorderCrash, StartFrame, ProgramState, Phases, stateVars, tuneVars,
         recorderVars
<1>20. CASE NewRecorderNoFile
  BY <1>20, <1>2 DEF NewRecorderNoFile, NewRecorderFailed, PendingNext, StartFrame,
         ProgramState, Phases, stateVars, tuneVars, recorderVars
<1>21. CASE CreateRecorder
  BY <1>21, <1>2 DEF CreateRecorder, StartFrame, ProgramState, Phases, stateVars, tuneVars,
         recorderVars
<1>22. CASE CreateRecorderFails
  BY <1>22, <1>2 DEF CreateRecorderFails, NewRecorderFailed, PendingNext, StartFrame,
         ProgramState, Phases, stateVars, tuneVars, recorderVars
<1>23. CASE RecorderStarted
  BY <1>23, <1>2 DEF RecorderStarted, PendingNext, StartFrame, ProgramState, Phases, stateVars,
         tuneVars, recorderVars
<1>24. CASE TuningRestartRecorder
  BY <1>24, <1>2 DEF TuningRestartRecorder, LiveFile, PendingNext, StartFrame, ProgramState,
         Phases, stateVars, tuneVars, recorderVars
<1>25. CASE TuningRestartFails
  BY <1>25, <1>2 DEF TuningRestartFails, PendingNext, StartFrame, ProgramState, Phases,
         stateVars, tuneVars, recorderVars
<1>26. CASE HandlePendingRecordings
  BY <1>26, <1>2 DEF HandlePendingRecordings, LoopFrame, ProgramState, Phases, stateVars,
         tuneVars, recorderVars
<1>27. CASE CheckEnd
  BY <1>27, <1>2 DEF CheckEnd, Awake, LoopEnds, GetState, LoopFrame, ProgramState, Phases,
         stateVars, tuneVars, recorderVars
<1>28. CASE CheckLive
  BY <1>28, <1>2 DEF CheckLive, CheckLiveFrame, LoopEnds, LoopFrame, ProgramState, Phases,
         stateVars, tuneVars, recorderVars
<1>29. CASE SwitchLive
  BY <1>29, <1>2 DEF SwitchLive, CheckLiveFrame, LoopEnds, LoopFrame, ProgramState, Phases,
         stateVars, tuneVars, recorderVars
<1>30. CASE RingBufferChanged
  BY <1>30, <1>2 DEF RingBufferChanged, ElseFrame, Front, Kill, ProgramState, Phases, stateVars,
         tuneVars, recorderVars
<1>31. CASE Other
  <2>1. epc' = epc /\ ((m_recorder' = "none") <=> (m_recorder = "none"))
    BY <1>31 DEF Other, OtherFrame
  <2>2. CASE Channels
    <3>1. PICK r : r = Request(m_lastTuningRequest.flags \cap ({"LiveTV", "Recording"} \cup NoRec), Null)
      OBVIOUS
    <3>2. m_tuningRequests' = <<r>> /\ r.program = Null
      BY <2>2, <3>1 DEF Channels, Request
    <3>3. Queue' = {1} /\ m_tuningRequests'[1] = r
      BY <3>2 DEF Queue
    <3>4. NoProgram' /\ OwnProgram' /\ NoLaterProgram'
      BY <3>2, <3>3 DEF NoProgram, OwnProgram, NoLaterProgram
    <3>5. QED BY <3>4 DEF ProgramState
  <2>3. CASE BeginsRecording
    <3>1. NothingNew /\ m_tuningRequests' = m_tuningRequests
      BY <2>3, NothingNewWhenNone DEF BeginsRecording
    <3>2. QED BY <1>2, <2>1, <3>1 DEF ProgramState
  <2>4. CASE ~ Channels /\ ~ BeginsRecording
    <3>1. m_tuningRequests' = m_tuningRequests /\ m_curRecording' = m_curRecording
      BY <1>31, <2>4 DEF Other, Quiet, Asks, Spawns, LeavesLive, RowsFrame
    <3>2. QED BY <1>2, <2>1, <3>1 DEF ProgramState
  <2>5. QED BY <2>2, <2>3, <2>4
<1>32. QED
  BY OtherStep, <1>3, <1>4, <1>5, <1>6, <1>7, <1>8, <1>9, <1>10, <1>11, <1>12, <1>13, <1>14,
         <1>15, <1>16, <1>17, <1>18, <1>19, <1>20, <1>21, <1>22, <1>23, <1>24, <1>25, <1>26,
         <1>27, <1>28, <1>29, <1>30, <1>31
     DEF EventThread, HandleTuning, TuningFrequency

-----------------------------------------------------------------------------
(* The file *)

\* Every step preserves BufferState.
LEMMA BufferStep ==
  ASSUME TypeOK, ProgramGiven, QueueFilled, LockHeld, RecorderState, NoneState, RequestState,
         WaitState, ProgramState, BufferState, Next
  PROVE  BufferState'
<1>1. m_tuningRequests \in Seq(Requests)
  BY DEF TypeOK
<1>2. m_tuningRequests' = m_tuningRequests => (NoKill' <=> NoKill)
  BY QueueKept
<1>3. ASSUME NEW r \in Requests, m_tuningRequests' = Append(m_tuningRequests, r), NoKill'
      PROVE  NoKill
  BY <1>1, <1>3, QueueAppended DEF NoKill, Kill
<1>4. CASE HandleStateChange
  <2>1. /\ epc' \notin {"create", "starting", "frequency"} /\ epc \in {"top", "asleep"}
        /\ UNCHANGED <<m_curRecording, m_recorder, m_buffer, m_lastTuningRequest>>
        /\ \A f \in CoreFlags : f \in m_stateFlags' <=> f \in m_stateFlags
    BY <1>4 DEF HandleStateChange, Awake, PauseNext, TuningNext, PendingNext, recorderVars,
         CoreFlags, PendingActions
  <2>2. NoKill' => NoKill
    BY <1>4, <1>2, <1>3, QueueAfterChange
  <2>3. Live' = Live
    BY <2>1 DEF Live
  <2>4. QED BY <2>1, <2>2, <2>3 DEF BufferState, CoreFlags, PendingActions
<1>5. CASE TuningShutdowns
  BY <1>5, <1>2 DEF TuningShutdowns, BufferState, Live, PendingActions, RecorderState, tuneVars,
         recorderVars
<1>6. CASE TeardownStop
  BY <1>6, <1>2 DEF TeardownStop, BufferState, Live, PendingActions, RecorderState, tuneVars,
         recorderVars
<1>7. CASE TeardownFinish
  BY <1>7, <1>2 DEF TeardownFinish, BufferState, Live, PendingActions, RecorderState, tuneVars,
         recorderVars
<1>8. CASE TeardownEnd
  BY <1>8, <1>2 DEF TeardownEnd, BufferState, Live, PendingActions, RecorderState, tuneVars,
         recorderVars
<1>9. CASE RequestTaken
  <2>1. m_tuningRequests # <<>> /\ epc = "shut"
    BY <1>9 DEF QueueFilled, Shutting, RequestTaken
  <2>2. /\ m_lastTuningRequest' = Front /\ m_tuningRequests' = Tail(m_tuningRequests)
        /\ m_curRecording' = m_curRecording /\ m_recorder' = m_recorder
    BY <1>9 DEF RequestTaken, recorderVars
  <2>3. /\ OwnProgram => (ForRecording(Front) => Front.program \in {m_curRecording, Null})
        /\ NoKill' /\ ~ Kill(Front) => NoKill
    BY <1>1, <2>1, <2>2, ProgramsTaken
  <2>4. /\ "NeedToStartRecorder" \notin m_stateFlags'
        /\ "RecorderRunning" \in m_stateFlags' => "RecorderRunning" \in m_stateFlags
        /\ epc' \notin {"create", "starting"}
        /\ epc' = "frequency" => New(Front) /\ m_recorder = "none"
        /\ "KillRingBuffer" \notin Front.flags => m_buffer' = m_buffer
    BY <1>9 DEF RequestTaken, PauseNext, TuningNext, PendingNext, PendingActions, New
  <2>5. Formed(Front)
    BY <1>1, <2>1, <2>2, QueueTaken DEF RequestState
  <2>6. CASE Kill(Front)
    <3>1. "RecorderRunning" \notin m_stateFlags'
      BY <2>1, <2>4, <2>6 DEF RecorderState
    <3>2. epc' # "frequency"
      BY <2>4, <2>5, <2>6 DEF Formed
    <3>3. QED BY <2>4, <3>1, <3>2 DEF BufferState
  <2>7. CASE ~ Kill(Front)
    <3>1. m_buffer' = m_buffer
      BY <2>4, <2>5, <2>7 DEF Formed
    <3>2. epc' = "frequency" /\ ~ Live' => m_lastTuningRequest'.program \in {m_curRecording, Null} \/ m_curRecording = Null
      BY <2>1, <2>2, <2>3, <2>4 DEF ProgramState, Live, New, ForRecording
    <3>3. QED BY <2>2, <2>3, <2>4, <2>7, <3>1, <3>2 DEF BufferState
  <2>8. QED BY <2>6, <2>7
<1>10. CASE WaitForRecPause
  BY <1>10, <1>2 DEF WaitForRecPause, PendingNext, BufferState, Live, PendingActions,
         RecorderState, tuneVars, recorderVars
<1>11. CASE TuningFails
  <2>1. /\ epc = "frequency" /\ epc' \in {"pending", "ends"}
        /\ UNCHANGED <<m_curRecording, m_recorder, m_buffer, m_lastTuningRequest, m_stateFlags>>
    BY <1>11 DEF TuningFails, FrequencyFrame, TuningNext, PendingNext, WaitState, PendingActions,
         recorderVars
  <2>2. NoKill' => NoKill
    <3>1. PICK r \in Requests : r = Request({"KillRec"}, Null)
      BY DEF Request, Requests, RequestFlags, NoRec
    <3>2. m_tuningRequests' = m_tuningRequests \/ m_tuningRequests' = Append(m_tuningRequests, r)
      BY <1>11, <3>1 DEF TuningFails
    <3>3. QED BY <1>2, <1>3, <3>2
  <2>3. Live' = Live
    BY <2>1 DEF Live
  <2>4. QED BY <2>1, <2>2, <2>3 DEF BufferState
<1>12. CASE TuningOnSameMultiplex
  BY <1>12, <1>2 DEF TuningOnSameMultiplex, TuningNext, PendingNext, FrequencyFrame,
         BufferState, Live, PendingActions, RecorderState, tuneVars, recorderVars
<1>13. CASE TuningRecording
  BY <1>13, <1>2 DEF TuningRecording, Monitored, TuningNext, PendingNext, FrequencyFrame,
         BufferState, Live, PendingActions, RecorderState, tuneVars, recorderVars
<1>14. CASE TuningLive
  BY <1>14, <1>2 DEF TuningLive, LiveFile, Monitored, TuningNext, PendingNext, FrequencyFrame,
         BufferState, Live, PendingActions, RecorderState, tuneVars, recorderVars
<1>15. CASE TuningLiveFails
  BY <1>15, <1>2 DEF TuningLiveFails, TuningNext, PendingNext, FrequencyFrame, BufferState,
         Live, PendingActions, RecorderState, tuneVars, recorderVars
<1>16. CASE TuningSignalCheck
  BY <1>16, <1>2 DEF TuningSignalCheck, Signal, TuningNext, PendingNext, BufferState, Live,
         PendingActions, RecorderState, tuneVars, recorderVars
<1>17. CASE NoSignalCheck
  BY <1>17, <1>2 DEF NoSignalCheck, PendingNext, BufferState, Live, PendingActions,
         RecorderState, tuneVars, recorderVars
<1>18. CASE NewRecorderLive
  BY <1>18, <1>2 DEF NewRecorderLive, LiveFile, StartFrame, BufferState, Live, PendingActions,
         RecorderState, tuneVars, recorderVars
<1>19. CASE NewRecorderFile
  BY <1>19, <1>2 DEF NewRecorderFile, StartFrame, WaitState, BufferState, Live, PendingActions,
         RecorderState, tuneVars, recorderVars
<1>20. CASE NewRecorderCrash
  BY <1>20, <1>2 DEF NewRecorderCrash, StartFrame, BufferState, Live, PendingActions,
         RecorderState, tuneVars, recorderVars
<1>21. CASE NewRecorderNoFile
  BY <1>21, <1>2 DEF NewRecorderNoFile, NewRecorderFailed, PendingNext, StartFrame, BufferState,
         Live, PendingActions, RecorderState, tuneVars, recorderVars
<1>22. CASE CreateRecorder
  BY <1>22, <1>2 DEF CreateRecorder, StartFrame, BufferState, Live, PendingActions,
         RecorderState, tuneVars, recorderVars
<1>23. CASE CreateRecorderFails
  BY <1>23, <1>2 DEF CreateRecorderFails, NewRecorderFailed, PendingNext, StartFrame,
         BufferState, Live, PendingActions, RecorderState, tuneVars, recorderVars
<1>24. CASE RecorderStarted
  BY <1>24, <1>2 DEF RecorderStarted, PendingNext, StartFrame, BufferState, Live,
         PendingActions, RecorderState, tuneVars, recorderVars
<1>25. CASE TuningRestartRecorder
  BY <1>25, <1>2 DEF TuningRestartRecorder, LiveFile, PendingNext, StartFrame, BufferState,
         Live, PendingActions, RecorderState, tuneVars, recorderVars
<1>26. CASE TuningRestartFails
  BY <1>26, <1>2 DEF TuningRestartFails, PendingNext, StartFrame, BufferState, Live,
         PendingActions, RecorderState, tuneVars, recorderVars
<1>27. CASE HandlePendingRecordings
  BY <1>27, <1>2 DEF HandlePendingRecordings, LoopFrame, BufferState, Live, PendingActions,
         RecorderState, tuneVars, recorderVars
<1>28. CASE CheckEnd
  BY <1>28, <1>2 DEF CheckEnd, Awake, LoopEnds, GetState, LoopFrame, BufferState, Live,
         PendingActions, RecorderState, tuneVars, recorderVars
<1>29. CASE CheckLive
  BY <1>29, <1>2 DEF CheckLive, CheckLiveFrame, LoopEnds, LoopFrame, BufferState, Live,
         PendingActions, RecorderState, tuneVars, recorderVars
<1>30. CASE SwitchLive
  BY <1>30, <1>2 DEF SwitchLive, CheckLiveFrame, LoopEnds, LoopFrame, BufferState, Live,
         PendingActions, RecorderState, tuneVars, recorderVars
<1>31. CASE RingBufferChanged
  BY <1>31, <1>2 DEF RingBufferChanged, ElseFrame, BufferState, Live, PendingActions,
         RecorderState, tuneVars, recorderVars
<1>32. CASE Other
  <2>1. UNCHANGED <<epc, m_lastTuningRequest, m_buffer>> /\ ((m_recorder' = "none") <=> (m_recorder = "none"))
    BY <1>32 DEF Other, OtherFrame
  <2>2. \A f \in CoreFlags : f \in m_stateFlags' <=> f \in m_stateFlags
    BY <1>32 DEF Other, OtherFrame
  <2>3. Live' = Live
    BY <2>1 DEF Live
  <2>4. CASE Channels
    <3>1. NoKill /\ m_curRecording' = m_curRecording
      BY <2>4 DEF Channels, RowsFrame, NoKill, Queue
    <3>2. QED BY <2>1, <2>2, <2>3, <3>1 DEF BufferState, CoreFlags, PendingActions
  <2>5. CASE BeginsRecording
    <3>1. NoKill' => NoKill /\ ~ KillAhead
      BY <1>2, <2>5 DEF BeginsRecording, NoKill, KillAhead, Full
    <3>2. NoKill' => Clean
      BY <2>5, <3>1 DEF BeginsRecording, NoneState
    <3>3. QED BY <2>1, <2>2, <3>2 DEF BufferState, Clean, CoreFlags, PendingActions
  <2>6. CASE ~ Channels /\ ~ BeginsRecording
    <3>1. m_tuningRequests' = m_tuningRequests /\ m_curRecording' = m_curRecording
      BY <1>32, <2>6 DEF Other, Quiet, Asks, Spawns, LeavesLive, RowsFrame
    <3>2. QED BY <1>2, <2>1, <2>2, <2>3, <3>1 DEF BufferState, CoreFlags, PendingActions
  <2>7. QED BY <2>4, <2>5, <2>6
<1>33. QED
  BY OtherStep, <1>4, <1>5, <1>6, <1>7, <1>8, <1>9, <1>10, <1>11, <1>12, <1>13, <1>14, <1>15,
         <1>16, <1>17, <1>18, <1>19, <1>20, <1>21, <1>22, <1>23, <1>24, <1>25, <1>26, <1>27,
         <1>28, <1>29, <1>30, <1>31, <1>32
     DEF EventThread, HandleTuning, TuningFrequency

-----------------------------------------------------------------------------
(* The frontend's chain *)

\* ChainState holds on while the chain is there and no new place needs it.
LEMMA ChainKept ==
  ASSUME ChainState, m_tvChain => m_tvChain',
         UNCHANGED <<m_tuningRequests, m_lastTuningRequest>>,
         m_changeState' /\ m_desiredNextState' = "WatchingLiveTV" =>
           m_tvChain' \/ (m_changeState /\ m_desiredNextState = "WatchingLiveTV"),
         epc' = "frequency" /\ m_recorder' = "none" => epc = "frequency" /\ m_recorder = "none",
         \A d \in Clients : Waits(d, "channel2")' => Waits(d, "channel2") \/ m_tvChain',
         CallsOwned'
  PROVE  ChainState'
<1>1. Queue' = Queue /\ LastRequest' = LastRequest /\ Live' = Live
  BY DEF Queue, LastRequest, Live
<1>2. \A i \in Queue' : "LiveTV" \in m_tuningRequests'[i].flags => m_tvChain'
  BY <1>1 DEF ChainState
<1>3. \A d \in Clients : Waits(d, "channel2")' /\ "LiveTV" \in LastRequest'.flags => m_tvChain'
  BY <1>1 DEF ChainState
<1>4. epc' = "frequency" /\ Live' /\ m_recorder' = "none" => m_tvChain'
  BY <1>1 DEF ChainState
<1>5. m_changeState' /\ m_desiredNextState' = "WatchingLiveTV" => m_tvChain'
  BY DEF ChainState
<1>6. QED BY <1>2, <1>3, <1>4, <1>5 DEF ChainState

\* The calls of clients preserve ChainState: StartRecording and StopLiveTV take
\* the chain away when nothing needs it.
LEMMA ChainCalls ==
  ASSUME OneFrontend, TypeOK, ProgramGiven, QueueFilled, LockHeld, NoneState, RequestState,
         WaitState, QueueState, ChainState, NEW c \in Clients, Call(c) \/ Continue(c)
  PROVE  ChainState'
<1>1. /\ cpc \in [Clients -> {"idle", "doze", "dozing", "relock", "startStop", "stop", "stop2"}]
      /\ cont \in [Clients -> {"start2", "start3", "start5", "stop3", "spawn2",
                              "stopLive2", "channel2", "channel3", "channel4", Null}]
  BY DEF TypeOK
<1>2. ASSUME m_tvChain => m_tvChain',
             UNCHANGED <<m_tuningRequests, m_lastTuningRequest>>,
             m_changeState' /\ m_desiredNextState' = "WatchingLiveTV" =>
               m_tvChain' \/ (m_changeState /\ m_desiredNextState = "WatchingLiveTV"),
             epc' = epc, (m_recorder' = "none") => (m_recorder = "none"),
             \A d \in Clients : d # c => cpc'[d] = cpc[d] /\ cont'[d] = cont[d],
             Waits(c, "channel2")' => Waits(c, "channel2") \/ m_tvChain',
             CallsOwned'
      PROVE  ChainState'
  <2>1. \A d \in Clients : Waits(d, "channel2")' => Waits(d, "channel2") \/ m_tvChain'
    BY <1>2 DEF Waits
  <2>2. QED BY <1>2, <2>1, ChainKept
<1>3. ASSUME \A d \in Clients : d # c => cpc'[d] = cpc[d] /\ cont'[d] = cont[d],
             Waits(c, "stopLive2")' => "StopLiveTV" \in Ops[c] \/ Waits(c, "stopLive2"),
             Waits(c, "channel2")' => "SetChannel" \in Ops[c] \/ Waits(c, "channel2")
      PROVE  CallsOwned'
  BY <1>3 DEF ChainState, CallsOwned, Waits
<1>4. CASE \E p \in Programs : StartRecording(c, p)
  <2>1. /\ UNCHANGED <<m_tuningRequests, m_lastTuningRequest, epc, m_recorder>>
        /\ m_tvChain => m_tvChain'
        /\ m_changeState' /\ m_desiredNextState' = "WatchingLiveTV" =>
             m_tvChain' \/ (m_changeState /\ m_desiredNextState = "WatchingLiveTV")
        /\ \A d \in Clients : d # c => cpc'[d] = cpc[d] /\ cont'[d] = cont[d]
        /\ Waits(c, "stopLive2")' => "StopLiveTV" \in Ops[c] \/ Waits(c, "stopLive2")
        /\ Waits(c, "channel2")' => "SetChannel" \in Ops[c] \/ Waits(c, "channel2")
        /\ Waits(c, "channel2")' => Waits(c, "channel2") \/ m_tvChain'
    BY <1>4, <1>1 DEF StartRecording, Begins, Wait, StartRecordingFrame, Waits, stateVars,
         tuneVars, liveVars, recorderVars
  <2>2. QED BY <1>2, <1>3, <2>1
<1>5. CASE StopRecording(c)
  <2>1. /\ UNCHANGED <<m_tuningRequests, m_lastTuningRequest, epc, m_recorder>>
        /\ m_tvChain => m_tvChain'
        /\ m_changeState' /\ m_desiredNextState' = "WatchingLiveTV" =>
             m_tvChain' \/ (m_changeState /\ m_desiredNextState = "WatchingLiveTV")
        /\ \A d \in Clients : d # c => cpc'[d] = cpc[d] /\ cont'[d] = cont[d]
        /\ Waits(c, "stopLive2")' => "StopLiveTV" \in Ops[c] \/ Waits(c, "stopLive2")
        /\ Waits(c, "channel2")' => "SetChannel" \in Ops[c] \/ Waits(c, "channel2")
        /\ Waits(c, "channel2")' => Waits(c, "channel2") \/ m_tvChain'
    BY <1>5, <1>1 DEF StopRecording, Begins, StopFrame, Waits, stateVars, tuneVars, liveVars,
         recorderVars
  <2>2. QED BY <1>2, <1>3, <2>1
<1>6. CASE FinishRecording(c)
  <2>1. /\ UNCHANGED <<m_tuningRequests, m_lastTuningRequest, epc, m_recorder>>
        /\ m_tvChain => m_tvChain'
        /\ m_changeState' /\ m_desiredNextState' = "WatchingLiveTV" =>
             m_tvChain' \/ (m_changeState /\ m_desiredNextState = "WatchingLiveTV")
        /\ \A d \in Clients : d # c => cpc'[d] = cpc[d] /\ cont'[d] = cont[d]
        /\ Waits(c, "stopLive2")' => "StopLiveTV" \in Ops[c] \/ Waits(c, "stopLive2")
        /\ Waits(c, "channel2")' => "SetChannel" \in Ops[c] \/ Waits(c, "channel2")
        /\ Waits(c, "channel2")' => Waits(c, "channel2") \/ m_tvChain'
    BY <1>6, <1>1 DEF FinishRecording, Begins, StopFrame, Waits, stateVars, tuneVars, liveVars,
         recorderVars
  <2>2. QED BY <1>2, <1>3, <2>1
<1>7. CASE SpawnLiveTV(c)
  <2>1. /\ UNCHANGED <<m_tuningRequests, m_lastTuningRequest, epc, m_recorder>>
        /\ m_tvChain => m_tvChain'
        /\ m_changeState' /\ m_desiredNextState' = "WatchingLiveTV" =>
             m_tvChain' \/ (m_changeState /\ m_desiredNextState = "WatchingLiveTV")
        /\ \A d \in Clients : d # c => cpc'[d] = cpc[d] /\ cont'[d] = cont[d]
        /\ Waits(c, "stopLive2")' => "StopLiveTV" \in Ops[c] \/ Waits(c, "stopLive2")
        /\ Waits(c, "channel2")' => "SetChannel" \in Ops[c] \/ Waits(c, "channel2")
        /\ Waits(c, "channel2")' => Waits(c, "channel2") \/ m_tvChain'
    BY <1>7, <1>1 DEF SpawnLiveTV, Begins, ChangeState, Wait, LiveFrame, Waits, stateVars,
         tuneVars, liveVars, recorderVars
  <2>2. QED BY <1>2, <1>3, <2>1
<1>8. CASE StopLiveTV(c)
  <2>1. /\ UNCHANGED <<m_tuningRequests, m_lastTuningRequest, epc, m_recorder>>
        /\ m_tvChain => m_tvChain'
        /\ m_changeState' /\ m_desiredNextState' = "WatchingLiveTV" =>
             m_tvChain' \/ (m_changeState /\ m_desiredNextState = "WatchingLiveTV")
        /\ \A d \in Clients : d # c => cpc'[d] = cpc[d] /\ cont'[d] = cont[d]
        /\ Waits(c, "stopLive2")' => "StopLiveTV" \in Ops[c] \/ Waits(c, "stopLive2")
        /\ Waits(c, "channel2")' => "SetChannel" \in Ops[c] \/ Waits(c, "channel2")
        /\ Waits(c, "channel2")' => Waits(c, "channel2") \/ m_tvChain'
    BY <1>8, <1>1 DEF StopLiveTV, Begins, ChangeState, Wait, LiveFrame, Waits, stateVars,
         tuneVars, liveVars, recorderVars
  <2>2. QED BY <1>2, <1>3, <2>1
<1>9. CASE SetLiveRecording(c)
  <2>1. /\ UNCHANGED <<m_tuningRequests, m_lastTuningRequest, epc, m_recorder>>
        /\ m_tvChain => m_tvChain'
        /\ m_changeState' /\ m_desiredNextState' = "WatchingLiveTV" =>
             m_tvChain' \/ (m_changeState /\ m_desiredNextState = "WatchingLiveTV")
        /\ \A d \in Clients : d # c => cpc'[d] = cpc[d] /\ cont'[d] = cont[d]
        /\ Waits(c, "stopLive2")' => "StopLiveTV" \in Ops[c] \/ Waits(c, "stopLive2")
        /\ Waits(c, "channel2")' => "SetChannel" \in Ops[c] \/ Waits(c, "channel2")
        /\ Waits(c, "channel2")' => Waits(c, "channel2") \/ m_tvChain'
    BY <1>9, <1>1 DEF SetLiveRecording, Begins, LiveFrame, Waits, stateVars, tuneVars, liveVars,
         recorderVars
  <2>2. QED BY <1>2, <1>3, <2>1
<1>10. CASE PauseRecorder(c)
  <2>1. /\ UNCHANGED <<m_tuningRequests, m_lastTuningRequest, epc, m_recorder>>
        /\ m_tvChain => m_tvChain'
        /\ m_changeState' /\ m_desiredNextState' = "WatchingLiveTV" =>
             m_tvChain' \/ (m_changeState /\ m_desiredNextState = "WatchingLiveTV")
        /\ \A d \in Clients : d # c => cpc'[d] = cpc[d] /\ cont'[d] = cont[d]
        /\ Waits(c, "stopLive2")' => "StopLiveTV" \in Ops[c] \/ Waits(c, "stopLive2")
        /\ Waits(c, "channel2")' => "SetChannel" \in Ops[c] \/ Waits(c, "channel2")
        /\ Waits(c, "channel2")' => Waits(c, "channel2") \/ m_tvChain'
    BY <1>10, <1>1 DEF PauseRecorder, Begins, Wait, LiveFrame, Waits, stateVars, tuneVars,
         liveVars, recorderVars
  <2>2. QED BY <1>2, <1>3, <2>1
<1>11. CASE RecordPending(c)
  <2>1. /\ UNCHANGED <<m_tuningRequests, m_lastTuningRequest, epc, m_recorder>>
        /\ m_tvChain => m_tvChain'
        /\ m_changeState' /\ m_desiredNextState' = "WatchingLiveTV" =>
             m_tvChain' \/ (m_changeState /\ m_desiredNextState = "WatchingLiveTV")
        /\ \A d \in Clients : d # c => cpc'[d] = cpc[d] /\ cont'[d] = cont[d]
        /\ Waits(c, "stopLive2")' => "StopLiveTV" \in Ops[c] \/ Waits(c, "stopLive2")
        /\ Waits(c, "channel2")' => "SetChannel" \in Ops[c] \/ Waits(c, "channel2")
        /\ Waits(c, "channel2")' => Waits(c, "channel2") \/ m_tvChain'
    BY <1>11, <1>1 DEF RecordPending, Begins, PendFrame, Waits, stateVars, tuneVars, liveVars,
         recorderVars
  <2>2. QED BY <1>2, <1>3, <2>1
<1>12. CASE CancelNextRecording(c)
  <2>1. /\ UNCHANGED <<m_tuningRequests, m_lastTuningRequest, epc, m_recorder>>
        /\ m_tvChain => m_tvChain'
        /\ m_changeState' /\ m_desiredNextState' = "WatchingLiveTV" =>
             m_tvChain' \/ (m_changeState /\ m_desiredNextState = "WatchingLiveTV")
        /\ \A d \in Clients : d # c => cpc'[d] = cpc[d] /\ cont'[d] = cont[d]
        /\ Waits(c, "stopLive2")' => "StopLiveTV" \in Ops[c] \/ Waits(c, "stopLive2")
        /\ Waits(c, "channel2")' => "SetChannel" \in Ops[c] \/ Waits(c, "channel2")
        /\ Waits(c, "channel2")' => Waits(c, "channel2") \/ m_tvChain'
    BY <1>12, <1>1 DEF CancelNextRecording, Begins, PendFrame, Waits, stateVars, tuneVars,
         liveVars, recorderVars
  <2>2. QED BY <1>2, <1>3, <2>1
<1>13. CASE Doze(c)
  <2>1. /\ UNCHANGED <<m_tuningRequests, m_lastTuningRequest, epc, m_recorder>>
        /\ m_tvChain => m_tvChain'
        /\ m_changeState' /\ m_desiredNextState' = "WatchingLiveTV" =>
             m_tvChain' \/ (m_changeState /\ m_desiredNextState = "WatchingLiveTV")
        /\ \A d \in Clients : d # c => cpc'[d] = cpc[d] /\ cont'[d] = cont[d]
        /\ Waits(c, "stopLive2")' => "StopLiveTV" \in Ops[c] \/ Waits(c, "stopLive2")
        /\ Waits(c, "channel2")' => "SetChannel" \in Ops[c] \/ Waits(c, "channel2")
        /\ Waits(c, "channel2")' => Waits(c, "channel2") \/ m_tvChain'
    BY <1>13, <1>1 DEF Doze, WaitFrame, Waits, stateVars, tuneVars, liveVars, recorderVars
  <2>2. QED BY <1>2, <1>3, <2>1
<1>14. CASE Woken(c)
  <2>1. /\ UNCHANGED <<m_tuningRequests, m_lastTuningRequest, epc, m_recorder>>
        /\ m_tvChain => m_tvChain'
        /\ m_changeState' /\ m_desiredNextState' = "WatchingLiveTV" =>
             m_tvChain' \/ (m_changeState /\ m_desiredNextState = "WatchingLiveTV")
        /\ \A d \in Clients : d # c => cpc'[d] = cpc[d] /\ cont'[d] = cont[d]
        /\ Waits(c, "stopLive2")' => "StopLiveTV" \in Ops[c] \/ Waits(c, "stopLive2")
        /\ Waits(c, "channel2")' => "SetChannel" \in Ops[c] \/ Waits(c, "channel2")
        /\ Waits(c, "channel2")' => Waits(c, "channel2") \/ m_tvChain'
    BY <1>14, <1>1 DEF Woken, WaitFrame, Waits, stateVars, tuneVars, liveVars, recorderVars
  <2>2. QED BY <1>2, <1>3, <2>1
<1>15. CASE Relock(c)
  <2>1. /\ UNCHANGED <<m_tuningRequests, m_lastTuningRequest, epc, m_recorder>>
        /\ m_tvChain => m_tvChain'
        /\ m_changeState' /\ m_desiredNextState' = "WatchingLiveTV" =>
             m_tvChain' \/ (m_changeState /\ m_desiredNextState = "WatchingLiveTV")
        /\ \A d \in Clients : d # c => cpc'[d] = cpc[d] /\ cont'[d] = cont[d]
        /\ Waits(c, "stopLive2")' => "StopLiveTV" \in Ops[c] \/ Waits(c, "stopLive2")
        /\ Waits(c, "channel2")' => "SetChannel" \in Ops[c] \/ Waits(c, "channel2")
        /\ Waits(c, "channel2")' => Waits(c, "channel2") \/ m_tvChain'
    BY <1>15, <1>1 DEF Relock, WaitFrame, Waits, stateVars, tuneVars, liveVars, recorderVars
  <2>2. QED BY <1>2, <1>3, <2>1
<1>16. CASE StartExtends(c)
  <2>1. /\ UNCHANGED <<m_tuningRequests, m_lastTuningRequest, epc, m_recorder>>
        /\ m_tvChain => m_tvChain'
        /\ m_changeState' /\ m_desiredNextState' = "WatchingLiveTV" =>
             m_tvChain' \/ (m_changeState /\ m_desiredNextState = "WatchingLiveTV")
        /\ \A d \in Clients : d # c => cpc'[d] = cpc[d] /\ cont'[d] = cont[d]
        /\ Waits(c, "stopLive2")' => "StopLiveTV" \in Ops[c] \/ Waits(c, "stopLive2")
        /\ Waits(c, "channel2")' => "SetChannel" \in Ops[c] \/ Waits(c, "channel2")
        /\ Waits(c, "channel2")' => Waits(c, "channel2") \/ m_tvChain'
    BY <1>16, <1>1 DEF StartExtends, Resumes, StartReturns, Returns, StartRecordingFrame, Waits,
         stateVars, tuneVars, liveVars, recorderVars
  <2>2. QED BY <1>2, <1>3, <2>1
<1>17. CASE StartAsks(c)
  <2>1. /\ UNCHANGED <<m_tuningRequests, m_lastTuningRequest, epc, m_recorder>>
        /\ m_tvChain => m_tvChain'
        /\ m_changeState' /\ m_desiredNextState' = "WatchingLiveTV" =>
             m_tvChain' \/ (m_changeState /\ m_desiredNextState = "WatchingLiveTV")
        /\ \A d \in Clients : d # c => cpc'[d] = cpc[d] /\ cont'[d] = cont[d]
        /\ Waits(c, "stopLive2")' => "StopLiveTV" \in Ops[c] \/ Waits(c, "stopLive2")
        /\ Waits(c, "channel2")' => "SetChannel" \in Ops[c] \/ Waits(c, "channel2")
        /\ Waits(c, "channel2")' => Waits(c, "channel2") \/ m_tvChain'
    BY <1>17, <1>1 DEF StartAsks, Resumes, Wait, StartRecordingFrame, Waits, stateVars,
         tuneVars, liveVars, recorderVars
  <2>2. QED BY <1>2, <1>3, <2>1
<1>18. CASE StartSwitches(c)
  <2>1. /\ UNCHANGED <<m_tuningRequests, m_lastTuningRequest, epc, m_recorder>>
        /\ m_tvChain => m_tvChain'
        /\ m_changeState' /\ m_desiredNextState' = "WatchingLiveTV" =>
             m_tvChain' \/ (m_changeState /\ m_desiredNextState = "WatchingLiveTV")
        /\ \A d \in Clients : d # c => cpc'[d] = cpc[d] /\ cont'[d] = cont[d]
        /\ Waits(c, "stopLive2")' => "StopLiveTV" \in Ops[c] \/ Waits(c, "stopLive2")
        /\ Waits(c, "channel2")' => "SetChannel" \in Ops[c] \/ Waits(c, "channel2")
        /\ Waits(c, "channel2")' => Waits(c, "channel2") \/ m_tvChain'
    BY <1>18, <1>1 DEF StartSwitches, Resumes, StartReturns, Returns, StartRecordingFrame,
         Waits, stateVars, tuneVars, liveVars, recorderVars
  <2>2. QED BY <1>2, <1>3, <2>1
<1>19. CASE StartStops(c)
  <2>1. /\ UNCHANGED <<m_tuningRequests, m_lastTuningRequest, epc, m_recorder>>
        /\ m_tvChain => m_tvChain'
        /\ m_changeState' /\ m_desiredNextState' = "WatchingLiveTV" =>
             m_tvChain' \/ (m_changeState /\ m_desiredNextState = "WatchingLiveTV")
        /\ \A d \in Clients : d # c => cpc'[d] = cpc[d] /\ cont'[d] = cont[d]
        /\ Waits(c, "stopLive2")' => "StopLiveTV" \in Ops[c] \/ Waits(c, "stopLive2")
        /\ Waits(c, "channel2")' => "SetChannel" \in Ops[c] \/ Waits(c, "channel2")
        /\ Waits(c, "channel2")' => Waits(c, "channel2") \/ m_tvChain'
    BY <1>19, <1>1 DEF StartStops, Resumes, StartRecordingFrame, Waits, stateVars, tuneVars,
         liveVars, recorderVars
  <2>2. QED BY <1>2, <1>3, <2>1
<1>20. CASE StartDecides(c)
  <2>1. /\ \A d \in Clients : d # c => cpc'[d] = cpc[d] /\ cont'[d] = cont[d]
        /\ cont'[c] = "start5"
        /\ UNCHANGED <<m_tuningRequests, m_lastTuningRequest, epc, m_recorder>>
    BY <1>20, <1>1 DEF StartDecides, Wait, StartRecordingFrame, tuneVars, recorderVars
  <2>2. CallsOwned' /\ ~ Waits(c, "channel2")'
    BY <1>3, <2>1 DEF Waits
  <2>3. CASE StartInLive(c) \/ StartRefused(c)
    <3>1. UNCHANGED <<m_tvChain, m_changeState, m_desiredNextState>>
      BY <2>3 DEF StartInLive, StartRefused, NoStateChange, liveVars
    <3>2. QED BY <1>2, <2>1, <2>2, <3>1
  <2>4. CASE StartBegins(c)
    <3>1. lock = Null /\ m_internalState = "None"
      BY <1>20, <2>4 DEF StartDecides, StartBegins, GetState, Resumes
    <3>2. NothingNew /\ ~ LastIsNew
      BY <3>1, NothingNewWhenNone DEF NoneState
    <3>3. Queue' = Queue /\ LastRequest' = LastRequest
      BY <2>1 DEF Queue, LastRequest
    <3>4. \A i \in Queue' : "LiveTV" \notin m_tuningRequests'[i].flags
      BY <2>1, <3>2, <3>3 DEF NothingNew, New
    <3>5. "LiveTV" \notin LastRequest'.flags
      BY <3>2, <3>3 DEF LastIsNew, New
    <3>6. epc' # "frequency"
      BY <2>1, <3>1 DEF LockHeld, Unlocked
    <3>7. m_desiredNextState' = "RecordingOnly"
      BY <2>4 DEF StartBegins, ChangeState
    <3>8. QED BY <2>2, <3>4, <3>5, <3>6, <3>7 DEF ChainState
  <2>5. QED BY <1>20, <2>3, <2>4 DEF StartDecides
<1>21. CASE StartEnds(c)
  <2>1. /\ UNCHANGED <<m_tuningRequests, m_lastTuningRequest, epc, m_recorder>>
        /\ m_tvChain => m_tvChain'
        /\ m_changeState' /\ m_desiredNextState' = "WatchingLiveTV" =>
             m_tvChain' \/ (m_changeState /\ m_desiredNextState = "WatchingLiveTV")
        /\ \A d \in Clients : d # c => cpc'[d] = cpc[d] /\ cont'[d] = cont[d]
        /\ Waits(c, "stopLive2")' => "StopLiveTV" \in Ops[c] \/ Waits(c, "stopLive2")
        /\ Waits(c, "channel2")' => "SetChannel" \in Ops[c] \/ Waits(c, "channel2")
        /\ Waits(c, "channel2")' => Waits(c, "channel2") \/ m_tvChain'
    BY <1>21, <1>1 DEF StartEnds, Resumes, StartReturns, Returns, StartRecordingFrame, Waits,
         stateVars, tuneVars, liveVars, recorderVars
  <2>2. QED BY <1>2, <1>3, <2>1
<1>22. CASE StopLooks(c)
  <2>1. /\ UNCHANGED <<m_tuningRequests, m_lastTuningRequest, epc, m_recorder>>
        /\ m_tvChain => m_tvChain'
        /\ m_changeState' /\ m_desiredNextState' = "WatchingLiveTV" =>
             m_tvChain' \/ (m_changeState /\ m_desiredNextState = "WatchingLiveTV")
        /\ \A d \in Clients : d # c => cpc'[d] = cpc[d] /\ cont'[d] = cont[d]
        /\ Waits(c, "stopLive2")' => "StopLiveTV" \in Ops[c] \/ Waits(c, "stopLive2")
        /\ Waits(c, "channel2")' => "SetChannel" \in Ops[c] \/ Waits(c, "channel2")
        /\ Waits(c, "channel2")' => Waits(c, "channel2") \/ m_tvChain'
    BY <1>22, <1>1 DEF StopLooks, StopReturn, StopFrame, Waits, stateVars, tuneVars, liveVars,
         recorderVars
  <2>2. QED BY <1>2, <1>3, <2>1
<1>23. CASE StopAsks(c)
  <2>1. /\ UNCHANGED <<m_tuningRequests, m_lastTuningRequest, epc, m_recorder>>
        /\ m_tvChain => m_tvChain'
        /\ m_changeState' /\ m_desiredNextState' = "WatchingLiveTV" =>
             m_tvChain' \/ (m_changeState /\ m_desiredNextState = "WatchingLiveTV")
        /\ \A d \in Clients : d # c => cpc'[d] = cpc[d] /\ cont'[d] = cont[d]
        /\ Waits(c, "stopLive2")' => "StopLiveTV" \in Ops[c] \/ Waits(c, "stopLive2")
        /\ Waits(c, "channel2")' => "SetChannel" \in Ops[c] \/ Waits(c, "channel2")
        /\ Waits(c, "channel2")' => Waits(c, "channel2") \/ m_tvChain'
    BY <1>23, <1>1 DEF StopAsks, RemoveRecording, ChangeState, Wait, StopFrame, Waits,
         stateVars, tuneVars, liveVars, recorderVars, StateIsRecording
  <2>2. QED BY <1>2, <1>3, <2>1
<1>24. CASE StopEnds(c)
  <2>1. /\ UNCHANGED <<m_tuningRequests, m_lastTuningRequest, epc, m_recorder>>
        /\ m_tvChain => m_tvChain'
        /\ m_changeState' /\ m_desiredNextState' = "WatchingLiveTV" =>
             m_tvChain' \/ (m_changeState /\ m_desiredNextState = "WatchingLiveTV")
        /\ \A d \in Clients : d # c => cpc'[d] = cpc[d] /\ cont'[d] = cont[d]
        /\ Waits(c, "stopLive2")' => "StopLiveTV" \in Ops[c] \/ Waits(c, "stopLive2")
        /\ Waits(c, "channel2")' => "SetChannel" \in Ops[c] \/ Waits(c, "channel2")
        /\ Waits(c, "channel2")' => Waits(c, "channel2") \/ m_tvChain'
    BY <1>24, <1>1 DEF StopEnds, Resumes, StopReturn, StopFrame, Waits, stateVars, tuneVars,
         liveVars, recorderVars
  <2>2. QED BY <1>2, <1>3, <2>1
<1>25. CASE SpawnEnds(c)
  <2>1. /\ UNCHANGED <<m_tuningRequests, m_lastTuningRequest, epc, m_recorder>>
        /\ m_tvChain => m_tvChain'
        /\ m_changeState' /\ m_desiredNextState' = "WatchingLiveTV" =>
             m_tvChain' \/ (m_changeState /\ m_desiredNextState = "WatchingLiveTV")
        /\ \A d \in Clients : d # c => cpc'[d] = cpc[d] /\ cont'[d] = cont[d]
        /\ Waits(c, "stopLive2")' => "StopLiveTV" \in Ops[c] \/ Waits(c, "stopLive2")
        /\ Waits(c, "channel2")' => "SetChannel" \in Ops[c] \/ Waits(c, "channel2")
        /\ Waits(c, "channel2")' => Waits(c, "channel2") \/ m_tvChain'
    BY <1>25, <1>1 DEF SpawnEnds, Resumes, Returns, LiveFrame, Waits, stateVars, tuneVars,
         liveVars, recorderVars
  <2>2. QED BY <1>2, <1>3, <2>1
<1>26. CASE StopLiveEnds(c)
  <2>1. /\ \A d \in Clients : d # c => cpc'[d] = cpc[d] /\ cont'[d] = cont[d]
        /\ cpc'[c] = "idle" /\ Waits(c, "stopLive2")
        /\ UNCHANGED <<m_tuningRequests, m_lastTuningRequest, epc, m_recorder, m_changeState>>
        /\ lock = Null /\ m_tuningRequests = <<>> /\ ~ m_changeState
    BY <1>26, <1>1 DEF StopLiveEnds, Resumes, Returns, Waits, LiveFrame, tuneVars, recorderVars
  <2>2. CallsOwned'
    BY <1>3, <2>1 DEF Waits
  <2>3. \A d \in Clients : ~ Waits(d, "channel2")'
    <3>1. ASSUME NEW d \in Clients, Waits(d, "channel2")' PROVE FALSE
      <4>1. d # c /\ Waits(d, "channel2")
        BY <2>1, <3>1 DEF Waits
      <4>2. "SetChannel" \in Ops[d] /\ "StopLiveTV" \in Ops[c]
        BY <2>1, <4>1 DEF ChainState, CallsOwned
      <4>3. QED BY <4>1, <4>2 DEF OneFrontend
    <3>2. QED BY <3>1
  <2>4. \A i \in Queue' : "LiveTV" \notin m_tuningRequests'[i].flags
    BY <2>1 DEF Queue
  <2>5. epc' # "frequency"
    BY <2>1 DEF LockHeld, Unlocked
  <2>6. QED BY <2>1, <2>2, <2>3, <2>4, <2>5 DEF ChainState
<1>27. CASE SetChannel(c)
  <2>1. /\ \A d \in Clients : d # c => cpc'[d] = cpc[d] /\ cont'[d] = cont[d]
        /\ cont'[c] \in {"channel3", "channel4"} /\ Waits(c, "channel2")
        /\ UNCHANGED <<m_tvChain, m_lastTuningRequest, epc, m_recorder, m_changeState, m_desiredNextState>>
        /\ lock = Null /\ m_tuningRequests = <<>> /\ ~ m_changeState
    BY <1>27, <1>1 DEF SetChannel, Resumes, Wait, Waits, LiveFrame, liveVars, recorderVars
  <2>2. PICK r \in Requests :
          r = Request(m_lastTuningRequest.flags \cap ({"LiveTV", "Recording"} \cup NoRec), Null)
    BY DEF TypeOK, Request, Requests
  <2>3. m_tuningRequests' = <<r>> /\ ("LiveTV" \in r.flags => "LiveTV" \in m_lastTuningRequest.flags)
    BY <1>27, <2>1, <2>2 DEF SetChannel, Request
  <2>4. "LiveTV" \in r.flags => m_tvChain'
    BY <2>1, <2>3 DEF ChainState, LastRequest
  <2>5. Queue' = {1} /\ m_tuningRequests'[1] = r /\ LastRequest' = r
    BY <2>3 DEF Queue, LastRequest
  <2>6. CallsOwned'
    BY <1>3, <2>1 DEF Waits
  <2>7. epc' # "frequency"
    BY <2>1 DEF LockHeld, Unlocked
  <2>8. QED BY <2>1, <2>4, <2>5, <2>6, <2>7 DEF ChainState
<1>28. CASE SetChannelEnds(c)
  <2>1. /\ UNCHANGED <<m_tuningRequests, m_lastTuningRequest, epc, m_recorder>>
        /\ m_tvChain => m_tvChain'
        /\ m_changeState' /\ m_desiredNextState' = "WatchingLiveTV" =>
             m_tvChain' \/ (m_changeState /\ m_desiredNextState = "WatchingLiveTV")
        /\ \A d \in Clients : d # c => cpc'[d] = cpc[d] /\ cont'[d] = cont[d]
        /\ Waits(c, "stopLive2")' => "StopLiveTV" \in Ops[c] \/ Waits(c, "stopLive2")
        /\ Waits(c, "channel2")' => "SetChannel" \in Ops[c] \/ Waits(c, "channel2")
        /\ Waits(c, "channel2")' => Waits(c, "channel2") \/ m_tvChain'
    BY <1>28, <1>1 DEF SetChannelEnds, Resumes, Wait, Returns, LiveFrame, Waits, stateVars,
         tuneVars, liveVars, recorderVars
  <2>2. QED BY <1>2, <1>3, <2>1
<1>29. QED
  BY <1>4, <1>5, <1>6, <1>7, <1>8, <1>9, <1>10, <1>11, <1>12, <1>13, <1>14, <1>15, <1>16, <1>17,
         <1>18, <1>19, <1>20, <1>21, <1>22, <1>23, <1>24, <1>25, <1>26, <1>27, <1>28
     DEF Call, Continue

\* Every step preserves ChainState.
LEMMA ChainStep ==
  ASSUME OneFrontend, TypeOK, ProgramGiven, QueueFilled, LockHeld, NoneState, RequestState,
         WaitState, QueueState, ChainState, Next
  PROVE  ChainState'
<1>1. m_tuningRequests \in Seq(Requests)
  BY DEF TypeOK
<1>2. ASSUME UNCHANGED <<m_tvChain, clientVars, m_tuningRequests, m_lastTuningRequest>>,
             m_changeState' /\ m_desiredNextState' = "WatchingLiveTV" =>
               m_changeState /\ m_desiredNextState = "WatchingLiveTV",
             epc' = "frequency" => epc = "frequency" \/ m_recorder' # "none",
             m_recorder' = "none" => m_recorder = "none" \/ epc' # "frequency"
      PROVE  ChainState'
  <2>1. cpc' = cpc /\ cont' = cont
    BY <1>2 DEF clientVars
  <2>2. CallsOwned' /\ \A d \in Clients : Waits(d, "channel2")' => Waits(d, "channel2")
    BY <2>1 DEF ChainState, CallsOwned, Waits
  <2>3. QED BY <1>2, <2>2, ChainKept
<1>3. UNCHANGED clientVars => cpc' = cpc /\ cont' = cont
  BY DEF clientVars
<1>4. CASE HandleStateChange
  <2>1. /\ ~ m_changeState' /\ epc' # "frequency"
        /\ UNCHANGED <<m_tvChain, m_lastTuningRequest, clientVars>>
    BY <1>4 DEF HandleStateChange, PauseNext, TuningNext, PendingNext, EventFrame
  <2>2. CASE m_tuningRequests' = m_tuningRequests
    BY <1>2, <2>1, <2>2
  <2>3. CASE \E r \in Requests :
              /\ m_tuningRequests' = Append(m_tuningRequests, r)
              /\ "LiveTV" \in r.flags => m_changeState /\ m_desiredNextState = "WatchingLiveTV"
    <3>1. PICK r \in Requests :
              /\ m_tuningRequests' = Append(m_tuningRequests, r)
              /\ "LiveTV" \in r.flags => m_changeState /\ m_desiredNextState = "WatchingLiveTV"
      BY <2>3
    <3>2. /\ Queue' = Queue \cup {Len(m_tuningRequests) + 1}
          /\ \A i \in Queue : m_tuningRequests'[i] = m_tuningRequests[i]
          /\ m_tuningRequests'[Len(m_tuningRequests) + 1] = r
          /\ LastRequest' = r
      BY <1>1, <3>1, QueueAppended
    <3>3. "LiveTV" \in r.flags => m_tvChain'
      BY <2>1, <3>1 DEF ChainState
    <3>4. \A i \in Queue' : "LiveTV" \in m_tuningRequests'[i].flags => m_tvChain'
      BY <2>1, <3>2, <3>3 DEF ChainState
    <3>5. CallsOwned'
      BY <1>3, <2>1 DEF ChainState, CallsOwned, Waits
    <3>6. QED BY <2>1, <3>2, <3>3, <3>4, <3>5 DEF ChainState
  <2>4. QED BY <1>4, <2>2, <2>3, QueueAfterChange DEF Full, New, Request
<1>5. CASE TuningShutdowns
  BY <1>5, <1>2 DEF TuningShutdowns, EventFrame, liveVars, stateVars, tuneVars, recorderVars,
         clientVars
<1>6. CASE TeardownStop
  BY <1>6, <1>2 DEF TeardownStop, EventFrame, liveVars, stateVars, tuneVars, recorderVars,
         clientVars
<1>7. CASE TeardownFinish
  BY <1>7, <1>2 DEF TeardownFinish, EventFrame, liveVars, stateVars, tuneVars, recorderVars,
         clientVars
<1>8. CASE TeardownEnd
  BY <1>8, <1>2 DEF TeardownEnd, EventFrame, liveVars, stateVars, tuneVars, recorderVars,
         clientVars
<1>9. CASE RequestTaken
  <2>1. m_tuningRequests # <<>>
    BY <1>9 DEF QueueFilled, Shutting, RequestTaken
  <2>2. /\ m_lastTuningRequest' = Front /\ m_tuningRequests' = Tail(m_tuningRequests)
        /\ UNCHANGED <<m_tvChain, m_changeState, m_desiredNextState, clientVars>>
    BY <1>9 DEF RequestTaken, liveVars, stateVars, EventFrame
  <2>3. /\ LastRequest' = LastRequest
        /\ 1 \in Queue /\ Front = m_tuningRequests[1]
        /\ \A i \in Queue' : i + 1 \in Queue /\ m_tuningRequests'[i] = m_tuningRequests[i + 1]
    BY <1>1, <2>1, <2>2, QueueTaken
  <2>4. Live' => m_tvChain'
    BY <2>2, <2>3 DEF Live, ChainState
  <2>5. \A i \in Queue' : "LiveTV" \in m_tuningRequests'[i].flags => m_tvChain'
    BY <2>2, <2>3 DEF ChainState
  <2>6. CallsOwned' /\ \A d \in Clients : Waits(d, "channel2")' => Waits(d, "channel2")
    BY <1>3, <2>2 DEF ChainState, CallsOwned, Waits
  <2>7. QED BY <2>2, <2>3, <2>4, <2>5, <2>6 DEF ChainState
<1>10. CASE WaitForRecPause
  BY <1>10, <1>2 DEF WaitForRecPause, PendingNext, EventFrame, liveVars, stateVars, tuneVars,
         recorderVars, clientVars
<1>11. CASE TuningFails
  <2>1. /\ epc' # "frequency"
        /\ UNCHANGED <<m_tvChain, m_lastTuningRequest, clientVars>>
    BY <1>11 DEF TuningFails, FrequencyFrame, TuningNext, PendingNext
  <2>2. m_changeState' /\ m_desiredNextState' = "WatchingLiveTV" =>
          m_changeState /\ m_desiredNextState = "WatchingLiveTV"
    BY <1>11 DEF TuningFails, ChangeState, NoStateChange
  <2>3. CASE m_internalState # "None"
    BY <1>11, <1>2, <2>1, <2>2, <2>3 DEF TuningFails
  <2>4. CASE m_internalState = "None"
    <3>1. PICK r \in Requests : r = Request({"KillRec"}, Null)
      BY DEF Request, Requests, RequestFlags, NoRec
    <3>2. m_tuningRequests' = Append(m_tuningRequests, r) /\ "LiveTV" \notin r.flags
      BY <1>11, <2>4, <3>1 DEF TuningFails, Request
    <3>3. /\ Queue' = Queue \cup {Len(m_tuningRequests) + 1}
          /\ \A i \in Queue : m_tuningRequests'[i] = m_tuningRequests[i]
          /\ m_tuningRequests'[Len(m_tuningRequests) + 1] = r
          /\ LastRequest' = r
      BY <1>1, <3>2, QueueAppended
    <3>4. \A i \in Queue' : "LiveTV" \in m_tuningRequests'[i].flags => m_tvChain'
      BY <2>1, <3>2, <3>3 DEF ChainState
    <3>5. CallsOwned'
      BY <1>3, <2>1 DEF ChainState, CallsOwned, Waits
    <3>6. QED BY <2>1, <2>2, <3>2, <3>3, <3>4, <3>5 DEF ChainState
  <2>5. QED BY <2>3, <2>4
<1>12. CASE TuningOnSameMultiplex
  BY <1>12, <1>2 DEF TuningOnSameMultiplex, TuningNext, PendingNext, FrequencyFrame, liveVars,
         stateVars, tuneVars, recorderVars, clientVars
<1>13. CASE TuningRecording
  BY <1>13, <1>2 DEF TuningRecording, MonitorErrors, Monitored, TuningNext, PendingNext,
         FrequencyFrame, liveVars, stateVars, tuneVars, recorderVars, clientVars
<1>14. CASE TuningLive
  BY <1>14, <1>2 DEF TuningLive, MonitorErrors, Monitored, LiveFile, TuningNext, PendingNext,
         FrequencyFrame, liveVars, stateVars, tuneVars, recorderVars, clientVars
<1>15. CASE TuningLiveFails
  BY <1>15, <1>2 DEF TuningLiveFails, TuningNext, PendingNext, ChangeState, FrequencyFrame,
       liveVars, stateVars, tuneVars, recorderVars, clientVars
<1>16. CASE TuningSignalCheck
  BY <1>16, <1>2 DEF TuningSignalCheck, Signal, TuningNext, PendingNext, EventFrame, liveVars,
         stateVars, tuneVars, recorderVars, clientVars
<1>17. CASE NoSignalCheck
  BY <1>17, <1>2 DEF NoSignalCheck, PendingNext, EventFrame, liveVars, stateVars, tuneVars,
         recorderVars, clientVars
<1>18. CASE NewRecorderLive
  BY <1>18, <1>2 DEF NewRecorderLive, LiveFile, StartFrame, liveVars, stateVars, tuneVars,
         recorderVars, clientVars
<1>19. CASE NewRecorderFile
  BY <1>19, <1>2 DEF NewRecorderFile, StartFrame, liveVars, stateVars, tuneVars, recorderVars,
         clientVars
<1>20. CASE NewRecorderCrash
  BY <1>20, <1>2 DEF NewRecorderCrash, StartFrame, liveVars, stateVars, tuneVars,
         recorderVars, clientVars
<1>21. CASE NewRecorderNoFile
  BY <1>21, <1>2 DEF NewRecorderNoFile, NewRecorderFailed, ChangeState, PendingNext, StartFrame,
       liveVars, stateVars, tuneVars, recorderVars, clientVars
<1>22. CASE CreateRecorder
  BY <1>22, <1>2 DEF CreateRecorder, StartFrame, liveVars, stateVars, tuneVars, recorderVars,
         clientVars
<1>23. CASE CreateRecorderFails
  BY <1>23, <1>2 DEF CreateRecorderFails, NewRecorderFailed, ChangeState, PendingNext,
         StartFrame, liveVars, stateVars, tuneVars, recorderVars, clientVars
<1>24. CASE RecorderStarted
  BY <1>24, <1>2 DEF RecorderStarted, PendingNext, StartFrame, liveVars, stateVars, tuneVars,
         recorderVars, clientVars
<1>25. CASE TuningRestartRecorder
  BY <1>25, <1>2 DEF TuningRestartRecorder, LiveFile, PendingNext, StartFrame, liveVars,
         stateVars, tuneVars, recorderVars, clientVars
<1>26. CASE TuningRestartFails
  BY <1>26, <1>2 DEF TuningRestartFails, ChangeState, PendingNext, StartFrame, liveVars,
         stateVars, tuneVars, recorderVars, clientVars
<1>27. CASE HandlePendingRecordings
  BY <1>27, <1>2 DEF HandlePendingRecordings, LoopFrame, liveVars, stateVars, tuneVars,
         recorderVars, clientVars
<1>28. CASE CheckEnd
  BY <1>28, <1>2 DEF CheckEnd, Awake, LoopEnds, ChangeState, NoStateChange, LoopFrame, liveVars,
       stateVars, tuneVars, recorderVars, clientVars
<1>29. CASE CheckLive
  BY <1>29, <1>2 DEF CheckLive, CheckLiveFrame, LoopEnds, NoStateChange, LoopFrame, liveVars,
         stateVars, tuneVars, recorderVars, clientVars
<1>30. CASE SwitchLive
  BY <1>30, <1>2 DEF SwitchLive, CheckLiveFrame, LoopEnds, ChangeState, NoStateChange,
         LoopFrame, liveVars, stateVars, tuneVars, recorderVars, clientVars
<1>31. CASE RingBufferChanged
  BY <1>31, <1>2 DEF RingBufferChanged, ElseFrame, Front, Kill, liveVars, stateVars, tuneVars,
         recorderVars, clientVars
<1>32. CASE RecorderRuns
  BY <1>32, <1>2 DEF RecorderRuns, ElseFrame, liveVars, stateVars, tuneVars, recorderVars
<1>33. CASE RecorderErrs
  BY <1>33, <1>2 DEF RecorderErrs, ElseFrame, liveVars, stateVars, tuneVars, recorderVars
<1>34. CASE RecorderPauses
  BY <1>34, <1>2 DEF RecorderPauses, ElseFrame, liveVars, stateVars, tuneVars, recorderVars
<1>35. CASE TimePasses
  BY <1>35, <1>2 DEF TimePasses, ElseFrame, liveVars, stateVars, tuneVars, recorderVars
<1>36. CASE KeepLive
  <2>1. UNCHANGED <<m_tvChain, m_tuningRequests, m_lastTuningRequest, m_changeState, m_desiredNextState, epc,
                    m_recorder, cpc, cont>>
    BY <1>36 DEF KeepLive, liveVars, stateVars, tuneVars, recorderVars
  <2>2. CallsOwned' /\ \A d \in Clients : Waits(d, "channel2")' => Waits(d, "channel2")
    BY <2>1 DEF ChainState, CallsOwned, Waits
  <2>3. QED BY <2>1, <2>2, ChainKept
<1>37. CASE \E c \in Clients : Call(c) \/ Continue(c)
  BY <1>37, ChainCalls
<1>38. QED
  BY <1>4, <1>5, <1>6, <1>7, <1>8, <1>9, <1>10, <1>11, <1>12, <1>13, <1>14, <1>15, <1>16, <1>17,
         <1>18, <1>19, <1>20, <1>21, <1>22, <1>23, <1>24, <1>25, <1>26, <1>27, <1>28, <1>29,
         <1>30, <1>31, <1>32, <1>33, <1>34, <1>35, <1>36, <1>37
     DEF Next, EventThread, Recorder, HandleTuning, TuningFrequency

-----------------------------------------------------------------------------
(* Rows and marks *)

\* LiveFile finishes the recording that it replaces, or counts it as dropped.
LEMMA LiveFileAccounts ==
  ASSUME Accounted, RowsTyped, UNCHANGED m_nextRecording, NEW r \in Recs, NEW dummy, NEW st, NEW fin, NEW use,
         fin = finished \/ fin = finished \cup Of(m_curRecording), use \subseteq inUse,
         LiveFile(r, dummy, st, fin, use)
  PROVE  Accounted'
<1> DEFINE ends == m_buffer # Null /\ ~ chainDummy
           marked == IF ends \/ m_buffer = Null THEN use \ {m_curRecording} ELSE use
<1>1. /\ inUse' = marked \cup {r} /\ started' = started \cup {r} /\ m_curRecording' = r
      /\ marked \subseteq inUse /\ finished \subseteq fin
      /\ ends => finished' = fin \cup Of(m_curRecording) /\ dropped' = dropped /\ m_curRecording \notin marked
      /\ ~ ends => finished' = fin /\ dropped' = dropped \cup (Of(m_curRecording) \ (fin \ marked))
  BY DEF LiveFile
<1> HIDE DEF ends, marked
<1>2. CASE ends
  BY <1>1, <1>2 DEF Accounted, RowsTyped, Of
<1>3. CASE ~ ends
  BY <1>1, <1>3 DEF Accounted, RowsTyped, Of
<1>4. QED BY <1>2, <1>3

\* Every step keeps marks and open rows accounted for.
LEMMA AccountedStep ==
  ASSUME TypeOK, ProgramGiven, Accounted, Next
  PROVE  Accounted'
<1>1. RowsTyped
  BY SetsAssumption DEF RowsTyped, TypeOK, Recs
<1>2. ASSUME UNCHANGED <<m_curRecording, m_nextRecording>>, dropped \subseteq dropped',
             inUse' \subseteq inUse, finished \subseteq finished',
             started' \subseteq started \cup finished' \cup dropped'
      PROVE  Accounted'
  BY <1>2 DEF Accounted
<1>3. CASE HandleStateChange
  BY <1>3, <1>1, <1>2 DEF HandleStateChange, dbVars, recorderVars
<1>4. CASE TuningShutdowns
  BY <1>4, <1>1, <1>2 DEF TuningShutdowns, dbVars, recorderVars
<1>5. CASE TeardownStop
  BY <1>5, <1>1, <1>2 DEF TeardownStop, Accounted, RowsTyped, Of, dbVars, recorderVars
<1>6. CASE TeardownFinish
  BY <1>6, <1>1, <1>2 DEF TeardownFinish, Accounted, RowsTyped, Of, dbVars, recorderVars
<1>7. CASE TeardownEnd
  BY <1>7, <1>1, <1>2 DEF TeardownEnd, dbVars, recorderVars
<1>8. CASE RequestTaken
  BY <1>8, <1>1, <1>2 DEF RequestTaken, dbVars, recorderVars
<1>9. CASE WaitForRecPause
  BY <1>9, <1>1, <1>2 DEF WaitForRecPause, dbVars, recorderVars
<1>10. CASE TuningFails
  BY <1>10, <1>1, <1>2 DEF TuningFails, FrequencyFrame, dbVars, recorderVars
<1>11. CASE TuningOnSameMultiplex
  BY <1>11, <1>1, <1>2 DEF TuningOnSameMultiplex, FrequencyFrame, dbVars, recorderVars
<1>12. CASE TuningRecording
  BY <1>12, <1>1, <1>2 DEF TuningRecording, FrequencyFrame, dbVars, recorderVars
<1>13. CASE TuningLive
  <2>1. PICK r \in NextLive(Null) : LiveFile(r, TRUE, status, finished, inUse)
    BY <1>13 DEF TuningLive
  <2>2. r \in Recs /\ UNCHANGED m_nextRecording
    BY <1>13, <2>1, NextLiveType DEF TuningLive, FrequencyFrame, recorderVars, HadDummy
  <2>3. QED BY <1>1, <2>1, <2>2, LiveFileAccounts
<1>14. CASE TuningLiveFails
  BY <1>14, <1>1, <1>2 DEF TuningLiveFails, NoLiveFile, NoLiveChannel, NoLiveBuffer, FrequencyFrame, dbVars, recorderVars
<1>15. CASE TuningSignalCheck
  BY <1>15, <1>1, <1>2 DEF TuningSignalCheck, dbVars, recorderVars
<1>16. CASE NoSignalCheck
  BY <1>16, <1>1, <1>2 DEF NoSignalCheck, dbVars, recorderVars
<1>17. CASE NewRecorderLive
  <2>1. PICK r \in NextLive(m_pseudoLiveTVRecording) : LiveFile(r, FALSE, StatusAfterDummy, FinishedAfterDummy, InUseAfterDummy)
    BY <1>17 DEF NewRecorderLive
  <2>2. r \in Recs /\ UNCHANGED m_nextRecording
    BY <1>17, <2>1, NextLiveType DEF NewRecorderLive, StartFrame, recorderVars, HadDummy
  <2>3. QED BY <1>1, <2>1, <2>2, LiveFileAccounts DEF FinishedAfterDummy, InUseAfterDummy
<1>18. CASE NewRecorderFile
  BY <1>18, <1>1, <1>2 DEF NewRecorderFile, FinishedAfterDummy, InUseAfterDummy, dbVars,
         recorderVars
<1>19. CASE NewRecorderCrash
  BY <1>19, <1>1, <1>2 DEF NewRecorderCrash, dbVars, recorderVars
<1>20. CASE NewRecorderNoFile
  BY <1>20, <1>1, <1>2 DEF NewRecorderNoFile, NoLiveFile, NoLiveChannel, NoLiveBuffer, FinishedAfterDummy, InUseAfterDummy,
         dbVars, recorderVars
<1>21. CASE CreateRecorder
  BY <1>21, <1>1, <1>2 DEF CreateRecorder, dbVars, recorderVars
<1>22. CASE CreateRecorderFails
  BY <1>22, <1>1, <1>2 DEF CreateRecorderFails, Accounted, RowsTyped, Of, dbVars, recorderVars
<1>23. CASE RecorderStarted
  BY <1>23, <1>1, <1>2 DEF RecorderStarted, dbVars, recorderVars
<1>24. CASE TuningRestartRecorder
  <2>1. CASE HadDummy
    <3>1. PICK r \in NextLive(m_pseudoLiveTVRecording) :
            /\ LiveFile(r, FALSE, FinalOf(status, m_curRecording),
                        finished \cup Of(m_curRecording), inUse \ {m_curRecording})
            /\ UNCHANGED m_nextRecording
      BY <1>24, <2>1 DEF TuningRestartRecorder
    <3>2. r \in Recs
      BY <3>1, NextLiveType
    <3>3. QED BY <1>1, <3>1, <3>2, LiveFileAccounts
  <2>2. CASE ~ HadDummy
    BY <1>24, <1>1, <2>2 DEF TuningRestartRecorder, Accounted, RowsTyped, Of
  <2>3. QED BY <2>1, <2>2
<1>25. CASE TuningRestartFails
  BY <1>25, <1>1, <1>2 DEF TuningRestartFails, NoLiveFile, NoLiveChannel, NoLiveBuffer, dbVars, recorderVars
<1>26. CASE HandlePendingRecordings
  BY <1>26, <1>1, <1>2 DEF HandlePendingRecordings, dbVars, recorderVars
<1>27. CASE CheckEnd
  BY <1>27, <1>1, <1>2 DEF CheckEnd, dbVars, recorderVars
<1>28. CASE CheckLive
  BY <1>28, <1>1, <1>2 DEF CheckLive, CheckLiveFrame, dbVars, recorderVars
<1>29. CASE SwitchLive
  BY <1>29, <1>1, <1>2 DEF SwitchLive, CheckLiveFrame, NoLiveFile, NoLiveChannel, NoLiveBuffer, Accounted, RowsTyped, Of,
         dbVars, recorderVars
<1>30. CASE RecorderRuns
  BY <1>30, <1>1, <1>2 DEF RecorderRuns, dbVars, recorderVars
<1>31. CASE RecorderErrs
  BY <1>31, <1>1, <1>2 DEF RecorderErrs, dbVars, recorderVars
<1>32. CASE RecorderPauses
  BY <1>32, <1>1, <1>2 DEF RecorderPauses, dbVars, recorderVars
<1>33. CASE RingBufferChanged
  BY <1>33, <1>1, <1>2 DEF RingBufferChanged, Accounted, RowsTyped, Of, dbVars, recorderVars
<1>34. CASE TimePasses
  BY <1>34, <1>1, <1>2 DEF TimePasses, dbVars, recorderVars
<1>35. CASE KeepLive
  BY <1>35, <1>1, <1>2 DEF KeepLive, dbVars, recorderVars
<1>36. \A c \in Clients, p \in Programs : StartRecording(c, p) => Accounted'
  BY <1>2 DEF StartRecording, dbVars, recorderVars
<1>37. \A c \in Clients : StopRecording(c) => Accounted'
  BY <1>2 DEF StopRecording, StopFrame, dbVars, recorderVars
<1>38. \A c \in Clients : FinishRecording(c) => Accounted'
  BY <1>2 DEF FinishRecording, StopFrame, dbVars, recorderVars
<1>39. \A c \in Clients : SpawnLiveTV(c) => Accounted'
  BY <1>2 DEF SpawnLiveTV, LiveFrame, dbVars, recorderVars
<1>40. \A c \in Clients : StopLiveTV(c) => Accounted'
  BY <1>2 DEF StopLiveTV, LiveFrame, dbVars, recorderVars
<1>41. \A c \in Clients : SetLiveRecording(c) => Accounted'
  BY <1>2 DEF SetLiveRecording, LiveFrame, dbVars, recorderVars
<1>42. \A c \in Clients : PauseRecorder(c) => Accounted'
  BY <1>2 DEF PauseRecorder, LiveFrame, dbVars, recorderVars
<1>43. \A c \in Clients : RecordPending(c) => Accounted'
  BY <1>2 DEF RecordPending, PendFrame, dbVars, recorderVars
<1>44. \A c \in Clients : CancelNextRecording(c) => Accounted'
  BY <1>2 DEF CancelNextRecording, PendFrame, dbVars, recorderVars
<1>45. \A c \in Clients : Doze(c) => Accounted'
  BY <1>2 DEF Doze, WaitFrame, dbVars, recorderVars
<1>46. \A c \in Clients : Woken(c) => Accounted'
  BY <1>2 DEF Woken, WaitFrame, dbVars, recorderVars
<1>47. \A c \in Clients : Relock(c) => Accounted'
  BY <1>2 DEF Relock, WaitFrame, dbVars, recorderVars
<1>48. \A c \in Clients : StartExtends(c) => Accounted'
  BY <1>2 DEF StartExtends, dbVars, recorderVars
<1>49. \A c \in Clients : StartAsks(c) => Accounted'
  BY <1>2 DEF StartAsks, dbVars, recorderVars
<1>50. \A c \in Clients : StartSwitches(c) => Accounted'
  BY <1>1 DEF StartSwitches, Accounted, RowsTyped, Of
<1>51. \A c \in Clients : StartStops(c) => Accounted'
  BY <1>2 DEF StartStops, dbVars, recorderVars
<1>52. \A c \in Clients : StartDecides(c) => Accounted'
  <2>0. TAKE c \in Clients
  <2>1. SUFFICES ASSUME StartDecides(c) PROVE Accounted'
    OBVIOUS
  <2>2. program[c] \in Recs
    BY <2>1, StartProgram DEF StartDecides
  <2>3. CASE StartBegins(c)
    BY <1>1, <2>1, <2>2, <2>3 DEF StartDecides, StartBegins, NewRow, Accounted, RowsTyped, Of,
         recorderVars
  <2>4. CASE StartInLive(c) \/ StartRefused(c)
    BY <1>2, <2>1, <2>4 DEF StartDecides, StartInLive, StartRefused, recorderVars, dbVars
  <2>5. QED BY <2>1, <2>3, <2>4 DEF StartDecides
<1>53. \A c \in Clients : StartEnds(c) => Accounted'
  BY <1>2 DEF StartEnds, dbVars, recorderVars
<1>54. \A c \in Clients : StopLooks(c) => Accounted'
  BY <1>2 DEF StopLooks, StopFrame, dbVars, recorderVars
<1>55. \A c \in Clients : StopAsks(c) => Accounted'
  BY <1>2 DEF StopAsks, StopFrame, dbVars, recorderVars
<1>56. \A c \in Clients : StopEnds(c) => Accounted'
  BY <1>2 DEF StopEnds, StopFrame, dbVars, recorderVars
<1>57. \A c \in Clients : SpawnEnds(c) => Accounted'
  BY <1>2 DEF SpawnEnds, LiveFrame, dbVars, recorderVars
<1>58. \A c \in Clients : StopLiveEnds(c) => Accounted'
  BY <1>2 DEF StopLiveEnds, LiveFrame, dbVars, recorderVars
<1>59. \A c \in Clients : SetChannel(c) => Accounted'
  BY <1>2 DEF SetChannel, LiveFrame, dbVars, recorderVars
<1>60. \A c \in Clients : SetChannelEnds(c) => Accounted'
  BY <1>2 DEF SetChannelEnds, LiveFrame, dbVars, recorderVars
<1>61. QED
  BY <1>3, <1>4, <1>5, <1>6, <1>7, <1>8, <1>9, <1>10, <1>11, <1>12, <1>13, <1>14, <1>15, <1>16,
         <1>17, <1>18, <1>19, <1>20, <1>21, <1>22, <1>23, <1>24, <1>25, <1>26, <1>27, <1>28,
         <1>29, <1>30, <1>31, <1>32, <1>33, <1>34, <1>35, <1>36, <1>37, <1>38, <1>39, <1>40,
         <1>41, <1>42, <1>43, <1>44, <1>45, <1>46, <1>47, <1>48, <1>49, <1>50, <1>51, <1>52,
         <1>53, <1>54, <1>55, <1>56, <1>57, <1>58, <1>59, <1>60
     DEF Next, EventThread, HandleTuning, TuningFrequency, Recorder, Call, Continue

-----------------------------------------------------------------------------
(* The theorems *)

\* The inductive invariant.
Inv ==
  /\ TypeOK
  /\ ProgramGiven
  /\ QueueFilled
  /\ LockHeld
  /\ RecorderState
  /\ NoneState
  /\ CurrentState
  /\ RequestState
  /\ WaitState
  /\ QueueState
  /\ ProgramState
  /\ BufferState
  /\ Accounted

\* It holds initially ...
LEMMA InitInv == Init => Inv
<1> SUFFICES ASSUME Init PROVE Inv
  OBVIOUS
<1>1. TypeOK
  <2>1. EventType /\ TimeType
    <3>1. m_changeState \in BOOLEAN /\ m_triggerEventSleepSignal \in BOOLEAN
      BY Zenon DEF Init
    <3>2. QED BY <3>1 DEF Init, EventType, TimeType, States
  <2>2. QueueType
    <3>1. Request({}, Null) \in Requests
      BY DEF Request, Requests
    <3>2. QED BY <3>1 DEF Init, QueueType
  <2>3. DataType
    BY SetsAssumption DEF Init, DataType, RecStatuses, Recs
  <2>4. FlagType
    BY Zenon DEF Init, FlagType
  <2>5. RowType
    BY DEF Init, RowType, StatusMap, Recs
  <2>6. ClientType
    BY SetsAssumption DEF Init, ClientType
  <2>7. QED BY <2>1, <2>2, <2>3, <2>4, <2>5, <2>6, TypeParts
<1>2. Queue = {} /\ LastRequest = Request({}, Null) /\ m_lastTuningRequest = Request({}, Null)
  BY DEF Init, Queue, LastRequest
<1>3. ~ New(Request({}, Null)) /\ ~ Kill(Request({}, Null)) /\ "KillRingBuffer" \notin Request({}, Null).flags
  BY DEF New, Kill, Request
<1>4. ProgramGiven
  BY DEF Init, ProgramGiven
<1>5. QueueFilled /\ LockHeld /\ RecorderState /\ WaitState
  BY DEF Init, QueueFilled, LockHeld, RecorderState, WaitState, Shutting, Unlocked
<1>6. NoneState /\ CurrentState
  BY <1>2, <1>3 DEF Init, NoneState, Clean, NothingNew, LastIsNew, CurrentState
<1>7. RequestState
  BY <1>2, <1>3 DEF Init, RequestState, Formed
<1>8. QueueState
  BY <1>2 DEF Init, QueueState, Shutting, NothingNew, NoFull, NoKill
<1>9. ProgramState
  BY <1>2 DEF Init, ProgramState, OwnProgram, NoProgram, NoLaterProgram
<1>10. BufferState
  BY DEF Init, BufferState
<1>11. Accounted
  BY DEF Init, Accounted
<1>12. QED BY <1>1, <1>4, <1>5, <1>6, <1>7, <1>8, <1>9, <1>10, <1>11 DEF Inv

\* ... when nothing happens ...
LEMMA InvStutters ==
  ASSUME Inv, UNCHANGED vars
  PROVE  Inv'
<1>1. TypeOK'
  <2>1. EventType' /\ QueueType'
    BY TypeParts DEF Inv, EventType, QueueType, vars, eventVars, stateVars, tuneVars, sleepVars
  <2>2. DataType' /\ TimeType' /\ RowType'
    BY TypeParts DEF Inv, DataType, TimeType, RowType, vars, timeVars, liveVars, recorderVars, dbVars
  <2>3. FlagType'
    BY TypeParts DEF Inv, FlagType, vars, timeVars, liveVars
  <2>4. ClientType'
    BY TypeParts DEF Inv, ClientType, vars, clientVars
  <2>5. QED BY <2>1, <2>2, <2>3, <2>4, TypePartsNext
<1>2. m_tuningRequests' = m_tuningRequests /\ m_lastTuningRequest' = m_lastTuningRequest /\ m_curRecording' = m_curRecording
  BY DEF vars, tuneVars
<1>3. /\ KillAhead' <=> KillAhead
      /\ NothingNew' <=> NothingNew
      /\ LastIsNew' <=> LastIsNew
  BY <1>2, QueueSame
<1>4. /\ FirstNew' <=> FirstNew
      /\ NoFull' <=> NoFull
      /\ NoKill' <=> NoKill
  BY <1>2, QueueKept
<1>5. /\ NoProgram' <=> NoProgram
      /\ NoLaterProgram' <=> NoLaterProgram
      /\ OwnProgram => OwnProgram'
  BY <1>2, ProgramsKept
<1>6. ProgramGiven'
  BY <1>1, <1>2, <1>3, <1>4, <1>5 DEF Inv, ProgramGiven, vars, eventVars, stateVars, tuneVars,
         recorderVars, dbVars, clientVars
<1>7. QueueFilled'
  BY <1>1, <1>2, <1>3, <1>4, <1>5 DEF Inv, QueueFilled, vars, eventVars, stateVars, tuneVars,
         recorderVars, dbVars, clientVars
<1>8. LockHeld'
  BY <1>1, <1>2, <1>3, <1>4, <1>5 DEF Inv, LockHeld, vars, eventVars, stateVars, tuneVars,
         recorderVars, dbVars, clientVars
<1>9. RecorderState'
  BY <1>1, <1>2, <1>3, <1>4, <1>5 DEF Inv, RecorderState, Kill, Front, vars, eventVars,
         stateVars, tuneVars, recorderVars, dbVars, clientVars
<1>10. NoneState'
  BY <1>1, <1>2, <1>3, <1>4, <1>5 DEF Inv, NoneState, Clean, vars, eventVars, stateVars,
         tuneVars, recorderVars, dbVars, clientVars
<1>11. CurrentState'
  BY <1>1, <1>2, <1>3, <1>4, <1>5 DEF Inv, CurrentState, KillDone, Begun, Kill, Front, vars,
         eventVars, stateVars, tuneVars, recorderVars, dbVars, clientVars
<1>12. RequestState'
  BY <1>1, <1>2, <1>3, <1>4, <1>5 DEF Inv, RequestState, Formed, New, Kill, Queue, vars,
         eventVars, stateVars, tuneVars, recorderVars, dbVars, clientVars
<1>13. WaitState'
  BY <1>1, <1>2, <1>3, <1>4, <1>5 DEF Inv, WaitState, Kill, Front, vars, eventVars, stateVars,
         tuneVars, recorderVars, dbVars, clientVars
<1>14. QueueState'
  BY <1>1, <1>2, <1>3, <1>4, <1>5 DEF Inv, QueueState, Begun, vars, eventVars, stateVars,
         tuneVars, recorderVars, dbVars, clientVars
<1>15. ProgramState'
  BY <1>1, <1>2, <1>3, <1>4, <1>5 DEF Inv, ProgramState, vars, eventVars, stateVars, tuneVars,
         recorderVars, dbVars, clientVars
<1>16. BufferState'
  BY <1>1, <1>2, <1>3, <1>4, <1>5 DEF Inv, BufferState, Live, vars, eventVars, stateVars,
         tuneVars, recorderVars, dbVars, clientVars
<1>17. Accounted'
  BY <1>1, <1>2, <1>3, <1>4, <1>5 DEF Inv, Accounted, vars, eventVars, stateVars, tuneVars,
         recorderVars, dbVars, clientVars
<1>18. QED
  BY <1>1, <1>6, <1>7, <1>8, <1>9, <1>10, <1>11, <1>12, <1>13, <1>14, <1>15, <1>16, <1>17 DEF Inv

\* ... and after every step.
LEMMA InvStep ==
  ASSUME Inv, [Next]_vars
  PROVE  Inv'
<1>1. CASE UNCHANGED vars
  BY <1>1, InvStutters
<1>2. CASE Next
  <2>1. TypeOK' /\ ProgramGiven' /\ QueueFilled' /\ LockHeld'
    BY <1>2, TypeStep, ProgramStep, FilledStep, LockStep DEF Inv
  <2>2. RecorderState' /\ NoneState' /\ CurrentState'
    BY <1>2, RecorderStep, NoneStep, CurrentStep DEF Inv
  <2>3. RequestState' /\ WaitState' /\ QueueState'
    BY <1>2, RequestStep, WaitStep, QueueStep DEF Inv
  <2>4. ProgramState' /\ BufferState' /\ Accounted'
    BY <1>2, ProgramsStep, BufferStep, AccountedStep DEF Inv
  <2>5. QED BY <2>1, <2>2, <2>3, <2>4 DEF Inv
<1>3. QED BY <1>1, <1>2

\* The invariant holds in every behaviour: whatever the clients call, and
\* wherever the event thread releases the lock.
THEOREM Invariant == Spec => []Inv
<1>1. Init => Inv
  BY InitInv
<1>2. Inv /\ [Next]_vars => Inv'
  BY InvStep
<1>3. QED BY <1>1, <1>2, PTL DEF Spec

\* Every variable keeps its type: no request is taken from an empty queue, no
\* recording is made for a missing program.
THEOREM TypeCorrect == Spec => []TypeOK
<1>1. Inv => TypeOK
  BY DEF Inv
<1>2. QED BY <1>1, Invariant, PTL

\* A recording that is marked in use, or whose row is not finished, is the
\* current or the next one of this input, or was lost at one of the known
\* places: StartRecording, the switch of files, channel changes and teardown
\* lose no other.
THEOREM RecordingsAlwaysAccounted == Spec => []RecordingsAccounted
<1>1. Inv => RecordingsAccounted
  BY DEF Inv, Accounted, RecordingsAccounted
<1>2. QED BY <1>1, Invariant, PTL

\* An input that is settled in the state None has no recorder, file, monitor or
\* dummy, and its last recording is finished or was lost at a known place,
\* however calls and failures of HandleTuning interleave.
THEOREM IdleAlwaysClean == Spec => []IdleClean
<1>1. Inv => IdleClean
  <2>1. SUFFICES ASSUME Inv, Settled, m_internalState = "None"
                 PROVE  /\ m_recorder = "none" /\ m_buffer = Null
                        /\ m_stateFlags \cap {"RecorderRunning", "DummyRecorderRunning", "SignalMonitorRunning"} = {}
                        /\ m_curRecording \in {Null} \cup finished \cup dropped
    BY DEF IdleClean
  <2>2. ~ KillAhead /\ ~ Begun
    BY <2>1 DEF Settled, KillAhead, Queue, Begun
  <2>3. Clean
    BY <2>1, <2>2 DEF Inv, NoneState
  <2>4. m_curRecording \in {Null} \cup finished \cup dropped
    BY <2>1, <2>2 DEF Inv, CurrentState
  <2>5. QED BY <2>3, <2>4 DEF Clean
<1>2. QED BY <1>1, Invariant, PTL

\* While the event thread sleeps, a running recorder writes the file of the
\* current recording, if there still is one (a teardown may have taken a new
\* one away).
THEOREM BufferAlwaysCurrent == Spec => []BufferIsCurrent
<1>1. Inv => BufferIsCurrent
  <2>1. SUFFICES ASSUME Inv, epc = "asleep", "RecorderRunning" \in m_stateFlags
                 PROVE  m_buffer = m_curRecording \/ m_curRecording = Null
    BY DEF BufferIsCurrent
  <2>2. CASE m_internalState = "None"
    <3>1. ~ KillAhead
      BY <2>1 DEF Inv, QueueState, NoFull, KillAhead
    <3>2. Clean
      BY <2>1, <2>2, <3>1 DEF Inv, NoneState
    <3>3. QED BY <2>1, <3>2 DEF Clean
  <2>3. CASE m_internalState # "None"
    <3>1. NoKill
      BY <2>1, <2>3 DEF Inv, QueueState
    <3>2. QED BY <2>1, <3>1 DEF Inv, BufferState
  <2>4. QED BY <2>2, <2>3
<1>2. QED BY <1>1, Invariant, PTL

\* The recording that a running dummy recorder has and the chain that
\* TuningFrequency dereferences for live TV that begins are there, if the
\* frontend that stops live TV is the one that changes channels (without that
\* the chain can be gone, see README).
THEOREM PointersAlwaysPresent ==
  ASSUME OneFrontend
  PROVE  Spec => []PointersPresent
<1>1. Init => ChainState
  BY DEF Init, ChainState, CallsOwned, Waits, Queue
<1>2. Inv /\ ChainState /\ [Next]_vars => ChainState'
  <2>1. SUFFICES ASSUME Inv, ChainState, [Next]_vars PROVE ChainState'
    OBVIOUS
  <2>2. CASE Next
    BY <2>1, <2>2, ChainStep DEF Inv
  <2>3. CASE UNCHANGED vars
    <3>1. UNCHANGED <<m_tvChain, m_tuningRequests, m_lastTuningRequest, m_changeState, m_desiredNextState, epc,
                      m_recorder, cpc, cont>>
      BY <2>3 DEF vars, eventVars, stateVars, tuneVars, liveVars, recorderVars, clientVars
    <3>2. CallsOwned' /\ \A d \in Clients : Waits(d, "channel2")' => Waits(d, "channel2")
      BY <2>1, <3>1 DEF ChainState, CallsOwned, Waits
    <3>3. QED BY <2>1, <3>1, <3>2, ChainKept
  <2>4. QED BY <2>1, <2>2, <2>3
<1>3. Inv /\ ChainState => PointersPresent
  BY DEF Inv, RecorderState, ChainState, PointersPresent
<1>4. QED BY <1>1, <1>2, <1>3, Invariant, PTL DEF Spec
=============================================================================
