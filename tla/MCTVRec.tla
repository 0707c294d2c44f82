------------------------------ MODULE MCTVRec -------------------------------
(* TVRec for TLC: the scheduler and a frontend are the clients.             *)
EXTENDS TVRec, TLC

CONSTANTS Scheduler, Frontend

SchedulerOps == {"StartRecording", "StopRecording", "RecordPending"}
LiveOps == {"SpawnLiveTV", "StopLiveTV", "SetChannel", "SetLiveRecording"}

AllOps == Scheduler :> SchedulerOps @@ Frontend :> LiveOps \cup {"StopRecording", "FinishRecording"}
RecordOps == Scheduler :> {"StartRecording"} @@ Frontend :> {"StopRecording", "SpawnLiveTV"}

Symmetric == Permutations(Programs)
=============================================================================
