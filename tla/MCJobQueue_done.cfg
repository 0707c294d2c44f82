SPECIFICATION Spec
CONSTANTS
  hostA = hostA
  hostB = hostB
  master = master
  frontend = frontend
  none = none
  recording1 = recording1
  recording2 = recording2
  Hosts = {hostA, hostB}
  NoHost = none
  Housekeeper = master
  Clients = {frontend}
  Recordings = {recording1}
  Types = {"transcode", "flag"}
  NotAllowed = {}
  Windows = {TRUE}
  Fates = {"found", "missing", "deleted"}
  Results = {"OK", "RESTART", "ERROR", "NOTFOUND"}
  QueueHosts = {none}
  RunOnRecordHost = FALSE
  MaxJobs = 2
  RetryLimit = 1
  Ops = {"QueueJob", "DeleteJob", "Cleanup"}
  Cmds = {"STOP", "PAUSE", "RESUME"}
  DbMayFail = TRUE
  Delays = {0}
  MaxIds = 1
  MaxCmds = 2
  MaxCrashes = 1
  MaxCopies = 1
SYMMETRY Symmetric
INVARIANTS TypeOK PginfoAlive
PROPERTIES DoneStays
