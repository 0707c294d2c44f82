SPECIFICATION FairSpec
CONSTANTS
  hostA = hostA
  hostB = hostB
  master = master
  frontend = frontend
  none = none
  recording1 = recording1
  recording2 = recording2
  Hosts = {hostA, hostB}
  NoHost = none
  Housekeeper = master
  Clients = {frontend}
  Recordings = {recording1, recording2}
  Types = {"user"}
  NotAllowed = {}
  Windows = {TRUE}
  Fates = {"found"}
  Results = {"OK"}
  QueueHosts = {none, hostA}
  RunOnRecordHost = FALSE
  MaxJobs = 1
  RetryLimit = 3
  Ops = {"QueueJob"}
  Cmds = {}
  DbMayFail = FALSE
  Delays = {0}
  MaxIds = 2
  MaxCmds = 1
  MaxCrashes = 0
  MaxCopies = 1
INVARIANTS WithinMaxJobs
PROPERTIES JobsEnd
