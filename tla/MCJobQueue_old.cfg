SPECIFICATION FairSpec
CONSTANTS
  hostA = hostA
  hostB = hostB
  master = master
  frontend = frontend
  none = none
  recording1 = recording1
  recording2 = recording2
  Hosts = {hostA}
  NoHost = none
  Housekeeper = master
  Clients = {frontend}
  Recordings = {recording1}
  Types = {"user", "transcode"}
  NotAllowed = {}
  Windows = {TRUE}
  Fates = {"found"}
  Results = {"OK"}
  QueueHosts = {none}
  RunOnRecordHost = FALSE
  MaxJobs = 1
  RetryLimit = 3
  Ops = {"QueueJob", "RecoverOld"}
  Cmds = {}
  DbMayFail = FALSE
  Delays = {0, 1}
  MaxIds = 1
  MaxCmds = 2
  MaxCrashes = 0
  MaxCopies = 2
PROPERTIES JobsEnd
