SPECIFICATION Spec
CONSTANTS
  hostA = hostA
  hostB = hostB
  master = master
  frontend = frontend
  none = none
  recording1 = recording1
  recording2 = recording2
  Hosts = {hostA, hostB}
  NoHost = none
  Housekeeper = master
  Clients = {frontend}
  Recordings = {recording1}
  Types = {"user"}
  NotAllowed = {}
  Windows = {TRUE, FALSE}
  Fates = {"found"}
  Results = {"OK", "ERROR"}
  QueueHosts = {none}
  RunOnRecordHost = FALSE
  MaxJobs = 2
  RetryLimit = 3
  Ops = {"QueueJob", "DeleteJob", "DeleteAllJobs", "Requeue", "Cleanup"}
  Cmds = {"STOP"}
  DbMayFail = FALSE
  Delays = {0}
  MaxIds = 1
  MaxCmds = 2
  MaxCrashes = 1
  MaxCopies = 2
SYMMETRY Symmetric
INVARIANTS Ownership OneRunner
