SPECIFICATION FairSpec
CONSTANTS
  t1 = t1
  t2 = t2
  t3 = t3
  r1 = r1
  r2 = r2
  r3 = r3
  c1 = c1
  c2 = c2
  None = None
  Threads = {t1, t2}
  Runnables = {r1, r2}
  Clients = {c1, c2}
  Priorities = {0, 1}
  MaxThreadCount = 1
  Ops = {"start", "tryStart", "startReserved", "waitForDone", "Stop", "Delete"}
  StartMayFail = TRUE
INVARIANTS
  RunnablesKept
  ThreadsAccounted
  ReserveExact
PROPERTIES
  AcceptedRuns
  WaitsEnd
CHECK_DEADLOCK FALSE
