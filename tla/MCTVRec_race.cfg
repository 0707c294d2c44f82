SPECIFICATION Spec
CONSTANTS
  Programs = {p1, p2}
  LiveRecs = {l1, l2, l3}
  Scheduler = Scheduler
  Frontend = Frontend
  Clients = {Scheduler, Frontend}
  Null = Null
  Event = Event
  Ops <- RecordOps
  MaxCalls = 3
  Faults = {}
SYMMETRY Symmetric
CHECK_DEADLOCK FALSE
INVARIANT NewRecordingSurvives
