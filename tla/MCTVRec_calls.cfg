SPECIFICATION Spec
CONSTANTS
  Programs = {p1, p2}
  LiveRecs = {l1, l2, l3, l4}
  Scheduler = Scheduler
  Frontend = Frontend
  Clients = {Scheduler, Frontend}
  Null = Null
  Event = Event
  Ops <- AllOps
  MaxCalls = 2
  Faults = {"channel", "monitor", "signal", "late", "file", "recorder", "device"}
SYMMETRY Symmetric
INVARIANTS
  RecordingsAccounted
  BufferIsCurrent
  IdleClean
  PointersPresent
PROPERTIES
  OutcomeStands
CHECK_DEADLOCK FALSE
