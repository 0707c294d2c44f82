SPECIFICATION FairSpec
CONSTANTS
  Programs = {p1}
  LiveRecs = {l1, l2, l3}
  Scheduler = Scheduler
  Frontend = Frontend
  Clients = {Scheduler, Frontend}
  Null = Null
  Event = Event
  Ops <- AllOps
  MaxCalls = 2
  Faults = {"device", "channel", "file"}
PROPERTIES
  CallsReturn
  RecordingsEnd
CHECK_DEADLOCK FALSE
