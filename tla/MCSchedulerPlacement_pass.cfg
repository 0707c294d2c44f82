SPECIFICATION Spec
CONSTANTS
  Showings <- Guide
  Program <- ProgramOf
  Channel <- ChannelOf
  Multiplex <- MultiplexOf
  Inputs = {1, 2, 3}
  Receives <- Sources
  Group <- Tuners
  SchedGroup = {2}
  Rules = {1, 2, 3, 4}
  RuleType <- Types
  Matches <- Matched
  Timetables <- Times
  Length <- Lengths
  RuleSets <- InForce
  Priorities <- Ranks
  Priorities2 <- EntryRanks
  OpenEnds = {"Never", "DiffChannel"}
  SchedTime = 2
  LiveHorizon = 2
  Begun = {"Recording", "Failing"}
  MaxRecording = 2
  Watched <- Viewed
INVARIANTS NoDoubleBooking RecordedOnce UnchallengedIsRecorded PlanIsTrue
PROPERTIES NothingLost
CHECK_DEADLOCK FALSE
