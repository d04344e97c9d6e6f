SPECIFICATION FairSpec
CONSTANTS
  NoData = NoData
  Callers = {c1}
  MaxId = 2
  MaxChunks = 0
  MaxInbox = 1
  MaxSessions = 1
  Releases = TRUE
  Faults = {"broken"}
PROPERTY EveryRequestEnds
CHECK_DEADLOCK FALSE
