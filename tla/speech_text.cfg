SPECIFICATION Spec
CONSTANTS
  NoData = NoData
  Callers = {c1}
  Kinds = {"text"}
  Cancels = {0, 1}
  Releases = TRUE
  MaxId = 1
  MaxChunks = 0
  MaxItems = 1
  MaxInbox = 1
  Faults = {"FAIL", "OTHER", "lost", "broken", "badData"}
INVARIANTS
  NoRequestLost
  ResultsComplete
PROPERTY CancelHonoured
CHECK_DEADLOCK FALSE
