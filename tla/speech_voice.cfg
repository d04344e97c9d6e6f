SPECIFICATION Spec
CONSTANTS
  NoData = NoData
  Callers = {c1}
  Kinds = {"voice"}
  Cancels = {1}
  Releases = FALSE
  MaxId = 2
  MaxChunks = 1
  MaxItems = 0
  MaxInbox = 1
  Faults = {"sendFails"}
INVARIANTS
  OwnOperation
  PollAsserts
  SleepersIdle
  OneTerminal
  UplinkOrder
CHECK_DEADLOCK FALSE
