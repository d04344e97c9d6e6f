SPECIFICATION Spec
CONSTANTS
  NoData = NoData
  Callers = {c1}
  Kinds = {"text"}
  Cancels = {1}
  Releases = FALSE
  MaxId = 1
  MaxChunks = 0
  MaxItems = 0
  MaxInbox = 1
  Faults = {}
INVARIANT NoEmbrace
CHECK_DEADLOCK FALSE
