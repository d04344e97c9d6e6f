SPECIFICATION FairSpec
CONSTANTS
  MaxBehind = 1
  MaxId = 2
  MaxUtts = 2
  MaxPrepares = 1
  MaxCalls = 1
  Clouds = {TRUE, FALSE}
  Cancels = TRUE
  Faults = {"error", "fake"}
INVARIANTS
  ClosedStaysClosed
PROPERTIES
  SessionEndsByItsOwn
  SessionEnds
CHECK_DEADLOCK FALSE
