SPECIFICATION Spec
CONSTANTS
  NoData = NoData
  Callers = {c1}
  MaxId = 2
  MaxChunks = 1
  MaxInbox = 1
  MaxSessions = 1
  Releases = FALSE
  Faults = {"sendFails", "lost"}
INVARIANTS
  TypeOK
  PollAsserts
  OneInFlight
  SleepersIdle
  NoRequestLost
  NoVoiceLost
PROPERTIES
  CancelHonoured
  KeepsPromise
CHECK_DEADLOCK FALSE
