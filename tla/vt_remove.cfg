SPECIFICATION FairCallsSpec
CONSTANTS
  Words = {w1, w2}
  Callers = {c1}
  MaxWordCalls = 3
  Races = {}
  VadEnables = {TRUE}
  Types = {"sleep"}
  TooLong = 2
  Resume = 0
  MaxIn = 3
  MaxBacklog = 0
PROPERTIES
  RemoveReturns
CHECK_DEADLOCK FALSE
