SPECIFICATION FairSpec
CONSTANTS
  Words = {w1}
  Callers = {c1, c2}
  MaxWordCalls = 2
  Races = {"notify"}
  VadEnables = {TRUE, FALSE}
  Types = {"sleep"}
  TooLong = 2
  Resume = 0
  MaxIn = 3
  MaxBacklog = 0
INVARIANTS
  StreamsPaired
  CodAsserts
  StreamsAreWhole
  SleepStopsData
  WordsInForce
PROPERTIES
  StreamsEnd
CHECK_DEADLOCK FALSE
