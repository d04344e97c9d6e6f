SPECIFICATION FairSpec
CONSTANTS
  Producers = {p1, p2}
  Slots = 2
  MaxPush = 5
  NoItem = NoItem
INVARIANTS
  CountersExact
PROPERTIES
  KeepsPromise
  PutIsTaken
CHECK_DEADLOCK FALSE
