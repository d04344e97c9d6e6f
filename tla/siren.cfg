SPECIFICATION FairSpec
CONSTANTS
  Words = {w1}
  MaxSets = 1
  ReqSlots = 8
  PackSlots = 8
  AnswerRoom = 3
  AudioRoom = 1
  Faults = {"preInit"}
  MaxFrames = 1
  MaxCalls = 2
  SyncSets = TRUE
INVARIANTS
  
  QuietOnceDestroyed
PROPERTIES
  DestroyEnds
  StreamFlows
CHECK_DEADLOCK FALSE
