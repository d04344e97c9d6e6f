SPECIFICATION QueueSpec
CONSTANTS
  Ids = {1, 2}
  Data = {d1, d2}
  Errors = {7}
  NoData = NoData
  MaxItems = 4
INVARIANTS
  ContainersAgree
PROPERTY ImplementsFifo
CHECK_DEADLOCK FALSE
