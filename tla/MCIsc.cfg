CONSTANTS
  Programs <- MCPrograms
  IscDepth = 3
SPECIFICATION MCSpec
INVARIANTS
  HazardFree
  FlushOrder
  NoDanglingLock
  IscInv
  SequentialOperands
  SequentialResult
PROPERTIES
  FollowsDataflow
CHECK_DEADLOCK FALSE
