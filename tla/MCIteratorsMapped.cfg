CONSTANTS
  Value <- MCValues
  Capacity = 4
  Nothing = Nothing
  Panicked = Panicked
  Uninit = Uninit
  Room <- MCRoom
  Budget = 4
  Keys <- MCKeys
  MaxLen = 8
  MaxSize = 3
  ItemKeys <- MCKeys
  Types = {"T"}
  Signature <- MCSignature
  MaxOps = 4
  Commutative = {"binary"}
SPECIFICATION IteratorsOnly
INVARIANT
  MappedAsDocumented
CHECK_DEADLOCK FALSE
