CONSTANTS
  Value <- MCValues
  Capacity = 4
  Nothing = Nothing
  Panicked = Panicked
  Uninit = Uninit
  Room <- MCRoom
  Budget = 4
  Keys <- MCKeys
  MaxLen = 8
  MaxSize = 3
  ItemKeys <- MCKeys
  Types = {"T"}
  Signature <- MCSignature
  MaxOps = 4
  Commutative = {"binary"}
SPECIFICATION MCSpec
CONSTRAINT FewEffects
INVARIANTS
  UseDef
  NoDeadUse
  DepthsExact
  PruneSound
  PanicsAtDeletedEffects
  MeaningKept
  NoDuplicateLeft
  CollectionsSound
  IteratorsRight
PROPERTY
  ImplementsQueue
CHECK_DEADLOCK FALSE
