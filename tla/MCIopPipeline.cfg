CONSTANTS
  BlockCount = 2
  Positions = {0, 1}
  Constants = {0, 1}
  Types <- IopTypes
  Signature <- IopSignature
  Commutative <- MCCommutative
  MaxOps = 60
  Budgets <- MCBudgets
SPECIFICATION PipelineSpec
INVARIANTS
  OutputsKept
  LoweredRight
  PanicsExplained
CHECK_DEADLOCK FALSE
