CONSTANTS
  BlockCount = 2
  Positions = {0, 1}
  Constants = {0, 1}
  Types <- IopTypes
  Signature <- IopSignature
  Commutative <- MCCommutative
  MaxOps = 60
  Budgets <- UnchangedBudgets
SPECIFICATION PipelineSpec
INVARIANT
  OutputsDelivered
CHECK_DEADLOCK FALSE
