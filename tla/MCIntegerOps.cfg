CONSTANTS
  CarrySize = 2
  MessageSize = 2
  PairLimit = 14
  ProductLimit = 5
  Operands <- Instances
SPECIFICATION OpsSpec
INVARIANTS
  NothingOverflows
  SumsRight
  ProductsRight
  CountsRight
  SelectionsRight
CHECK_DEADLOCK FALSE
