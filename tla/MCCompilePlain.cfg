CONSTANTS
  Sources <- PlainSources
  BatchSize = 2
  AluLatency = 1
  MemLatency = 2
  PbsLatencyA = 1
  PbsLatencyB = 4
  PbsLatencyM = 2
  NRegs = 4
SPECIFICATION CompileSpec
INVARIANT
  PlaintextsAllocated
CHECK_DEADLOCK FALSE
