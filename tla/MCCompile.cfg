CONSTANTS
  Sources <- MCSources
  BatchSize = 2
  AluLatency = 1
  MemLatency = 2
  PbsLatencyA = 1
  PbsLatencyB = 4
  PbsLatencyM = 2
  NRegs = 4
SPECIFICATION CompileSpec
INVARIANTS
  CompilerNeverPanics
  BatchesRunnable
  ShortOnlyIfBlocked
  ScheduleComplete
  CompiledImplements
  ReadsRight
  LiveValuesKept
CHECK_DEADLOCK FALSE
