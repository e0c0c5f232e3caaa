CONSTANTS
  Programs <- MixedStreams
  IscDepth = 4
  QueryPeriod = 1
  QueueCapacity = 2
  ReadLatency <- MCReadLatency
  WriteLatency <- MCWriteLatency
  PbsQueueCapacity = 2
  PbsMemoryCapacity = 4
  MaxBatchSize = 3
  PbsTimeout = 16
  LoadUnloadLatency = 3
  ProcessingA = 1
  ProcessingB = 6
  ProcessingM = 1
SPECIFICATION HpuSpec
INVARIANT
  TimeoutExpected
