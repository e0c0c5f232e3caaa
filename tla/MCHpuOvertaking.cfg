CONSTANTS
  Programs <- OvertakingStreams
  IscDepth = 4
  QueryPeriod = 1
  QueueCapacity = 2
  ReadLatency <- MCReadLatency
  WriteLatency <- MCWriteLatency
  PbsQueueCapacity = 2
  PbsMemoryCapacity = 4
  MaxBatchSize = 3
  PbsTimeout = 90
  LoadUnloadLatency = 1
  ProcessingA = 1
  ProcessingB = 3
  ProcessingM = 1
SPECIFICATION HpuSpec
INVARIANT
  BatchesInOrder
