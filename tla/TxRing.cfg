\* The ring holds the budgets of the two workers on threads of their own.
CONSTANTS
  Nodes <- SharedAndSplit
  MaxWorkers = 2
  TxBatch = 2
  QueueCap = 3
  PoolSize = 8
SPECIFICATION FairSpec
INVARIANTS
  TypeOK
  SendRingAgrees
  BuffersAccounted
  PoolSuffices
  TxQueueFits
PROPERTIES
  FifoPerWorker
  FlushEnds
  NoWorkerStarved
\* Dropped packets never return their budget, in the end the client stops.
CHECK_DEADLOCK FALSE
