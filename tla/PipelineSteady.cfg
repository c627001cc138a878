\* Budget 4 > Residue 3; the queues hold the budget, the rings do too.
CONSTANTS
  Budget = 4
  AppTxBatch = 2
  AppRxBatch <- ServerTwo
  DispTxBatch <- ClientTwo
  DispRxBatch <- Twos
  QueueCap = 4
  TxRingSize = 4
  RxRingSize = 6
SPECIFICATION FairSpec
INVARIANTS
  NothingLost
  FlushInOneBurst
  NeverStalled
PROPERTIES
  IssuesForever
