CONSTANTS
  RingSize = 4
  QueueCap = 2
  AppRxBatch = 1
  DispRxBatch = 2
  DispTxBatch = 1
  Nodes <- SplitClient
SPECIFICATION FairSpec
PROPERTIES
  FreedStaysFree
