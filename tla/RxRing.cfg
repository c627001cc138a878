CONSTANTS
  RingSize = 6
  QueueCap = 3
  AppRxBatch = 2
  DispRxBatch = 3
  DispTxBatch = 2
  Nodes <- ClientAndServer
SPECIFICATION FairSpec
INVARIANTS
  TypeOK
  IndicesAgree
  OneOwner
PROPERTIES
  FreedStaysFree
  EveryBufferReturns
