\* Queues and send queue smaller than the budget: drops and multi-round flushes.
CONSTANTS
  Budget = 4
  AppTxBatch = 2
  AppRxBatch <- ServerTwo
  DispTxBatch <- Ones
  DispRxBatch <- Twos
  QueueCap = 2
  TxRingSize = 2
  RxRingSize = 4
SPECIFICATION Spec
INVARIANTS
  MessagesConserved
  RxBuffersConserved
  SendRequestsConserved
