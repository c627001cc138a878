CONSTANTS
  Builds <- Servers
  AppRxBatch = 1
  DispRxBatch = 2
  RingEntries = 3
  NicRxCap = 2
  NicTxCap = 1
  MaxArps = 1
  ArpMayPrecede = FALSE
SPECIFICATION FairSpec
INVARIANTS
  TypeOK
  OneHolder
PROPERTIES
  EveryMbufReturns
