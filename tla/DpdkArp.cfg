\* The NIC delivers an ARP packet and a request behind it in one burst.
CONSTANTS
  Builds <- JustWithArp
  AppRxBatch = 1
  DispRxBatch = 2
  RingEntries = 3
  NicRxCap = 2
  NicTxCap = 1
  MaxArps = 1
  ArpMayPrecede = TRUE
SPECIFICATION Spec
INVARIANTS
  OneHolder
