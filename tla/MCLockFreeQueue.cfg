CONSTANTS
  Packets = {p1, p2}
  QueueSize = 4
  Nullptr = Nullptr
SPECIFICATION Spec
INVARIANTS
  NoSlotRace
  SizeIsAPromise
PROPERTIES
  FifoSpec
