\* Two blocks of the largest class, one of them for the receive ring; 4 mbufs fit
\* into the other.
CONSTANTS
  k_num_classes = 4
  class_max_size <- ClassSizes
  RegionBlocks = 2
  RingExtentSize = 24
  kMbufSize = 8
  Bulk = {1, 2}
SPECIFICATION Spec
INVARIANTS
  BlocksTile
  SplitAssertions
  FailsOnlyWhenFull
PROPERTIES
  PoolSpec
\* A failed allocation ends the process.
CHECK_DEADLOCK FALSE
