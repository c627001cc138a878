CONSTANTS
  d1 = d1
  w1 = w1
  b1 = b1
  Workspaces <- ThreeWorkspaces
  Workers <- TwoWorkers
  Dispatchers <- TwoDispatchers
  Assignments <- HomeFirst
  Iterations = 2
SPECIFICATION FairSpec
INVARIANTS
  TypeOK
  LoopsInStep
  OneReportEach
PROPERTIES
  AllFinish
\* When all threads have returned nothing happens any more.
CHECK_DEADLOCK FALSE
