CONSTANTS
  kWorkspaceMaxNum = 3
  kMaxQueuesPerPort = 2
  Types <- TwoTypes
  Fds <- ThreeFds
  Deployments <- Everything
SPECIFICATION FairSpec
INVARIANTS
  TypeOK
  QueuePairsMatch
  QueuesHaveOneDispatcher
PROPERTIES
  EveryCallAnswered
\* When the calls are answered, or a process has died, nothing happens any more.
CHECK_DEADLOCK FALSE
