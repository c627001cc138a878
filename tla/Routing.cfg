CONSTANTS
  Budget = 3
  AppTxBatch = 2
  QueueCap = 6
  Ids <- SomeIds
  Types <- TwoTypes
  Nets <- SomeNets
SPECIFICATION RouteFairSpec
INVARIANTS
  BudgetsConserved

  
\* Dropped packets never return their budget, in the end the workers stop.
CHECK_DEADLOCK FALSE
