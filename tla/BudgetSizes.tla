------------------------------ MODULE BudgetSizes ------------------------------
(***************************************************************************)
(* The sizes an in-flight budget meets on its way, the same for the modules *)
(* that follow it: InflyPipeline and Routing.                               *)
(***************************************************************************)
EXTENDS Naturals

CONSTANTS
  Budget,        \* kInflyMessageBudget
  AppTxBatch,    \* kAppTxMsgBatchSize of the client
  QueueCap       \* kWsQueueSize - 1, what a workspace queue holds

\* The run-time assertions of the constructor (workspace.cc:40-50).
ASSUME BudgetAssumption ==
  /\ AppTxBatch \in Nat \ {0}
  /\ Budget \in Nat /\ Budget >= AppTxBatch
  /\ QueueCap \in Nat /\ QueueCap >= AppTxBatch
================================================================================
