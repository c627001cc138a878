------------------------------ MODULE MCRoceTxRing ------------------------------
(* Instances of RoceTxRing for TLC; the sizes are in the configurations.      *)
EXTENDS RoceTxRing

\* One workspace in both roles, with a budget above the queue and the ring:
\* drops, partial collections, flushes that wait.
OneWorkspace ==
  [workerNum |-> 1, home |-> {0}, budget |-> 4, ringSize |-> 2, dispTxBatch |-> 2]

\* Two workers on threads of their own.
TwoWorkers(size, batch) ==
  [workerNum |-> 2, home |-> {}, budget |-> 2, ringSize |-> size, dispTxBatch |-> batch]

SharedAndSplit == {OneWorkspace, TwoWorkers(4, 4)}
================================================================================
