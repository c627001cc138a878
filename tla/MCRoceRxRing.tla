------------------------------ MODULE MCRoceRxRing ------------------------------
(* Instances of RoceRxRing for TLC; the sizes are in the configurations.      *)
EXTENDS RoceRxRing

\* A client in one workspace whose queue overflows, and a server whose worker
\* and dispatcher are two threads and whose queue does not.
ClientAndServer ==
  {[role |-> "client", shared |-> TRUE, inFlight |-> 6],
   [role |-> "server", shared |-> FALSE, inFlight |-> 3]}

\* A client whose worker and dispatcher are two threads.
SplitClient == {[role |-> "client", shared |-> FALSE, inFlight |-> 4]}
================================================================================
