------------------------------- MODULE MCRouting -------------------------------
(* Instances of Routing for TLC.  Client workers are below 20, server workers   *)
(* 20 and 21, client dispatchers 30 and 31.                                     *)
EXTENDS Routing, TLC

SomeIds == {10, 11, 12, 20, 21, 30, 31}
TwoTypes == {1, 2}

Pair == [w \in {10, 11} |-> 1]

\* Two workers of a workload behind one dispatcher, one server worker.
OneDispatcher ==
  [workload |-> Pair, servers |-> [s \in {20} |-> 1], remotes |-> [w \in {10, 11} |-> <<20>>],
   responseRoutes |-> [s \in {20} |-> <<30>>],
   rxRoutes |-> [d \in {30} |-> [t \in {1} |-> <<10, 11>>]]]

\* The configuration line commented out in send_config and recv_config, on two
\* workspaces: everybody sends to everybody.
AllToAll ==
  [workload |-> Pair, servers |-> [s \in {20, 21} |-> 1],
   remotes |-> [w \in {10, 11} |-> <<20, 21>>],
   responseRoutes |-> [s \in {20, 21} |-> <<30, 31>>],
   rxRoutes |-> [d \in {30, 31} |-> [t \in {1} |-> IF d = 30 THEN <<10>> ELSE <<11>>]]]

\* A workload with two workers and one with one share a dispatcher, and so a
\* counter.
Mixed ==
  [workload |-> [w \in {10, 11, 12} |-> IF w = 12 THEN 2 ELSE 1],
   servers |-> [s \in {20, 21} |-> IF s = 20 THEN 1 ELSE 2],
   remotes |-> [w \in {10, 11, 12} |-> IF w = 12 THEN <<21>> ELSE <<20>>],
   responseRoutes |-> [s \in {20, 21} |-> <<30>>],
   rxRoutes |-> [d \in {30} |-> [t \in {1, 2} |-> IF t = 1 THEN <<10, 11>> ELSE <<12>>]]]

\* Three workers, more budget than a queue holds.
Overbooked ==
  [workload |-> [w \in {10, 11, 12} |-> 1], servers |-> [s \in {20} |-> 1],
   remotes |-> [w \in {10, 11, 12} |-> <<20>>], responseRoutes |-> [s \in {20} |-> <<30>>],
   rxRoutes |-> [d \in {30} |-> [t \in {1} |-> <<10, 11, 12>>]]]

WithBatches(m, client, server) ==
  m @@ [rxBatch |-> [n \in {"client", "server"} |-> IF n = "client" THEN client ELSE server]]

\* Thresholds the budgets get over, at one end, the other or both, and one at which
\* everything may come to rest.
SomeNets ==
  {WithBatches(OneDispatcher, 2, 2), WithBatches(OneDispatcher, 1, 3),
   WithBatches(OneDispatcher, 3, 1), WithBatches(AllToAll, 2, 1), WithBatches(Mixed, 1, 1),
   WithBatches(Overbooked, 2, 2)}
================================================================================
