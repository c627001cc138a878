-------------------------------- MODULE Routing --------------------------------
(***************************************************************************)
(* Rule tables with several routes (src/src/util/rule_table.h).  A client    *)
(* worker addresses its batches to the server's dispatchers in turn, a       *)
(* server worker its responses to the client's dispatchers in turn, and a    *)
(* client dispatcher hands the responses of a workload to its workers in     *)
(* turn: a response may reach another worker than the one that issued the    *)
(* request, and the budget goes with it.  A table has one counter for all    *)
(* its workloads.                                                           *)
(*                                                                          *)
(*   Issue --pending--> Respond --responses--> Dispatch --queue--> Handle   *)
(*     ^                                                             |      *)
(*     +------------------------- infly_budget ----------------------+      *)
(*                                                                          *)
(* What the phases in between do is in InflyPipeline and in the modules of   *)
(* the rings; here a message is one packet, and thresholds are the three of  *)
(* the application: apply_mbufs waits for budget, both app_handlers for     *)
(* messages.                                                                *)
(***************************************************************************)
EXTENDS BudgetSizes, Sequences, FiniteSets, Functions

CONSTANTS
  Ids,           \* the workers and dispatchers there may be
  Types,         \* the workloads there may be
  Nets           \* the networks to look at, records with the fields
                 \*   workload, servers   of each client and of each server worker
                 \*   remotes             per client worker: routes to server workers
                 \*   responseRoutes      per server worker: routes to client dispatchers
                 \*   rxRoutes            per client dispatcher and workload: to workers
                 \*   rxBatch             kAppRxMsgBatchSize of the client and of the server

\* The workers of f that have workload t.
Of(f, t) == {x \in DOMAIN f : f[x] = t}

Routes(S) == Seq(S) \ {<<>>}

\* Tables are keyed by the workload (table[type]) and filled by workers of it. The
\* configurations fit: a route leads to the same workload on the other side, and
\* none that is used is missing.
WholeNet(m) ==
  /\ m.workload \in [DOMAIN m.workload -> Types] /\ m.servers \in [DOMAIN m.servers -> Types]
  /\ DOMAIN m.workload \union DOMAIN m.servers \union DOMAIN m.rxRoutes \subseteq Ids
  /\ m.rxBatch \in [{"client", "server"} -> Nat \ {0}]
  /\ \A w \in DOMAIN m.workload : m.remotes[w] \in Routes(Of(m.servers, m.workload[w]))
  /\ \A s \in DOMAIN m.servers :
       m.responseRoutes[s] \in Routes({d \in DOMAIN m.rxRoutes : m.servers[s] \in DOMAIN m.rxRoutes[d]})
  /\ \A d \in DOMAIN m.rxRoutes :
       /\ DOMAIN m.rxRoutes[d] \subseteq Types
       /\ \A t \in DOMAIN m.rxRoutes[d] : m.rxRoutes[d][t] \in Routes(Of(m.workload, t))

ASSUME RoutingAssumption ==
  /\ IsFiniteSet(Ids) /\ IsFiniteSet(Types)
  /\ \A m \in Nets : WholeNet(m)

VARIABLES
  net,           \* fixed by the configurations
  infly_budget,  \* per client worker
  pending,       \* per server worker: requests in its rx queue
  responses,     \* per client dispatcher and workload: packets not dispatched yet
  queue,         \* per client worker: its rx queue
  dropped,       \* per workload: packets that found an rx queue full
  tx_idx,        \* select_idx of each worker's tx table, client and server
  rx_idx         \* select_idx of each client dispatcher's rx table

routeVars == <<net, infly_budget, pending, responses, queue, dropped, tx_idx, rx_idx>>

Workers == DOMAIN net.workload
Servers == DOMAIN net.servers
Dispatchers == DOMAIN net.rxRoutes
Workloads == Range(net.workload)

RouteInit ==
  /\ net \in Nets
  /\ infly_budget = [w \in Workers |-> Budget]
  /\ pending = [s \in Servers |-> 0]
  /\ responses = [d \in Dispatchers |-> [t \in Workloads |-> 0]]
  /\ queue = [w \in Workers |-> 0]
  /\ dropped = [t \in Workloads |-> 0]
  /\ tx_idx = [x \in Workers \union Servers |-> 0]
  /\ rx_idx = [d \in Dispatchers |-> 0]


rr_select(routes, idx) == routes[(idx % Len(routes)) + 1]

\* select_idx grows for ever; what rr_select makes of it depends on it only modulo
\* the product of the numbers of routes in its table, the bound kept here.
Onward(idx, period) == (idx + 1) % period

RxPeriod(d) == FoldFunction(LAMBDA m, n : m * n, 1, [t \in DOMAIN net.rxRoutes[d] |-> Len(net.rxRoutes[d][t])])

\* What a queue with n packets takes of k more.
Taken(n, k) == IF n + k > QueueCap THEN QueueCap - n ELSE k

\* apply_infly_budget, and generate_pkts: one destination for the batch.  The
\* server's dispatcher hands it to its worker, dropping what the queue has no
\* room for.
Issue(w) ==
  LET s == rr_select(net.remotes[w], tx_idx[w])
      taken == Taken(pending[s], AppTxBatch)
  IN  /\ infly_budget[w] >= AppTxBatch
      /\ infly_budget' = [infly_budget EXCEPT ![w] = @ - AppTxBatch]
      /\ pending' = [pending EXCEPT ![s] = @ + taken]
      /\ dropped' = [dropped EXCEPT ![net.workload[w]] = @ + (AppTxBatch - taken)]
      /\ tx_idx' = [tx_idx EXCEPT ![w] = Onward(@, Len(net.remotes[w]))]
      /\ UNCHANGED <<net, responses, queue, rx_idx>>

\* app_handler of a server worker waits for its batch; then it takes all that is
\* in the queue, with one destination for the responses.
Respond(s) ==
  LET d == rr_select(net.responseRoutes[s], tx_idx[s])
  IN  /\ pending[s] >= net.rxBatch["server"]
      /\ pending' = [pending EXCEPT ![s] = 0]
      /\ responses' = [responses EXCEPT ![d][net.servers[s]] = @ + pending[s]]
      /\ tx_idx' = [tx_idx EXCEPT ![s] = Onward(@, Len(net.responseRoutes[s]))]
      /\ UNCHANGED <<net, infly_budget, queue, dropped, rx_idx>>

\* dispatch_rx_pkts, one packet; those of different workloads come in any order.
Dispatch(d, t) ==
  LET w == rr_select(net.rxRoutes[d][t], rx_idx[d])
      taken == Taken(queue[w], 1)
  IN  /\ responses[d][t] > 0
      /\ responses' = [responses EXCEPT ![d][t] = @ - 1]
      /\ queue' = [queue EXCEPT ![w] = @ + taken]
      /\ dropped' = [dropped EXCEPT ![t] = @ + (1 - taken)]
      /\ rx_idx' = [rx_idx EXCEPT ![d] = Onward(@, RxPeriod(d))]
      /\ UNCHANGED <<net, infly_budget, pending, tx_idx>>

\* Faulty Returned, for mutants: as much as one batch takes.
ReturnedBatch(n) == AppTxBatch

\* return_infly_budget of all messages in the queue, whoever issued them.
Returned(n) == n

\* app_handler of a client worker, the same threshold.
Handle(w) ==
  /\ queue[w] >= net.rxBatch["client"]
  /\ infly_budget' = [infly_budget EXCEPT ![w] = @ + Returned(queue[w])]
  /\ queue' = [queue EXCEPT ![w] = 0]
  /\ UNCHANGED <<net, pending, responses, dropped, tx_idx, rx_idx>>

RouteNext ==
  \/ \E w \in Workers : Issue(w) \/ Handle(w)
  \/ \E s \in Servers : Respond(s)
  \/ \E d \in Dispatchers, t \in Workloads : Dispatch(d, t)

RouteSpec == RouteInit /\ [][RouteNext]_routeVars

\* Every thread runs its phases again and again, and a packet in the ring of a
\* dispatcher gets its turn.
RouteFairSpec ==
  /\ RouteSpec
  /\ \A x \in Ids : /\ WF_routeVars(x \in Workers /\ Issue(x))
                    /\ WF_routeVars(x \in Workers /\ Handle(x))
                    /\ WF_routeVars(x \in Servers /\ Respond(x))
                    /\ \A t \in Types :
                         WF_routeVars(x \in Dispatchers /\ t \in Workloads /\ Dispatch(x, t))

-----------------------------------------------------------------------------
Total(t) == Budget * Cardinality(Of(net.workload, t))

\* No budget is made up and none disappears, whichever way it wanders: what the
\* workers of a workload hold, what waits in queues, what is under way and what
\* was dropped is what they began with; and as long as that fits the queue of one
\* worker nothing is dropped (rule_table.h:24-40, workspace.h:103-109, 353-359).
BudgetsConserved ==
  \A t \in Workloads :
    /\ SumFunctionOnSet(infly_budget, Of(net.workload, t)) + SumFunctionOnSet(queue, Of(net.workload, t))
         + SumFunctionOnSet(pending, Of(net.servers, t))
         + SumFunction([d \in Dispatchers |-> responses[d][t]]) + dropped[t] = Total(t)
    /\ Total(t) <= QueueCap => dropped[t] = 0

\* A dispatcher that chooses among several workers for a workload has no other
\* workload.
Separate ==
  \A d \in Dispatchers : \A t \in DOMAIN net.rxRoutes[d] :
    Len(net.rxRoutes[d][t]) > 1 => DOMAIN net.rxRoutes[d] = {t}

\* From every server worker of a workload the responses find a way to every client
\* worker of it, as all dispatchers of a line are routes to its remotes.
Mixing ==
  \A s \in Servers : \A w \in Of(net.workload, net.servers[s]) :
    \E d \in Range(net.responseRoutes[s]) : w \in Range(net.rxRoutes[d][net.servers[s]])

\* What can rest below the thresholds: budget that is no batch, messages too few
\* for app_handler in the queues of all workers and server workers of a workload.
Resting(t) ==
  Cardinality(Of(net.workload, t)) * ((AppTxBatch - 1) + (net.rxBatch["client"] - 1))
    + Cardinality(Of(net.servers, t)) * (net.rxBatch["server"] - 1)

\* The budgets are more than can rest, and no more than a queue holds.  Without
\* the first the workers may all stop: the assertions of the constructor compare
\* the budget with each threshold alone (workspace.cc:41-42).
SizesFit == \A t \in Workloads : Resting(t) < Total(t) /\ Total(t) <= QueueCap

================================================================================
