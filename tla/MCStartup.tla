------------------------------- MODULE MCStartup -------------------------------
(* Instances of Startup for TLC: the shipped configurations and variations of   *)
(* them, with two or three threads per process.                          *)
EXTENDS Startup

TwoTypes == {1, 2}
ThreeFds == {3, 4, 5}

Echo(t, remotes, groups, dispatchers) ==
  [type |-> t, phases |-> <<"RXNIC", "RXDispatcher", "RxApplication", "TxDispatcher", "TxNIC">>,
   remotes |-> remotes, groups |-> groups, dispatchers |-> dispatchers]
Ask(t, remotes, groups, dispatchers) ==
  [type |-> t, phases |-> <<"RXNIC", "RXDispatcher", "RxApplication", "TxApplication",
                            "TxDispatcher", "TxNIC">>,
   remotes |-> remotes, groups |-> groups, dispatchers |-> dispatchers]

Deploy(transport, client, server) ==
  [transport |-> transport, serverFirst |-> TRUE, queues |-> [n \in Node |-> 2],
   lines |-> [n \in Node |-> IF n = "client" THEN client ELSE server]]

\* One line of each shipped configuration; a worker of its own behind the
\* dispatcher; the line commented out in them, on two workspaces.
Single(transport) ==
  Deploy(transport, <<Ask(1, <<0>>, <<<<0>>>>, <<0>>)>>, <<Echo(1, <<0>>, <<<<0>>>>, <<0>>)>>)
SharedDispatcher(transport) ==
  Deploy(transport, <<Ask(1, <<1>>, <<<<0, 1>>>>, <<0>>)>>, <<Echo(1, <<0>>, <<<<0>>>>, <<1>>)>>)
SharedPair ==
  Deploy("RoCE", <<Ask(1, <<0>>, <<<<0, 1>>>>, <<0>>)>>, <<Echo(1, <<0>>, <<<<0>>>>, <<0>>)>>)
AllToAll(transport) ==
  Deploy(transport, <<Ask(1, <<0, 1>>, <<<<0>>, <<1>>>>, <<0, 1>>)>>,
                    <<Echo(1, <<0, 1>>, <<<<0>>, <<1>>>>, <<0, 1>>)>>)
TwoWorkloads(transport) ==
  Deploy(transport, <<Ask(1, <<0>>, <<<<0>>>>, <<0>>), Ask(2, <<1>>, <<<<1>>>>, <<1>>)>>,
                    <<Echo(1, <<0>>, <<<<0>>>>, <<0>>), Echo(2, <<1>>, <<<<1>>>>, <<1>>)>>)

\* Three RoCE dispatchers on the client, two on the server; nobody sends requests.
ThreeSockets ==
  Deploy("RoCE", <<Echo(1, <<0, 1>>, <<<<0>>, <<1>>, <<2>>>>, <<0, 1, 2>>)>>,
                 <<Echo(1, <<0, 1>>, <<<<0>>, <<1>>>>, <<0, 1>>)>>)

\* As shipped: a workload more on the client.
Shipped(transport) ==
  [TwoWorkloads(transport) EXCEPT !.lines["server"] = <<Echo(1, <<0>>, <<<<0>>>>, <<0>>)>>]
\* A workload on two lines; a remote dispatcher of another workload; a dispatcher
\* that has no thread; a workspace in two groups; a queue too few; the client
\* started at any time.
TwoLines == [AllToAll("DPDK") EXCEPT
  !.lines["server"] = <<Echo(1, <<0>>, <<<<0>>>>, <<0>>), Echo(1, <<1>>, <<<<1>>>>, <<1>>)>>]
WrongRemote == [TwoWorkloads("DPDK") EXCEPT !.lines["client"][2].remotes = <<0>>]
NoThread == [Single("DPDK") EXCEPT !.lines["client"][1].dispatchers = <<3>>]
Twice == [Single("DPDK") EXCEPT !.lines["client"][1].groups = <<<<0>>, <<0>>>>]
FewQueues == [TwoWorkloads("DPDK") EXCEPT !.queues["server"] = 1]
AnyOrder(dep) == [dep EXCEPT !.serverFirst = FALSE]

Everything ==
  {Single("RoCE"), Single("DPDK"), SharedDispatcher("DPDK"), SharedPair, AllToAll("DPDK"),
   TwoWorkloads("DPDK"), TwoWorkloads("RoCE"), ThreeSockets, Shipped("RoCE"), Shipped("DPDK"),
   TwoLines, WrongRemote, NoThread, Twice, FewQueues, AnyOrder(Single("RoCE")),
   AnyOrder(Single("DPDK"))}
================================================================================
