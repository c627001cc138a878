-------------------------------- MODULE Startup --------------------------------
(***************************************************************************)
(* Bringing up a client and a server process: every workspace of the        *)
(* configuration gets a thread, the dispatchers get a queue pair and a peer, *)
(* the workspaces of a node find each other through its WsContext, and the   *)
(* first request of every client worker finds its way to a worker of its    *)
(* workload on the server and its response the way back.                    *)
(*                                                                          *)
(* A thread (src/src/ws_impl/workspace.cc, the constructor and the first    *)
(* lines of run_event_loop_timeout_st; | waits at the barrier):             *)
(*                                                                          *)
(*   construct -> .. -> built -> registered| -> configure -> ready|         *)
(*             -> init -> start| -> running                                 *)
(*                                                                          *)
(* A RoCE dispatcher exchanges queue pair numbers with the dispatcher of the *)
(* same ws_id over TCP (src/src/util/mgnt_connection.h); a DPDK dispatcher   *)
(* takes a queue pair of the port and a flow rule for its UDP port.         *)
(***************************************************************************)
EXTENDS Deployment

CONSTANTS
  kMaxQueuesPerPort,
  Fds,          \* file descriptors of the client process
  Deployments   \* the transports and configurations to bring up

Node == {"client", "server"}
Peer(n) == IF n = "client" THEN "server" ELSE "client"

Qps == 0..(kMaxQueuesPerPort - 1)
NoQp == kMaxQueuesPerPort

\* serverFirst: the client is started once the server is ready for it;
\* queues: kDispQueueNum of each node.
ASSUME StartupAssumption ==
  /\ kMaxQueuesPerPort \in Nat \ {0}
  /\ IsFiniteSet(Fds) /\ Fds \subseteq Nat
  /\ Cardinality(Fds) >= kWorkspaceMaxNum   \* enough for a socket of every thread
  /\ \A dep \in Deployments :
       /\ dep.transport \in {"RoCE", "DPDK"} /\ dep.serverFirst \in BOOLEAN
       /\ dep.queues \in [Node -> 1..kMaxQueuesPerPort]
       /\ dep.lines \in [Node -> Seq(Line)]

VARIABLES
  deploy, plan,        \* fixed: what is brought up, and what that makes of each node
  process,             \* per node: "off", "up" or "down" (exited or aborted)
  pc,                  \* per node and thread
  arrived, gen,        \* the barrier: calls of wait() so far, and per thread the
                       \* generation it saw
  active_ws_id_,       \* WsContext: the registered workspaces
  mem_reg_,            \* per worker: the dispatcher whose memory it uses
  served,              \* per dispatcher: the workers of its queues and rx rules
  qp_id_, flow,        \* DPDK: queue pair per dispatcher, flow rules by UDP port
  remote_qp_,          \* RoCE: the dispatcher whose queue pair was received
  fds, sockfd,         \* the client's sockets, named after the dispatchers that made
                       \* them: the one of each descriptor, and each TCPClient's number
  port,                \* the management port each of these sockets is connected to
  reading,             \* the port each client dispatcher is waiting to hear from
  conn,                \* what is under way on the connection to each port
  call                 \* where the first message of each client worker is

threadVars == <<pc, arrived, gen>>
contextVars == <<active_ws_id_, mem_reg_, served>>
dpdkVars == <<qp_id_, flow>>
tcpVars == <<remote_qp_, fds, sockfd, port, reading, conn>>
fixed == <<deploy, plan>>
vars == <<fixed, process, threadVars, contextVars, dpdkVars, tcpVars, call>>

RoCE == deploy.transport = "RoCE"

\* The sender whose queue pair number is to be read at each end.
NothingSent == [toServer |-> None, toClient |-> None]
Unsent == [leg |-> "request", at |-> "worker", from |-> None, to |-> None]

Init ==
  LET each(x) == [n \in Node |-> [w \in WsIds |-> x]]
  IN  /\ deploy \in Deployments
      /\ plan = [n \in Node |-> Plan(deploy.lines[n])]
      /\ process = [n \in Node |-> "off"]
      /\ pc = each("construct")
      /\ arrived = [n \in Node |-> 0] /\ gen = each(0)
      /\ active_ws_id_ = [n \in Node |-> {}]
      /\ mem_reg_ = each(None) /\ served = each({})
      /\ qp_id_ = each(NoQp) /\ flow = each(NoQp)
      /\ remote_qp_ = each(None)
      /\ fds = [f \in Fds |-> None]
      /\ sockfd = [w \in WsIds |-> 0]
      /\ port = [w \in WsIds |-> None] /\ reading = [w \in WsIds |-> None]
      /\ conn = [w \in WsIds |-> NothingSent]
      /\ call = [w \in WsIds |-> Unsent]

At(n, w, here) == process[n] = "up" /\ w \in plan[n].threads /\ pc[n][w] = here
Go(n, w, there) == pc' = [pc EXCEPT ![n][w] = there]
Step(n, w, here, there) == At(n, w, here) /\ Go(n, w, there)

\* exit(1), an exception nobody catches, or a fatal signal, in any thread.
Die(n) ==
  /\ process' = [process EXCEPT ![n] = "down"]
  /\ UNCHANGED <<fixed, threadVars, contextVars, dpdkVars, tcpVars>>

-----------------------------------------------------------------------------
(* main *)

\* The client may be started: the server listens for each of its dispatchers, or
\* has its flow rules and is running.
ServerReady ==
  /\ process["server"] = "up"
  /\ \A w \in plan["server"].threads :
       IF RoCE THEN w \in plan["server"].dispatchers => pc["server"][w] # "construct"
               ELSE pc["server"][w] = "running"

\* A configuration that config_workload does not take ends the process.
Start(n) ==
  /\ process[n] = "off"
  /\ n = "client" /\ deploy.serverFirst => ServerReady
  /\ process' = [process EXCEPT ![n] = IF plan[n].accepted THEN "up" ELSE "down"]
  /\ UNCHANGED <<fixed, threadVars, contextVars, dpdkVars, tcpVars, call>>

-----------------------------------------------------------------------------
(* A RoCE dispatcher of the server: TCPServer on the port of its ws_id *)

IsSide(n, d, transport) == d \in plan[n].dispatchers /\ deploy.transport = transport

Listen(d) ==
  /\ IsSide("server", d, "RoCE") /\ Step("server", d, "construct", "listening")
  /\ UNCHANGED <<fixed, process, arrived, gen, contextVars, dpdkVars, tcpVars, call>>

\* The server's thread of that ws_id has its listening socket, or the connection
\* it has accepted.
Listening(p) ==
  /\ process["server"] = "up"
  /\ p \in plan["server"].dispatchers /\ pc["server"][p] \in {"listening", "accepted"}

\* A socket lives as long as a descriptor stands for it or a read is waiting on it;
\* with it, or with the process, its connection is reset (SO_LINGER of 0).
Reset(p) ==
  /\ p \in Range(port)
  /\ \/ process["client"] # "up"
     \/ /\ \A f \in Fds : fds[f] # None => port[fds[f]] # p
        /\ p \notin Range(reading)

\* acceptConnection, and the server's own queue pair number is sent.
Accept(d) ==
  /\ IsSide("server", d, "RoCE") /\ Step("server", d, "listening", "accepted")
  /\ d \in Range(port)
  /\ conn' = [conn EXCEPT ![d].toClient = d]
  /\ UNCHANGED <<fixed, process, arrived, gen, contextVars, dpdkVars, remote_qp_, fds,
                 sockfd, port, reading, call>>

\* receiveMsg, then the queue pair is connected to the one named.  A connection
\* that has been reset is reported once: if the send before was told, read returns
\* an empty message, and the queue pair is connected to number 0, nobody's.
ReceiveFromClient(d) ==
  /\ IsSide("server", d, "RoCE") /\ Step("server", d, "accepted", "built")
  /\ conn[d].toServer # None \/ Reset(d)
  /\ remote_qp_' = [remote_qp_ EXCEPT !["server"][d] = conn[d].toServer]
  /\ UNCHANGED <<fixed, process, arrived, gen, contextVars, dpdkVars, fds, sockfd, port,
                 reading, conn, call>>

\* The client is gone and has sent nothing: read fails, its result is no length
\* of a string, and the exception ends the process.
ClientVanished(d) ==
  /\ IsSide("server", d, "RoCE") /\ At("server", d, "accepted")
  /\ Reset(d) /\ conn[d].toServer = None
  /\ Die("server") /\ UNCHANGED call

-----------------------------------------------------------------------------
(* A RoCE dispatcher of the client: TCPClient.  Its calls name a descriptor,    *)
(* and act on the socket the descriptor stands for when they are made.          *)

CreateSocket(d) ==
  LET free == {f \in Fds : fds[f] = None}
      lowest == CHOOSE f \in free : \A g \in free : f <= g
  IN  /\ IsSide("client", d, "RoCE") /\ Step("client", d, "construct", "socket")
      /\ sockfd' = [sockfd EXCEPT ![d] = lowest]
      /\ fds' = [fds EXCEPT ![lowest] = d]
      /\ UNCHANGED <<fixed, process, arrived, gen, contextVars, dpdkVars, remote_qp_,
                     port, reading, conn, call>>

\* The socket that d's descriptor stands for, None when it is closed; and the port
\* that socket is connected to.
Owner(d) == fds[sockfd[d]]
Connected(d) == Owner(d) # None /\ port[Owner(d)] # None

CanConnect(d) == Owner(d) # None /\ ~Connected(d) /\ Listening(d)

\* A socket that another thread is just connecting, to its own port: connect waits
\* for that, and succeeds.
connectToServer(d) ==
  /\ IsSide("client", d, "RoCE") /\ Step("client", d, "socket", "connected")
  /\ \/ CanConnect(d) /\ port' = [port EXCEPT ![Owner(d)] = d]
     \/ Connected(d) /\ UNCHANGED port
  /\ UNCHANGED <<fixed, process, arrived, gen, contextVars, dpdkVars, remote_qp_, fds,
                 sockfd, reading, conn, call>>

ConnectFails(d) ==
  /\ IsSide("client", d, "RoCE") /\ At("client", d, "socket")
  /\ ~CanConnect(d)
  /\ Die("client") /\ UNCHANGED call

\* The result of send is not looked at.  Of two messages on one connection only
\* the first is read or, when they are read as one, has its number taken: nothing
\* separates its last field from the second's first (qpinfo.hh:146, 160).
SendToServer(d) ==
  LET p == port[Owner(d)]
  IN  /\ IsSide("client", d, "RoCE") /\ Step("client", d, "connected", "sent")
      /\ Connected(d) \/ Owner(d) = None
      /\ conn' = IF Connected(d) /\ Listening(p) /\ conn[p].toServer = None
                   THEN [conn EXCEPT ![p].toServer = d] ELSE conn
      /\ UNCHANGED <<fixed, process, arrived, gen, contextVars, dpdkVars, remote_qp_, fds,
                     sockfd, port, reading, call>>

\* SIGPIPE: the socket was never connected, or an earlier call has been told that
\* the server has closed the connection.
SendKills(d) ==
  /\ IsSide("client", d, "RoCE") /\ At("client", d, "connected")
  /\ Owner(d) # None /\ (Connected(d) => ~Listening(port[Owner(d)]))
  /\ Die("client") /\ UNCHANGED call

\* receiveMsg: a read that has begun keeps its socket, whoever closes the
\* descriptor.
BeginRead(d) ==
  /\ IsSide("client", d, "RoCE") /\ Step("client", d, "sent", "reading")
  /\ Connected(d)
  /\ reading' = [reading EXCEPT ![d] = port[Owner(d)]]
  /\ UNCHANGED <<fixed, process, arrived, gen, contextVars, dpdkVars, remote_qp_, fds,
                 sockfd, port, conn, call>>

\* The server has closed the connection, or is gone, and what it had sent, if
\* anything, has been read.
Exhausted(p) == conn[p].toClient = None /\ ~Listening(p)

\* read fails, and the exception ends the process, as above.
ReadFails(d) ==
  /\ IsSide("client", d, "RoCE")
  /\ \/ At("client", d, "sent") /\ ~Connected(d)
     \/ At("client", d, "reading") /\ Exhausted(reading[d])
  /\ Die("client") /\ UNCHANGED call

\* close(sockfd), whatever socket the descriptor stands for by now.
Close(d) == fds' = [fds EXCEPT ![sockfd[d]] = None]

\* receiveMsg returns the message, or an empty one, as above; disconnect.
ReceiveFromServer(d) ==
  LET p == reading[d]
  IN  /\ IsSide("client", d, "RoCE") /\ Step("client", d, "reading", "disconnected")
      /\ conn[p].toClient # None \/ Exhausted(p)
      /\ remote_qp_' = [remote_qp_ EXCEPT !["client"][d] = conn[p].toClient]
      /\ conn' = [conn EXCEPT ![p].toClient = None]
      /\ reading' = [reading EXCEPT ![d] = None]
      /\ Close(d)
      /\ UNCHANGED <<fixed, process, arrived, gen, contextVars, dpdkVars, sockfd, port, call>>

\* init_verbs_structs has connected the queue pair; ~TCPClient closes again.
DestroyClient(d) ==
  /\ IsSide("client", d, "RoCE") /\ Step("client", d, "disconnected", "built")
  /\ Close(d)
  /\ UNCHANGED <<fixed, process, arrived, gen, contextVars, dpdkVars, remote_qp_, sockfd,
                 port, reading, conn, call>>

-----------------------------------------------------------------------------
(* A DPDK dispatcher *)

\* Faulty get_qp, for mutants: what is taken is not remembered before the port
\* has been set up.
get_qp_unmarked(n) == {q \in Qps : \A p \in Qps : p < q => \E d \in WsIds : flow[n][d] = p}

\* get_qp: the first queue pair nobody owns.
get_qp(n) == {q \in Qps : /\ \A d \in WsIds : qp_id_[n][d] # q
                          /\ \A p \in Qps : p < q => \E d \in WsIds : qp_id_[n][d] = p}

\* Under g_dpdk_lock: the queue pair, and its mempool, which setup_phy_port made
\* for the first kDispQueueNum queues only.
AcquireQp(n, d) ==
  /\ IsSide(n, d, "DPDK") /\ Step(n, d, "construct", "flow")
  /\ \E q \in get_qp(n) : q < deploy.queues[n] /\ qp_id_' = [qp_id_ EXCEPT ![n][d] = q]
  /\ UNCHANGED <<fixed, process, arrived, gen, contextVars, flow, tcpVars, call>>

NoQpLeft(n, d) ==
  /\ IsSide(n, d, "DPDK") /\ At(n, d, "construct")
  /\ \A q \in get_qp(n) : q >= deploy.queues[n]
  /\ Die(n) /\ UNCHANGED call

\* offload_flow_rules: UDP port kDefaultUdpPort + ws_id to the queue.
OffloadFlowRules(n, d) ==
  /\ IsSide(n, d, "DPDK") /\ Step(n, d, "flow", "built")
  /\ flow' = [flow EXCEPT ![n][d] = qp_id_[n][d]]
  /\ UNCHANGED <<fixed, process, arrived, gen, contextVars, qp_id_, tcpVars, call>>

-----------------------------------------------------------------------------
(* The workspaces of a node find each other *)

totalThreads(n) == Cardinality(plan[n].threads)
generation(n) == arrived[n] \div totalThreads(n)

Wait(n, w) ==
  /\ arrived' = [arrived EXCEPT ![n] = @ + 1]
  /\ gen' = [gen EXCEPT ![n][w] = generation(n)]

\* Faulty Pass, for mutants: nobody waits.
PassAtOnce(n, w, here, there) ==
  /\ Step(n, w, here, there)
  /\ UNCHANGED <<fixed, process, arrived, gen, contextVars, dpdkVars, tcpVars, call>>

Pass(n, w, here, there) ==
  /\ Step(n, w, here, there)
  /\ gen[n][w] # generation(n)
  /\ UNCHANGED <<fixed, process, arrived, gen, contextVars, dpdkVars, tcpVars, call>>

\* register_ws, at the end of phase 1.
Register(n, w) ==
  /\ Step(n, w, IF w \in plan[n].dispatchers THEN "built" ELSE "construct", "registered")
  /\ active_ws_id_' = [active_ws_id_ EXCEPT ![n] = @ \union {w}]
  /\ Wait(n, w)
  /\ UNCHANGED <<fixed, process, mem_reg_, served, dpdkVars, tcpVars, call>>

\* Faulty AssignedTo, for mutants: whose dispatcher it is is not compared.
AllRegistered(n, d) == active_ws_id_[n] \intersect plan[n].workers

\* set_dispatcher_config: the registered workers assigned to this dispatcher.
AssignedTo(n, d) ==
  {w \in active_ws_id_[n] \intersect plan[n].workers : plan[n].home[w] = d}

\* set_mem_reg and set_dispatcher_config, phase 2.  A worker whose dispatcher has
\* not registered, and a dispatcher without workers, return from the constructor
\* here and skip its last wait().
Configure(n, w) ==
  LET dispatcher == plan[n].home[w]
      noMemReg == /\ w \in plan[n].workers
                  /\ dispatcher \notin active_ws_id_[n] \intersect plan[n].dispatchers
      serves == w \in plan[n].dispatchers /\ ~noMemReg
      noQueue == serves /\ AssignedTo(n, w) = {}
  IN  /\ IF noMemReg \/ noQueue
           THEN Step(n, w, "configure", "init") /\ UNCHANGED <<arrived, gen>>
           ELSE Step(n, w, "configure", "ready") /\ Wait(n, w)
      /\ mem_reg_' = IF w \in plan[n].workers /\ ~noMemReg
                       THEN [mem_reg_ EXCEPT ![n][w] = dispatcher] ELSE mem_reg_
      /\ served' = IF serves THEN [served EXCEPT ![n][w] = AssignedTo(n, w)] ELSE served
      /\ UNCHANGED <<fixed, process, active_ws_id_, dpdkVars, tcpVars, call>>

\* The first lines of run_event_loop_timeout_st.
EnterLoop(n, w) ==
  /\ Step(n, w, "init", "start")
  /\ Wait(n, w)
  /\ UNCHANGED <<fixed, process, contextVars, dpdkVars, tcpVars, call>>

PassRegistered(n, w) == Pass(n, w, "registered", "configure")
PassReady(n, w) == Pass(n, w, "ready", "init")
PassStart(n, w) == Pass(n, w, "start", "running")

\* apply_mbufs of a worker that returned early: mem_reg_ is a null pointer.
ApplyWithoutMemReg(n, w) ==
  /\ At(n, w, "running") /\ "apply_mbufs" \in plan[n].loop[w] /\ mem_reg_[n][w] = None
  /\ Die(n) /\ UNCHANGED call

-----------------------------------------------------------------------------
(* The first message of a client worker, and its answer *)

Runs(n, w, f) == At(n, w, "running") /\ f \in plan[n].loop[w]

\* The dispatcher of worker v takes what is in v's tx queue and puts it on the wire.
Emit(n, w, v, leg) ==
  /\ \E d \in WsIds, r \in plan[n].remotes[plan[n].workload[v]] :
       /\ Runs(n, d, "nic_tx") /\ v \in served[n][d]
       /\ call' = [call EXCEPT ![w] = [leg |-> leg, at |-> "wire", from |-> d, to |-> r]]
  /\ UNCHANGED <<fixed, process, threadVars, contextVars, dpdkVars, tcpVars>>

\* apply_mbufs and generate_pkts, addressed by rr_select.
Request(w) ==
  /\ call[w] = Unsent
  /\ Runs("client", w, "generate_pkts") /\ mem_reg_["client"][w] # None
  /\ Emit("client", w, w, "request")

Sender(w) == IF call[w].leg = "request" THEN "client" ELSE "server"
Receiver(w) == Peer(Sender(w))

\* The dispatchers whose queue pair the message gets to: the connected one, or
\* the one the flow rule of the UDP port names.
Destination(w) ==
  LET n == Receiver(w)
      reached(d) == IF RoCE THEN remote_qp_[Sender(w)][call[w].from] = d
                    ELSE flow[n][call[w].to] # NoQp /\ flow[n][call[w].to] = qp_id_[n][d]
  IN  {d \in plan[n].dispatchers : process[n] = "up" /\ reached(d)}

Deliver(w) ==
  /\ call[w].at = "wire"
  /\ call' = IF Destination(w) = {} THEN [call EXCEPT ![w].at = "lost"]
             ELSE [call EXCEPT ![w].at = "dispatcher", ![w].to = CHOOSE d \in Destination(w) : TRUE]
  /\ UNCHANGED <<fixed, process, threadVars, contextVars, dpdkVars, tcpVars>>

Routes(n, d, t) == {v \in served[n][d] : plan[n].workload[v] = t}

\* dispatch_rx_pkts: rr_select among the routes of the packet's workload.
Dispatch(w) ==
  LET n == Receiver(w)
      d == call[w].to
  IN  /\ call[w].at = "dispatcher" /\ Runs(n, d, "bursted_rx")
      /\ \E v \in Routes(n, d, plan["client"].workload[w]) :
           call' = [call EXCEPT ![w].at = "handler", ![w].to = v]
      /\ UNCHANGED <<fixed, process, threadVars, contextVars, dpdkVars, tcpVars>>

\* rr_select without a route divides by zero.
NoRoute(w) ==
  LET n == Receiver(w)
      d == call[w].to
  IN  /\ call[w].at = "dispatcher" /\ Runs(n, d, "bursted_rx")
      /\ Routes(n, d, plan["client"].workload[w]) = {}
      /\ call' = [call EXCEPT ![w].at = "lost"]
      /\ Die(n)

\* app_handler of the server sends a response, that of the client returns the
\* budget to its own rule table.
Respond(w) ==
  /\ call[w].leg = "request" /\ call[w].at = "handler"
  /\ Runs("server", call[w].to, "app_handler")
  /\ Emit("server", w, call[w].to, "response")

TakeResponse(w) ==
  /\ call[w].leg = "response" /\ call[w].at = "handler"
  /\ Runs("client", call[w].to, "app_handler")
  /\ call' = [call EXCEPT ![w].at = "answered"]
  /\ UNCHANGED <<fixed, process, threadVars, contextVars, dpdkVars, tcpVars>>

-----------------------------------------------------------------------------
Connecting(d) ==
  \/ Listen(d) \/ Accept(d) \/ ReceiveFromClient(d) \/ ClientVanished(d)
  \/ CreateSocket(d) \/ connectToServer(d) \/ ConnectFails(d) \/ SendToServer(d)
  \/ SendKills(d) \/ BeginRead(d) \/ ReadFails(d) \/ ReceiveFromServer(d) \/ DestroyClient(d)

Launching(n, w) ==
  \/ AcquireQp(n, w) \/ NoQpLeft(n, w) \/ OffloadFlowRules(n, w)
  \/ Register(n, w) \/ PassRegistered(n, w) \/ Configure(n, w) \/ PassReady(n, w)
  \/ EnterLoop(n, w) \/ PassStart(n, w) \/ ApplyWithoutMemReg(n, w)

Calling(w) ==
  \/ Request(w) \/ Deliver(w) \/ Dispatch(w) \/ NoRoute(w) \/ Respond(w) \/ TakeResponse(w)

Next ==
  \/ \E n \in Node : Start(n) \/ (\E w \in WsIds : Launching(n, w))
  \/ \E w \in WsIds : Connecting(w) \/ Calling(w)

Spec == Init /\ [][Next]_vars

ServerThread(d) == Listen(d) \/ Accept(d) \/ ReceiveFromClient(d) \/ ClientVanished(d)
ClientThread(d) ==
  \/ CreateSocket(d) \/ connectToServer(d) \/ ConnectFails(d) \/ SendToServer(d)
  \/ SendKills(d) \/ BeginRead(d) \/ ReadFails(d) \/ ReceiveFromServer(d) \/ DestroyClient(d)

\* Both programs are started, their threads are scheduled, and what is on the
\* wire arrives.
FairSpec ==
  /\ Spec
  /\ \A n \in Node : WF_vars(Start(n))
  /\ \A n \in Node, w \in WsIds : WF_vars(Launching(n, w))
  /\ \A w \in WsIds : WF_vars(ServerThread(w)) /\ WF_vars(ClientThread(w)) /\ WF_vars(Calling(w))

-----------------------------------------------------------------------------
TypeOK ==
  LET each(S) == [Node -> [WsIds -> S]]
      Id == WsIds \union {None}
  IN  /\ process \in [Node -> {"off", "up", "down"}]
      /\ pc \in each({"construct", "listening", "accepted", "socket", "connected", "sent",
                      "reading", "disconnected", "flow", "built", "registered", "configure",
                      "ready", "init", "start", "running"})
      /\ \A n \in Node : arrived[n] \in 0..(3 * totalThreads(n))
      /\ gen \in each(0..2)
      /\ active_ws_id_ \in [Node -> SUBSET Threads]
      /\ mem_reg_ \in each(Threads \union {None}) /\ served \in each(SUBSET Threads)
      /\ qp_id_ \in each(Qps \union {NoQp}) /\ flow \in each(Qps \union {NoQp})
      /\ remote_qp_ \in each(Threads \union {None})
      /\ fds \in [Fds -> Id] /\ sockfd \in [WsIds -> Fds \union {0}]
      /\ port \in [WsIds -> Id] /\ reading \in [WsIds -> Id]
      /\ conn \in [WsIds -> [toServer : Id, toClient : Id]]
      /\ call \in [WsIds -> [leg : {"request", "response"}, from : Id, to : Id,
                            at : {"worker", "wire", "dispatcher", "handler", "answered", "lost"}]]

\* With a third RoCE dispatcher on the client, a descriptor closed twice may have
\* become the socket of a thread that is not the closing one's victim.
NoThirdSocket ==
  \A c, d, e \in plan["client"].dispatchers : c = d \/ d = e \/ c = e

\* Whatever the configurations and the order of the threads, a queue pair belongs
\* to one dispatcher: on DPDK no two of a node get the same, each is one the port
\* was set up with, and a flow rule leads to the queue of the dispatcher it was
\* made for (dpdk_dispatcher.h:137-163, dpdk_dispatcher.cc:43-89); on RoCE no two
\* of a node are connected to the same, even where they get hold of each other's
\* sockets, and with two on the client every one is connected to that of its own
\* ws_id, though they close each other's (roce_dispatcher.cc:192-210).
QueuePairsMatch ==
  /\ \A n \in Node : \A d, e \in WsIds :
       /\ qp_id_[n][d] = qp_id_[n][e] /\ d # e => qp_id_[n][d] = NoQp
       /\ qp_id_[n][d] # NoQp => qp_id_[n][d] < deploy.queues[n]
       /\ flow[n][d] \in {NoQp, qp_id_[n][d]}
       /\ remote_qp_[n][d] = remote_qp_[n][e] /\ d # e => remote_qp_[n][d] = None
  /\ NoThirdSocket =>
       \A n \in Node : \A d \in WsIds : remote_qp_[n][d] \in {None, d}

\* The two ends of a workspace queue and its buffers belong together: a worker's
\* queues are used by one dispatcher only, as LockFreeQueue needs it, and that is
\* the dispatcher the worker takes its buffers from; on a whole configuration
\* every worker in the loop has its dispatcher (workspace.cc:64, 127-149).
QueuesHaveOneDispatcher ==
  \A n \in Node : \A w \in plan[n].workers :
    LET users == {d \in WsIds : w \in served[n][d]}
    IN  /\ Cardinality(users) <= 1
        /\ mem_reg_[n][w] # None => users \subseteq {mem_reg_[n][w]}
        /\ plan[n].whole /\ pc[n][w] = "running" => users = {mem_reg_[n][w]}

\* Two configurations that fit each other, of the kind the shipped ones are.
Fitting ==
  LET lines == deploy.lines["client"]
      of(n, t) == plan[n].dispatchersOf[t]
  IN  /\ \A n \in Node : plan[n].whole
      /\ \A i \in DOMAIN lines : "TxApplication" \in Range(lines[i].phases)
      /\ \A n \in Node, t \in Types :
           /\ of(n, t) # {} => plan[n].remotes[t] # {}
           /\ plan[n].remotes[t] \subseteq of(Peer(n), t)
      /\ deploy.transport = "DPDK" =>
           \A n \in Node : Cardinality(plan[n].dispatchers) <= deploy.queues[n]
      /\ deploy.transport = "RoCE" => \A t \in Types : of("client", t) = of("server", t)

\* With several RoCE dispatchers a client may close another one's socket.
OneSocket == RoCE => Cardinality(plan["client"].dispatchers) <= 1

Answered == \A w \in plan["client"].workers : call[w].at = "answered"

\* With fitting configurations, and the server started first, both processes come
\* up whatever the order of their threads, and the first request of every client
\* worker is answered: it reaches a dispatcher with a route for its workload, a
\* worker whose loop handles it, and the same on the way back.
EveryCallAnswered == (Fitting /\ OneSocket /\ deploy.serverFirst) ~> Answered
================================================================================
