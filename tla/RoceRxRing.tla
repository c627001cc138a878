------------------------------- MODULE RoceRxRing -------------------------------
(***************************************************************************)
(* The receive ring of the RoCE dispatcher and the life of its buffers      *)
(* (src/src/dispatcher_impl/roce/roce_dispatcher_dataplane.cc).  Buffer i   *)
(* sits in rx_ring_[i] for ever and its state_ says who may touch it:       *)
(*                                                                          *)
(*   "posted"     the NIC will fill it, is about to have it dispatched, or  *)
(*                is sending the response it carries                        *)
(*   "app"        kAPP_OWNED_BUF, a worker has it in a queue or in hand     *)
(*   "free"       the dispatcher may post it to the NIC again               *)
(*                                                                          *)
(* The dispatcher moves through the ring with three indices that only agree *)
(* because completions arrive in posting order: recv_head_ (the first       *)
(* buffer not posted), ring_head_ (the first not dispatched) and            *)
(* wait_for_disp_.  state_ is a plain byte shared with the worker: when     *)
(* worker and dispatcher are different workspaces (~node.shared) their      *)
(* accesses interleave.                                                     *)
(***************************************************************************)
EXTENDS Naturals, Sequences, FiniteSets

CONSTANTS
  RingSize,        \* kRQDepth
  QueueCap,        \* packets a workspace queue holds
  AppRxBatch,      \* kAppRxMsgBatchSize
  DispRxBatch,     \* kDispRxBatchSize
  DispTxBatch,     \* kDispTxBatchSize
  Nodes            \* the builds and configurations considered, see Node

\* role is NODE_TYPE; shared says that worker and dispatcher are one workspace;
\* inFlight is what the clients' budgets allow on its way at once.
Node == [role : {"client", "server"}, shared : BOOLEAN, inFlight : Nat \ {0}]

ASSUME RingAssumption ==
  /\ RingSize \in Nat \ {0} /\ QueueCap \in Nat \ {0}
  /\ AppRxBatch \in 1 .. QueueCap /\ DispRxBatch \in Nat \ {0}
  /\ DispTxBatch \in 1 .. RingSize
  /\ Nodes \subseteq Node /\ Nodes # {}

Buffers == 0 .. RingSize - 1

VARIABLES
  node,              \* what runs here, never changed
  state_,            \* Buffer::state_ of each ring entry
  recv_head_, ring_head_, wait_for_disp_,
  toDispatch,        \* iterations left in dispatch_rx_pkts' loop
  entry,             \* its ring_entry
  marking,           \* ring_entry is enqueued but not yet marked kAPP_OWNED_BUF
  nicNext,           \* the posted buffer the NIC fills next
  nicPosted,         \* how many receive requests the NIC holds
  recvCq,            \* completions not yet polled
  rxQueue,           \* the worker's rx queue
  held,              \* packets app_handler has taken and not finished
  txQueue,           \* the worker's tx queue, responses of a server
  collected,         \* tx_queue_, the responses the dispatcher has collected
  sending,           \* sw_ring_, buffers posted for sending, oldest first
  sent               \* how many of them have completed

nicVars == <<nicNext, nicPosted, recvCq>>
loopVars == <<toDispatch, entry, marking>>
workerVars == <<rxQueue, held, txQueue>>
sendVars == <<collected, sending, sent>>
vars == <<node, state_, recv_head_, ring_head_, wait_for_disp_, loopVars, nicVars,
          workerVars, sendVars>>

Init ==
  /\ node \in Nodes
  /\ state_ = [b \in Buffers |-> "posted"]      \* init_recvs posts all of them
  /\ recv_head_ = 0 /\ ring_head_ = 0 /\ wait_for_disp_ = 0
  /\ toDispatch = 0 /\ entry = 0 /\ marking = FALSE
  /\ nicNext = 0 /\ nicPosted = RingSize /\ recvCq = 0
  /\ rxQueue = <<>> /\ held = <<>> /\ txQueue = <<>>
  /\ collected = <<>> /\ sending = <<>> /\ sent = 0

Lesser(m, n) == IF m <= n THEN m ELSE n

\* Faulty Onward, for a mutant: the ring is not closed.
OnwardUnwrapped(b, n) == b + n

\* Follow next_ n times.
Onward(b, n) == (b + n) % RingSize

Elements(seq) == {seq[i] : i \in DOMAIN seq}

\* The n buffers from b on.
Window(b, n) == {Onward(b, k) : k \in 0 .. n - 1}

\* One thread runs both roles phase after phase, two threads interleave.
DispatcherBetweenPhases == toDispatch = 0
DispatcherMayRun == node.shared => held = <<>>
WorkerMayRun == node.shared => DispatcherBetweenPhases

-----------------------------------------------------------------------------
(* NIC *)

\* Polled packets that are not in a worker's queue yet.
NotDispatched ==
  CASE toDispatch = 0 -> wait_for_disp_
    [] toDispatch > 0 /\ marking -> toDispatch - 1
    [] OTHER -> toDispatch

\* Messages that have arrived here and, on a server, not been answered yet.
Unanswered ==
  recvCq + NotDispatched + Len(rxQueue) + Len(held) + Len(txQueue) + Len(collected)
  + Len(sending) - sent

ReceivePacket ==
  /\ nicPosted > 0
  /\ Unanswered < node.inFlight
  /\ nicNext' = Onward(nicNext, 1)
  /\ nicPosted' = nicPosted - 1
  /\ recvCq' = recvCq + 1
  /\ UNCHANGED <<node, state_, recv_head_, ring_head_, wait_for_disp_, loopVars,
                 workerVars, sendVars>>

CompleteSend ==
  /\ sent < Len(sending)
  /\ sent' = sent + 1
  /\ UNCHANGED <<node, state_, recv_head_, ring_head_, wait_for_disp_, loopVars,
                 nicVars, workerVars, collected, sending>>

-----------------------------------------------------------------------------
(* Dispatcher *)

\* Faulty FreeRun, for a mutant: rx_burst takes kAPP_OWNED_BUF for kFREE_BUF.
AppOwnedRun(n) ==
  /\ \A k \in 0 .. n - 1 : state_[Onward(recv_head_, k)] = "app"
  /\ n = RingSize \/ state_[Onward(recv_head_, n)] # "app"

\* rx_burst finds n entries free, one after the other from recv_head_.
FreeRun(n) ==
  /\ \A k \in 0 .. n - 1 : state_[Onward(recv_head_, k)] = "free"
  /\ n = RingSize \/ state_[Onward(recv_head_, n)] # "free"

\* Faulty HeadAfterPosting, for a mutant: recv_head_ stays at the last one posted.
LastPosted(n) == IF n = 0 THEN recv_head_ ELSE Onward(recv_head_, n - 1)

\* post_recvs: recv_head_ goes to the last one posted and one step further.
HeadAfterPosting(n) == Onward(recv_head_, n)

\* rx_burst with post_recvs: mark and post that run, then poll completions.  A
\* buffer freed while the scan is on its way is found free or not, as by a scan
\* at the instant it ends; a call that finds nothing changes nothing.
RxBurst ==
  LET polled == Lesser(recvCq, DispRxBatch)
  IN  /\ DispatcherMayRun /\ DispatcherBetweenPhases
      /\ \E n \in 0 .. RingSize :
           /\ FreeRun(n)
           /\ n + polled > 0
           /\ state_' = [b \in Buffers |->
                           IF b \in Window(recv_head_, n) THEN "posted" ELSE state_[b]]
           /\ recv_head_' = HeadAfterPosting(n)
           /\ nicPosted' = nicPosted + n
      /\ recvCq' = recvCq - polled
      /\ wait_for_disp_' = wait_for_disp_ + polled
      /\ UNCHANGED <<node, ring_head_, loopVars, nicNext, workerVars, sendVars>>

\* dispatch_rx_pkts: the loop over the wait_for_disp_ packets begins.
DispatchBegin ==
  /\ DispatcherMayRun /\ DispatcherBetweenPhases
  /\ wait_for_disp_ > 0
  /\ toDispatch' = wait_for_disp_
  /\ entry' = ring_head_
  /\ UNCHANGED <<node, state_, recv_head_, ring_head_, wait_for_disp_, marking, nicVars,
                 workerVars, sendVars>>

\* Faulty NextEntry, for mutants: wait_for_disp_ is not reset.
NextEntryKeepsWaiting ==
  /\ entry' = Onward(entry, 1)
  /\ toDispatch' = toDispatch - 1
  /\ ring_head_' = IF toDispatch = 1 THEN Onward(ring_head_, wait_for_disp_) ELSE ring_head_
  /\ UNCHANGED wait_for_disp_

\* Step to the next packet; after the last one the indices move on.
NextEntry ==
  /\ entry' = Onward(entry, 1)
  /\ toDispatch' = toDispatch - 1
  /\ IF toDispatch = 1
       THEN /\ ring_head_' = Onward(ring_head_, wait_for_disp_)
            /\ wait_for_disp_' = 0
       ELSE UNCHANGED <<ring_head_, wait_for_disp_>>

EnqueueRx ==
  /\ toDispatch > 0 /\ ~marking
  /\ Len(rxQueue) < QueueCap
  /\ rxQueue' = Append(rxQueue, entry)
  /\ marking' = TRUE
  /\ UNCHANGED <<node, state_, recv_head_, ring_head_, wait_for_disp_, toDispatch, entry,
                 nicVars, held, txQueue, sendVars>>

MarkAppOwned ==
  /\ marking
  /\ state_' = [state_ EXCEPT ![entry] = "app"]
  /\ marking' = FALSE
  /\ NextEntry
  /\ UNCHANGED <<node, recv_head_, nicVars, workerVars, sendVars>>

\* Faulty DropRx, for a mutant: no continue after the drop.
DropWithoutContinue ==
  /\ toDispatch > 0 /\ ~marking
  /\ Len(rxQueue) = QueueCap
  /\ state_' = [state_ EXCEPT ![entry] = "free"]
  /\ marking' = TRUE
  /\ UNCHANGED <<node, recv_head_, ring_head_, wait_for_disp_, toDispatch, entry, nicVars,
                 workerVars, sendVars>>

DropRx ==
  /\ toDispatch > 0 /\ ~marking
  /\ Len(rxQueue) = QueueCap
  /\ state_' = [state_ EXCEPT ![entry] = "free"]
  /\ NextEntry
  /\ UNCHANGED <<node, recv_head_, marking, nicVars, workerVars, sendVars>>

\* collect_tx_pkts: the responses in the worker's queue.  The ring has as many
\* entries as there are receive buffers, so there is room for all of them.
CollectTx ==
  /\ DispatcherMayRun /\ DispatcherBetweenPhases
  /\ txQueue # <<>>
  /\ collected' = collected \o txQueue
  /\ txQueue' = <<>>
  /\ UNCHANGED <<node, state_, recv_head_, ring_head_, wait_for_disp_, loopVars, nicVars,
                 rxQueue, held, sending, sent>>

\* A server's nic_tx with a batch collected: tx_burst frees the buffers whose
\* response is out, then posts the collected ones; send requests are as many
\* as receive buffers, so one tx_burst posts them all.
NicTx ==
  /\ DispatcherMayRun /\ DispatcherBetweenPhases
  /\ Len(collected) >= DispTxBatch
  /\ state_' = [b \in Buffers |->
                  CASE b \in Elements(SubSeq(sending, 1, sent)) -> "free"
                    [] b \in Elements(collected) -> "posted"
                    [] OTHER -> state_[b]]
  /\ sending' = SubSeq(sending, sent + 1, Len(sending)) \o collected
  /\ sent' = 0
  /\ collected' = <<>>
  /\ UNCHANGED <<node, recv_head_, ring_head_, wait_for_disp_, loopVars, nicVars, workerVars>>

-----------------------------------------------------------------------------
(* Worker *)

\* app_handler: a batch is there, take everything.
TakeBatch ==
  /\ WorkerMayRun
  /\ held = <<>>
  /\ Len(rxQueue) >= AppRxBatch
  /\ held' = rxQueue
  /\ rxQueue' = <<>>
  /\ UNCHANGED <<node, state_, recv_head_, ring_head_, wait_for_disp_, loopVars, nicVars,
                 txQueue, sendVars>>

\* roce_mbuf_de_alloc: by a client for every response, by a server only for a
\* response that finds the tx queue full.
Release ==
  /\ held # <<>>
  /\ node.role = "client" \/ Len(txQueue) = QueueCap
  /\ state_' = [state_ EXCEPT ![Head(held)] = "free"]
  /\ held' = Tail(held)
  /\ UNCHANGED <<node, recv_head_, ring_head_, wait_for_disp_, loopVars, nicVars, rxQueue,
                 txQueue, sendVars>>

\* msg_handler_server: the request's buffer carries the response.
Respond ==
  /\ held # <<>>
  /\ node.role = "server" /\ Len(txQueue) < QueueCap
  /\ txQueue' = Append(txQueue, Head(held))
  /\ held' = Tail(held)
  /\ UNCHANGED <<node, state_, recv_head_, ring_head_, wait_for_disp_, loopVars, nicVars,
                 rxQueue, sendVars>>

Dispatcher == RxBurst \/ DispatchBegin \/ EnqueueRx \/ MarkAppOwned \/ DropRx
              \/ CollectTx \/ NicTx
Worker == TakeBatch \/ Release \/ Respond

Next == ReceivePacket \/ CompleteSend \/ Dispatcher \/ Worker

Spec == Init /\ [][Next]_vars

\* The phases are called for ever, the NIC works and packets keep arriving.
FairSpec ==
  /\ Spec
  /\ WF_vars(ReceivePacket) /\ WF_vars(CompleteSend)
  /\ WF_vars(RxBurst) /\ WF_vars(DispatchBegin) /\ WF_vars(EnqueueRx \/ DropRx)
  /\ WF_vars(MarkAppOwned) /\ WF_vars(CollectTx) /\ WF_vars(NicTx)
  /\ WF_vars(TakeBatch) /\ WF_vars(Release \/ Respond)

-----------------------------------------------------------------------------
(* Properties *)

\* Every buffer state is one of the three, every index names a ring entry.
TypeOK ==
  /\ node \in Nodes
  /\ state_ \in [Buffers -> {"posted", "app", "free"}]
  /\ recv_head_ \in Buffers /\ ring_head_ \in Buffers
  /\ wait_for_disp_ \in 0 .. RingSize
  /\ toDispatch \in 0 .. RingSize /\ entry \in Buffers /\ marking \in BOOLEAN
  /\ nicNext \in Buffers /\ nicPosted \in 0 .. RingSize /\ recvCq \in 0 .. RingSize
  /\ rxQueue \in Seq(Buffers) /\ held \in Seq(Buffers)
  /\ txQueue \in Seq(Buffers) /\ collected \in Seq(Buffers) /\ sending \in Seq(Buffers)
  /\ sent \in 0 .. Len(sending)

\* Buffers in the hands of the NIC for receiving, from first to last stage.
Receiving == Window(nicNext, nicPosted)
Completed == Window(Onward(ring_head_, wait_for_disp_), recvCq)
Undispatched ==
  CASE toDispatch = 0 -> Window(ring_head_, wait_for_disp_)
    [] toDispatch > 0 /\ marking -> Window(entry, toDispatch) \ {entry}
    [] OTHER -> Window(entry, toDispatch)
InApp == Elements(rxQueue \o held \o txQueue \o collected \o sending)

\* The dispatcher's three indices and the NIC's view describe one ring: the
\* packets dispatch_rx_pkts takes from ring_head_ on are the ones whose
\* completions were polled, the buffers post_recvs posts from recv_head_ on
\* follow the last posted one.
IndicesAgree ==
  /\ Onward(ring_head_, wait_for_disp_ + recvCq) = nicNext
  /\ Onward(nicNext, nicPosted) = recv_head_
  /\ wait_for_disp_ + recvCq + nicPosted <= RingSize

\* A buffer is in one place only: never posted to the NIC, waiting for dispatch
\* or handed to a worker at the same time, nor twice in a worker's queues.
OneOwner ==
  /\ Receiving \intersect (Completed \union Undispatched \union InApp) = {}
  /\ (Completed \union Undispatched) \intersect InApp = {}
  /\ Cardinality(InApp) = Len(rxQueue \o held \o txQueue \o collected \o sending)

\* A buffer the application freed stays free until rx_burst posts it ("if the
\* buffer is freed by app, post it", roce_dispatcher_dataplane.cc:146).
FreedStaysFree ==
  [][\A b \in Buffers : state_[b] = "free" => state_'[b] \in {"free", "posted"}]_state_

\* Every buffer handed to the application or waiting for post_recv (buffer.h:66)
\* is posted for receiving again in the end: receiving never dries up.
EveryBufferReturns ==
  \A b \in Buffers : state_[b] \in {"app", "free"} ~> b \in Receiving
================================================================================
