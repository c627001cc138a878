------------------------------- MODULE DpdkServer -------------------------------
(***************************************************************************)
(* A server on the DPDK dispatcher, from the NIC's receive queue through    *)
(* the worker and back (dispatcher_impl/dpdk/dpdk_dispatcher_dataplane.cc,  *)
(* dpdk_pkt_handlers.cc, app_handler of workspace.h, msg_handler_server of  *)
(* msg_handlers.cc), seen as what happens to the mbufs of its one pool:     *)
(*                                                                          *)
(*   pool -> nicRx -> rx_queue_ -> wsRx -> msg -> toSend                     *)
(*        -> wsTx -> tx_queue_ -> nicTx -> pool                              *)
(*                                                                          *)
(* Unlike the RoCE dispatcher's buffers an mbuf has no state: whoever holds  *)
(* its pointer may free it.  The pool itself locks, so that a bulk request  *)
(* of one thread and a free of another are single steps; it does not matter *)
(* which of its mbufs it hands out.                                         *)
(*                                                                          *)
(* What is built and configured is a record of Builds:                      *)
(*   handler    "app": kRxPktHandler_Empty, packets go to a worker;          *)
(*              "echo": the dispatcher sends them back itself               *)
(*   req, resp  kAppRequestPktsNum, kAppReponsePktsNum                      *)
(*   applyNew   ApplyNewMbuf: responses travel in mbufs of their own        *)
(*   shared     worker and dispatcher are one workspace, hence one thread   *)
(*   arp        its queue pair is number 0, to which the NIC steers ARP      *)
(*   queueCap   packets a workspace queue holds                             *)
(*   dispTxBatch  kDispTxBatchSize                                          *)
(*   inFlight   packets the clients' budgets allow here at once             *)
(*   poolSize   kMemPoolSize less what the NIC's receive queue keeps        *)
(***************************************************************************)
EXTENDS Naturals, Sequences, FiniteSets, SequencesExt, FiniteSetsExt

CONSTANTS
  Builds,
  AppRxBatch,          \* kAppRxMsgBatchSize
  DispRxBatch,         \* kDispRxBatchSize
  RingEntries,         \* kNumTxRingEntries
  NicRxCap, NicTxCap,  \* packets the NIC's queues hold
  MaxArps,             \* bound: ARP packets that arrive
  ArpMayPrecede        \* data may be received behind an ARP packet

Build == [handler : {"app", "echo"}, req : Nat \ {0}, resp : Nat \ {0},
          applyNew : BOOLEAN, shared : BOOLEAN, arp : BOOLEAN, queueCap : Nat,
          dispTxBatch : 1 .. RingEntries, inFlight : Nat \ {0}, poolSize : Nat \ {0}]

\* Responses of more packets than their requests need mbufs of their own.
ASSUME BuildAssumption ==
  /\ Builds \subseteq Build
  /\ \A b \in Builds : b.resp > b.req => b.applyNew
  /\ {AppRxBatch, DispRxBatch, RingEntries, NicRxCap, NicTxCap} \subseteq Nat \ {0}
  /\ MaxArps \in Nat /\ ArpMayPrecede \in BOOLEAN

VARIABLES
  build,             \* never changed
  free, lost,        \* mbufs in the pool; mbufs nobody will ever free
  arps,              \* ARP packets that have arrived
  nicRx, rx_queue_,  \* received packets, before and after rx_burst
  i, dispatch_total, \* loop of dispatch_rx_pkts: packets seen, packets enqueued
  arpTry,            \* ARP reply the NIC has refused once, if any
  wsRx, wsTx,        \* the worker's queues
  worker,            \* where the worker is in app_handler
  msg,               \* requests in its hands
  toSend, leftover,  \* responses to enqueue, mbufs to free afterwards
  tx_mbuf_buffer_,   \* the mbufs alloc_bulk has put there, also the old ones
  tx_queue_, flushing,
  nicTx, done        \* packets given to the NIC, and how many it has sent

rxVars == <<arps, nicRx, rx_queue_, i, dispatch_total, arpTry>>
workerVars == <<worker, msg, toSend, leftover, tx_mbuf_buffer_>>
txVars == <<tx_queue_, flushing, nicTx, done>>
vars == <<build, free, lost, rxVars, wsRx, wsTx, workerVars, txVars>>

Mbufs == 1 .. build.poolSize
NoMbuf == 0

Lesser(m, n) == IF m <= n THEN m ELSE n

Init ==
  /\ build \in Builds
  /\ free = Mbufs /\ lost = {}
  /\ arps = 0 /\ nicRx = <<>> /\ rx_queue_ = <<>> /\ i = 0 /\ dispatch_total = 0 /\ arpTry = NoMbuf
  /\ wsRx = <<>> /\ wsTx = <<>>
  /\ worker = "idle" /\ msg = <<>> /\ toSend = <<>> /\ leftover = <<>>
  /\ tx_mbuf_buffer_ = <<>>
  /\ tx_queue_ = <<>> /\ flushing = FALSE /\ nicTx = <<>> /\ done = 0

MbufsOf(packets) == [k \in DOMAIN packets |-> packets[k].mbuf]
From(seq, n) == SubSeq(seq, n + 1, Len(seq))

\* The n mbufs the pool hands out.
Bulk(n) == CHOOSE bulk \in [1 .. n -> free] : IsInjective(bulk)

\* One thread runs both roles phase after phase, two threads interleave.
BetweenPhases == i = 0 /\ ~flushing
DispatcherMayStart == BetweenPhases /\ (build.shared => worker = "idle")
WorkerMayStart == worker = "idle" /\ (build.shared => BetweenPhases)

-----------------------------------------------------------------------------
(* NIC *)

\* Packets here that are not answered yet.
Unanswered ==
  Len(nicRx) + Len(rx_queue_) - i + Len(wsRx) + Len(msg) + Len(toSend) + Len(wsTx)
  + Len(tx_queue_) + Len(nicTx) - done

IsArp(packet) == packet.kind # "data"

\* A packet arrives: a request, an ARP request for this host ("arp"), any other
\* ARP packet ("otherArp").  Without a place in the queue or an mbuf it is lost.
Receive(kind) ==
  /\ Len(nicRx) < NicRxCap /\ free # {}
  /\ IF kind = "data"
       THEN /\ Unanswered < build.inFlight
            /\ ArpMayPrecede \/ \A k \in DOMAIN nicRx : ~IsArp(nicRx[k])
            /\ UNCHANGED arps
       ELSE /\ build.arp /\ arps < MaxArps
            /\ arps' = arps + 1
  /\ nicRx' = Append(nicRx, [mbuf |-> Bulk(1)[1], kind |-> kind])
  /\ free' = free \ ToSet(Bulk(1))
  /\ UNCHANGED <<build, lost, rx_queue_, i, dispatch_total, arpTry, wsRx, wsTx, workerVars,
                 txVars>>

\* The NIC has sent its oldest packet.
Transmit ==
  /\ done < Len(nicTx)
  /\ done' = done + 1
  /\ UNCHANGED <<build, free, lost, rxVars, wsRx, wsTx, workerVars, tx_queue_, flushing,
                 nicTx>>

\* rte_eth_tx_burst: the driver frees the mbufs of the packets that are out, then
\* takes as many as it has room for.
Accepted(packets) == Lesser(Len(packets), NicTxCap - (Len(nicTx) - done))
Burst(packets) ==
  /\ nicTx' = From(nicTx, done) \o SubSeq(packets, 1, Accepted(packets))
  /\ done' = 0
Reaped == ToSet(SubSeq(nicTx, 1, done))

-----------------------------------------------------------------------------
(* Dispatcher, receiving *)

\* rx_burst.  bursted_rx follows nic_rx in every round and empties rx_queue_.
RxBurst ==
  LET n == Lesser(Len(nicRx), DispRxBatch)
  IN  /\ DispatcherMayStart
      /\ rx_queue_ = <<>> /\ n > 0
      /\ rx_queue_' = SubSeq(nicRx, 1, n)
      /\ nicRx' = From(nicRx, n)
      /\ UNCHANGED <<build, free, lost, arps, i, dispatch_total, arpTry, wsRx, wsTx, workerVars,
                     txVars>>

\* Faulty EchoHandler, for a mutant: the packets without a place stay behind.
EchoWithoutFree ==
  LET n == Lesser(RingEntries - Len(tx_queue_), Len(rx_queue_))
  IN  /\ build.handler = "echo" /\ DispatcherMayStart
      /\ rx_queue_ # <<>>
      /\ tx_queue_' = tx_queue_ \o SubSeq(MbufsOf(rx_queue_), 1, n)
      /\ rx_queue_' = <<>>
      /\ UNCHANGED <<build, free, lost, arps, nicRx, i, dispatch_total, arpTry, wsRx, wsTx,
                     workerVars, flushing, nicTx, done>>

\* echo_handler, whatever the packets are; dispatch_rx_pkts then finds none.
EchoHandler ==
  LET n == Lesser(RingEntries - Len(tx_queue_), Len(rx_queue_))
  IN  /\ build.handler = "echo" /\ DispatcherMayStart
      /\ rx_queue_ # <<>>
      /\ tx_queue_' = tx_queue_ \o SubSeq(MbufsOf(rx_queue_), 1, n)
      /\ free' = free \union ToSet(From(MbufsOf(rx_queue_), n))
      /\ rx_queue_' = <<>>
      /\ UNCHANGED <<build, lost, arps, nicRx, i, dispatch_total, arpTry, wsRx, wsTx, workerVars,
                     flushing, nicTx, done>>

\* dispatch_rx_pkts looks at the packet after the i-th.
Looking ==
  /\ build.handler = "app"
  /\ i > 0 \/ DispatcherMayStart
  /\ i < Len(rx_queue_) /\ arpTry = NoMbuf

EnqueueRx ==
  /\ Looking
  /\ ~IsArp(rx_queue_[i + 1]) /\ Len(wsRx) < build.queueCap
  /\ wsRx' = Append(wsRx, rx_queue_[i + 1].mbuf)
  /\ i' = i + 1 /\ dispatch_total' = dispatch_total + 1
  /\ UNCHANGED <<build, free, lost, arps, nicRx, rx_queue_, arpTry, wsTx, workerVars, txVars>>

IgnoreArp ==
  /\ Looking
  /\ rx_queue_[i + 1].kind = "otherArp"
  /\ i' = i + 1
  /\ UNCHANGED <<build, free, lost, arps, nicRx, rx_queue_, dispatch_total, arpTry, wsRx, wsTx,
                 workerVars, txVars>>

\* tx_burst_for_arp: the reply takes an mbuf of its own (without one an assertion
\* stops the program) and is offered to the NIC twice.
ArpReply ==
  /\ Looking
  /\ rx_queue_[i + 1].kind = "arp" /\ free # {}
  /\ Burst(Bulk(1))
  /\ free' = (free \ ToSet(Bulk(1))) \union Reaped
  /\ IF Accepted(Bulk(1)) = 1
       THEN i' = i + 1 /\ UNCHANGED arpTry
       ELSE arpTry' = Bulk(1)[1] /\ UNCHANGED i
  /\ UNCHANGED <<build, lost, arps, nicRx, rx_queue_, dispatch_total, wsRx, wsTx, workerVars,
                 tx_queue_, flushing>>

\* What the NIC refuses again nobody frees.
ArpReplyAgain ==
  /\ arpTry # NoMbuf
  /\ Burst(<<arpTry>>)
  /\ free' = free \union Reaped
  /\ lost' = IF Accepted(<<arpTry>>) = 1 THEN lost ELSE lost \union {arpTry}
  /\ arpTry' = NoMbuf
  /\ i' = i + 1
  /\ UNCHANGED <<build, arps, nicRx, rx_queue_, dispatch_total, wsRx, wsTx, workerVars, tx_queue_,
                 flushing>>

\* The loop ends, also at the first packet that finds the queue full; what is
\* behind the first dispatch_total packets is freed.
DispatchEnd ==
  /\ i > 0 \/ Looking
  /\ \/ i = Len(rx_queue_)
     \/ Looking /\ ~IsArp(rx_queue_[i + 1]) /\ Len(wsRx) = build.queueCap
  /\ free' = free \union ToSet(From(MbufsOf(rx_queue_), dispatch_total))
  /\ rx_queue_' = <<>> /\ i' = 0 /\ dispatch_total' = 0
  /\ UNCHANGED <<build, lost, arps, nicRx, arpTry, wsRx, wsTx, workerVars, txVars>>

-----------------------------------------------------------------------------
(* Worker *)

\* app_handler takes all whole messages that are there.
TakeBatch ==
  LET msg_num == Len(wsRx) \div build.req
      pkt_num == msg_num * build.req
      resp_pkt_num == msg_num * build.resp
      batch == SubSeq(wsRx, 1, pkt_num)
  IN  /\ WorkerMayStart
      /\ msg_num >= AppRxBatch
      /\ wsRx' = From(wsRx, pkt_num)
      /\ IF build.applyNew
           THEN worker' = "alloc" /\ msg' = batch /\ UNCHANGED <<toSend, leftover>>
           ELSE /\ worker' = "respond"
                /\ toSend' = SubSeq(batch, 1, resp_pkt_num)
                /\ leftover' = From(batch, resp_pkt_num)
                /\ UNCHANGED msg
      /\ UNCHANGED <<build, free, lost, rxVars, wsTx, tx_mbuf_buffer_, txVars>>

\* alloc_bulk, tried until the pool has all of them at once.  With fewer response
\* packets than request packets the rest of a message is later looked for in
\* tx_mbuf_buffer_, where there are only mbufs of earlier batches (which nobody
\* reads otherwise).
AllocResponses ==
  LET msg_num == Len(msg) \div build.req
      resp_pkt_num == msg_num * build.resp
      buffer == Bulk(resp_pkt_num) \o From(tx_mbuf_buffer_, resp_pkt_num)
  IN  /\ worker = "alloc"
      /\ Cardinality(free) >= resp_pkt_num
      /\ worker' = "release"
      /\ free' = free \ ToSet(Bulk(resp_pkt_num))
      /\ tx_mbuf_buffer_' = IF build.req > build.resp THEN buffer ELSE <<>>
      /\ toSend' = SubSeq(buffer, 1, resp_pkt_num)
      /\ leftover' = SubSeq(buffer, resp_pkt_num + 1, Lesser(Len(msg), Len(buffer)))
      /\ UNCHANGED <<build, lost, rxVars, wsRx, wsTx, msg, txVars>>

\* de_alloc_bulk(msg, pkt_num) once the responses are written.
ReleaseRequests ==
  /\ worker = "release"
  /\ worker' = "respond"
  /\ free' = free \union ToSet(msg)
  /\ msg' = <<>>
  /\ UNCHANGED <<build, lost, rxVars, wsRx, wsTx, toSend, leftover, tx_mbuf_buffer_, txVars>>

Respond ==
  /\ worker = "respond" /\ toSend # <<>>
  /\ IF Len(wsTx) < build.queueCap
       THEN wsTx' = Append(wsTx, Head(toSend)) /\ UNCHANGED free
       ELSE free' = free \union {Head(toSend)} /\ UNCHANGED wsTx
  /\ toSend' = Tail(toSend)
  /\ UNCHANGED <<build, lost, rxVars, wsRx, worker, msg, leftover, tx_mbuf_buffer_, txVars>>

FinishBatch ==
  /\ worker = "respond" /\ toSend = <<>>
  /\ worker' = "idle"
  /\ free' = free \union ToSet(leftover)
  /\ leftover' = <<>>
  /\ UNCHANGED <<build, lost, rxVars, wsRx, wsTx, msg, toSend, tx_mbuf_buffer_, txVars>>

-----------------------------------------------------------------------------
(* Dispatcher, sending *)

\* Faulty RoomFor, for a mutant: the size of the queue alone decides.
NoLimit(size) == size

\* What collect_tx_pkts takes of a queue of that size.
RoomFor(size) == Lesser(size, RingEntries - Len(tx_queue_))

\* collect_tx_pkts, with one worker: the size is read once.
CollectTx ==
  LET n == RoomFor(Len(wsTx))
  IN  /\ DispatcherMayStart
      /\ Len(wsTx) >= build.dispTxBatch /\ n > 0
      /\ tx_queue_' = tx_queue_ \o SubSeq(wsTx, 1, n)
      /\ wsTx' = From(wsTx, n)
      /\ UNCHANGED <<build, free, lost, rxVars, wsRx, workerVars, flushing, nicTx, done>>

\* Faulty TxFlush, for a mutant: a partial flush is the end of it.
TxFlushOnce ==
  /\ flushing \/ (DispatcherMayStart /\ Len(tx_queue_) >= build.dispTxBatch)
  /\ Burst(tx_queue_)
  /\ free' = free \union Reaped
  /\ tx_queue_' = <<>>
  /\ flushing' = FALSE
  /\ UNCHANGED <<build, lost, rxVars, wsRx, wsTx, workerVars>>

\* nic_tx with tx_flush: bursts until the NIC has taken all of tx_queue_, which
\* here is what is left of it.
TxFlush ==
  /\ flushing \/ (DispatcherMayStart /\ Len(tx_queue_) >= build.dispTxBatch)
  /\ Burst(tx_queue_)
  /\ free' = free \union Reaped
  /\ tx_queue_' = From(tx_queue_, Accepted(tx_queue_))
  /\ flushing' = (Accepted(tx_queue_) < Len(tx_queue_))
  /\ UNCHANGED <<build, lost, rxVars, wsRx, wsTx, workerVars>>

Nic == Transmit \/ \E kind \in {"data", "arp", "otherArp"} : Receive(kind)
Dispatching == EnqueueRx \/ IgnoreArp \/ ArpReply \/ ArpReplyAgain \/ DispatchEnd
Dispatcher == RxBurst \/ EchoHandler \/ Dispatching \/ CollectTx \/ TxFlush
Answering == AllocResponses \/ ReleaseRequests \/ Respond \/ FinishBatch

Next == Nic \/ Dispatcher \/ TakeBatch \/ Answering

Spec == Init /\ [][Next]_vars

\* A round of the loop calls every phase: what a phase finds to do stays until its
\* turn comes, although other phases disable it for the time they run (hence SF).
\* What has begun goes on, the NIC sends, requests keep coming between ARP packets.
FairSpec ==
  /\ Spec
  /\ SF_vars(Receive("data")) /\ WF_vars(Transmit)
  /\ SF_vars(RxBurst \/ EchoHandler) /\ SF_vars(Dispatching)
  /\ SF_vars(CollectTx) /\ SF_vars(TxFlush)
  /\ SF_vars(TakeBatch) /\ WF_vars(Answering)

-----------------------------------------------------------------------------
(* Properties *)

\* Every variable has a value of its type, no array is filled beyond its end.
TypeOK ==
  /\ build \in Builds
  /\ free \subseteq Mbufs /\ lost \subseteq Mbufs /\ arps \in 0 .. MaxArps
  /\ arpTry \in Mbufs \union {NoMbuf}
  /\ \A seq \in {MbufsOf(nicRx), MbufsOf(rx_queue_), wsRx, wsTx, msg, toSend, leftover,
                 tx_mbuf_buffer_, tx_queue_, nicTx} : seq \in Seq(Mbufs)
  /\ Len(nicRx) <= NicRxCap /\ Len(rx_queue_) <= DispRxBatch
  /\ Len(wsRx) <= build.queueCap /\ Len(wsTx) <= build.queueCap
  /\ Len(tx_queue_) <= RingEntries /\ Len(nicTx) <= NicTxCap
  /\ i \in 0 .. Len(rx_queue_) /\ dispatch_total \in 0 .. i /\ done \in 0 .. Len(nicTx)
  /\ worker \in {"idle", "alloc", "release", "respond"} /\ flushing \in BOOLEAN

\* What dispatch_rx_pkts has still to dispatch or to free, by its place in rx_queue_.
NotDispatched ==
  [k \in {n \in DOMAIN rx_queue_ : n > i \/ IsArp(rx_queue_[n])} |-> rx_queue_[k].mbuf]

Held ==
  [nicRx |-> MbufsOf(nicRx), rx_queue_ |-> NotDispatched, wsRx |-> wsRx, msg |-> msg,
   toSend |-> toSend, leftover |-> leftover, wsTx |-> wsTx, tx_queue_ |-> tx_queue_,
   nicTx |-> nicTx, arpTry |-> IF arpTry = NoMbuf THEN <<>> ELSE <<arpTry>>]

\* Every mbuf is in one place: none is freed while a queue still holds it, none is
\* in two queues, and only the ARP replies the NIC refused twice are lost ("free
\* rx-failed mbufs and reset the rx queue index",
\* dpdk_dispatcher_dataplane.cc:177).
OneHolder ==
  LET gone == free \union lost
      held(h) == Range(Held[h])
  IN  /\ free \intersect lost = {}
      /\ \A h \in DOMAIN Held : IsInjective(Held[h]) /\ held(h) \intersect gone = {}
      /\ \A g, h \in DOMAIN Held : g # h => held(g) \intersect held(h) = {}
      /\ gone \union UNION {held(h) : h \in DOMAIN Held} = Mbufs

\* Sizes with which nothing comes to rest for good.  What may rest, in the worker's
\* two queues, is below app_handler's and collect_tx_pkts's thresholds; sent mbufs
\* are freed by the next burst only, and ARP packets and replies take some as well.
\* Budgets and pool are more than that.  A pool that alloc_bulk draws from also
\* holds the responses to all messages the queue may hold (the assertion of
\* workspace.cc:50 counts one batch): besides all that arrives, if another thread
\* goes on sending, and besides all responses before, if nobody does.
SizesSuffice ==
  LET resting == (AppRxBatch * build.req - 1) + (build.dispTxBatch - 1)
      aside == NicTxCap + (IF build.arp THEN 2 * MaxArps ELSE 0)
      messages == build.queueCap \div build.req
  IN  /\ build.queueCap >= AppRxBatch * build.req /\ build.queueCap >= build.dispTxBatch
      /\ build.inFlight > resting /\ build.poolSize > resting + aside
      /\ build.applyNew => build.poolSize >= aside +
           IF build.shared
             THEN build.inFlight * build.resp + messages * build.req
             ELSE build.inFlight + (build.dispTxBatch - 1) + messages * build.resp

\* Every mbuf that leaves the pool comes back to it, except for a lost ARP reply:
\* nothing rests for ever in a queue, a batch or a ring, and a thread that spins in
\* alloc_bulk (msg_handlers.cc:193) with its requests in hand gets its mbufs,
\* from the dispatcher's thread if it has to wait.
EveryMbufReturns ==
  \A b \in 1 .. Max({r.poolSize : r \in Builds}) :
    SizesSuffice /\ b \in Mbufs \ free ~> b \in free \union lost
================================================================================
