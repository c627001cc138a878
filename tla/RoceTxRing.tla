------------------------------- MODULE RoceTxRing -------------------------------
(***************************************************************************)
(* The transmit side of a RoCE dispatcher and the workers that feed it      *)
(* (src/src/dispatcher_impl/roce/roce_dispatcher_dataplane.cc:51-140), on a *)
(* client.  A tx buffer goes round:                                         *)
(*                                                                          *)
(*   freelist_ -> worker's hand -> worker's tx queue -> tx_queue_           *)
(*       ^                                                  | tx_burst      *)
(*       +---- reaped by a later tx_burst <---- sw_ring_ <--+               *)
(*                                                                          *)
(* The NIC completes requests in the order they were posted and reports     *)
(* only how many are done; which buffers those are, the dispatcher reads    *)
(* from sw_ring_ at send_head_.  The workers run on threads of their own,   *)
(* except those in node.home, which share the dispatcher's and act between  *)
(* its phases.                                                              *)
(***************************************************************************)
EXTENDS Naturals, Sequences, FiniteSets, SequencesExt

CONSTANTS
  Nodes,         \* the configurations considered, see Node
  MaxWorkers,    \* the most workers one of them has
  TxBatch,       \* kAppTxMsgBatchSize
  QueueCap,      \* kWsQueueSize - 1
  PoolSize       \* tx buffers of the allocator

Workers == 0 .. MaxWorkers - 1
Buffers == 1 .. PoolSize

\* workerNum is ws_tx_queues_.size(), home has the workers that are the
\* dispatcher's own workspace, budget is kInflyMessageBudget, ringSize is
\* kNumTxRingEntries and kSQDepth, dispTxBatch is kDispTxBatchSize.
Node == [workerNum : 1 .. MaxWorkers, home : SUBSET Workers, budget : Nat,
         ringSize : Nat \ {0}, dispTxBatch : Nat \ {0}]

ASSUME TxRingAssumption ==
  /\ MaxWorkers \in Nat \ {0} /\ TxBatch \in Nat \ {0}
  /\ Nodes \subseteq Node /\ Nodes # {}
  /\ \A n \in Nodes : n.budget >= TxBatch /\ \A w \in n.home : w < n.workerNum
  /\ \A n \in Nodes : n.dispTxBatch <= n.ringSize
  /\ QueueCap \in Nat \ {0} /\ PoolSize \in Nat \ {0}

VARIABLES
  node,                \* what runs here, never changed
  free_buf,            \* the buffers in HugeAlloc's freelist_
  leaked,              \* dropped buffers: de_alloc does not put them back
  source,              \* the worker named in each packet's header
  infly_budget,        \* per worker
  hand,                \* tx_mbuf_, what generate_pkts has still to enqueue
  queue,               \* the workers' tx queues
  collecting,          \* collect_tx_pkts: "no", "next", "compared", "sized"
  remain_ring_size, nb_collect_queue, tx_size,
  ws_queue_idx_,
  tx_queue_,           \* collected packets that are not posted yet
  flushing,            \* inside tx_flush
  sw_ring_, send_head_, send_tail_, free_send_wr_num_,
  nicQueue,            \* packets the NIC has to send, oldest first
  sendCq,              \* send completions not yet polled
  unanswered           \* per worker: packets sent whose response is not here

workerVars == <<infly_budget, hand, source, leaked>>
collectVars == <<collecting, remain_ring_size, nb_collect_queue, tx_size, ws_queue_idx_>>
ringVars == <<sw_ring_, send_head_, send_tail_, free_send_wr_num_>>
nicVars == <<nicQueue, sendCq, unanswered>>
vars == <<node, free_buf, workerVars, queue, collectVars, tx_queue_, flushing, ringVars, nicVars>>

WorkerNum == node.workerNum
RingSize == node.ringSize
Slots == 0 .. RingSize - 1

Lesser(m, n) == IF m <= n THEN m ELSE n
Elements(seq) == {seq[i] : i \in DOMAIN seq}

Init ==
  /\ node \in Nodes
  /\ free_buf = Buffers
  /\ leaked = {}
  /\ source = [b \in Buffers |-> 0]
  /\ infly_budget = [w \in Workers |-> IF w < WorkerNum THEN node.budget ELSE 0]
  /\ hand = [w \in Workers |-> <<>>]
  /\ queue = [w \in Workers |-> <<>>]
  /\ collecting = "no"
  /\ remain_ring_size = 0 /\ nb_collect_queue = 0 /\ tx_size = 0 /\ ws_queue_idx_ = 0
  /\ tx_queue_ = <<>> /\ flushing = FALSE
  /\ sw_ring_ = [i \in Slots |-> 0]
  /\ send_head_ = 0 /\ send_tail_ = 0 /\ free_send_wr_num_ = RingSize
  /\ nicQueue = <<>> /\ sendCq = 0
  /\ unanswered = [w \in Workers |-> 0]

DispatcherBetweenPhases == collecting = "no" /\ ~flushing
DispatcherMayRun == \A w \in node.home : hand[w] = <<>>
WorkerMayRun(w) == w \in node.home => DispatcherBetweenPhases

-----------------------------------------------------------------------------
(* Workers *)

\* A batch of free buffers, none of them twice; which ones is immaterial.
FreeBatch == CHOOSE s \in [1 .. TxBatch -> free_buf] : IsInjective(s)

\* apply_mbufs: budget for a batch, then a batch of free buffers.  What alloc_bulk
\* does with too few of them is not modelled: see PoolSuffices.
ApplyMbufs(w) ==
  /\ WorkerMayRun(w)
  /\ hand[w] = <<>>
  /\ infly_budget[w] >= TxBatch
  /\ Cardinality(free_buf) >= TxBatch
  /\ LET taken == FreeBatch
     IN  /\ hand' = [hand EXCEPT ![w] = taken]
         /\ source' = [b \in Buffers |-> IF b \in Elements(taken) THEN w ELSE source[b]]
         /\ free_buf' = free_buf \ Elements(taken)
  /\ infly_budget' = [infly_budget EXCEPT ![w] = @ - TxBatch]
  /\ UNCHANGED <<node, leaked, queue, collectVars, tx_queue_, flushing, ringVars, nicVars>>

\* generate_pkts, one packet at a time.
EnqueuePkt(w) ==
  /\ hand[w] # <<>>
  /\ Len(queue[w]) < QueueCap
  /\ hand' = [hand EXCEPT ![w] = Tail(@)]
  /\ queue' = [queue EXCEPT ![w] = Append(@, Head(hand[w]))]
  /\ UNCHANGED <<node, free_buf, leaked, source, infly_budget, collectVars, tx_queue_,
                 flushing, ringVars, nicVars>>

\* roce_mbuf_de_alloc only sets state_: a dropped buffer is in no list any more.
DropPkt(w) ==
  /\ hand[w] # <<>>
  /\ Len(queue[w]) = QueueCap
  /\ hand' = [hand EXCEPT ![w] = Tail(@)]
  /\ leaked' = leaked \union {Head(hand[w])}
  /\ UNCHANGED <<node, free_buf, source, infly_budget, queue, collectVars, tx_queue_,
                 flushing, ringVars, nicVars>>

\* Faulty ReturnBudget, for mutants: a batch's budget for every response.
ReturnBatch(w) ==
  /\ WorkerMayRun(w)
  /\ hand[w] = <<>>
  /\ unanswered[w] > 0
  /\ unanswered' = [unanswered EXCEPT ![w] = @ - 1]
  /\ infly_budget' = [infly_budget EXCEPT ![w] = @ + TxBatch]
  /\ UNCHANGED <<node, free_buf, leaked, source, hand, queue, collectVars, tx_queue_,
                 flushing, ringVars, nicQueue, sendCq>>

\* A response has come and msg_handler_client returns its budget.
ReturnBudget(w) ==
  /\ WorkerMayRun(w)
  /\ hand[w] = <<>>
  /\ unanswered[w] > 0
  /\ unanswered' = [unanswered EXCEPT ![w] = @ - 1]
  /\ infly_budget' = [infly_budget EXCEPT ![w] = @ + 1]
  /\ UNCHANGED <<node, free_buf, leaked, source, hand, queue, collectVars, tx_queue_,
                 flushing, ringVars, nicQueue, sendCq>>

-----------------------------------------------------------------------------
(* collect_tx_pkts, with one step per look at a worker's queue *)

SelectedQueue == queue[ws_queue_idx_]

\* A size_t below zero exceeds whatever the queues can hold.
Underflow == RingSize + WorkerNum * QueueCap

\* A call that finds all queues empty, or the ring full, changes nothing: after
\* one round ws_queue_idx_ is back where it was.
CollectBegin ==
  /\ DispatcherMayRun /\ DispatcherBetweenPhases
  /\ \E w \in Workers : queue[w] # <<>>
  /\ Len(tx_queue_) < RingSize
  /\ collecting' = "next"
  /\ remain_ring_size' = RingSize - Len(tx_queue_)
  /\ nb_collect_queue' = 0
  /\ UNCHANGED <<node, free_buf, workerVars, queue, tx_size, ws_queue_idx_, tx_queue_,
                 flushing, ringVars, nicVars>>

\* get_size() is compared with what remains of the ring ...
CollectCompare ==
  /\ collecting = "next"
  /\ remain_ring_size > 0 /\ nb_collect_queue < WorkerNum
  /\ IF Len(SelectedQueue) > remain_ring_size
       THEN tx_size' = remain_ring_size /\ collecting' = "sized"
       ELSE tx_size' = 0 /\ collecting' = "compared"
  /\ UNCHANGED <<node, free_buf, workerVars, queue, remain_ring_size, nb_collect_queue,
                 ws_queue_idx_, tx_queue_, flushing, ringVars, nicVars>>

\* ... and, when it fits, called again for the number to take.
CollectReread ==
  /\ collecting = "compared"
  /\ tx_size' = Len(SelectedQueue)
  /\ collecting' = "sized"
  /\ UNCHANGED <<node, free_buf, workerVars, queue, remain_ring_size, nb_collect_queue,
                 ws_queue_idx_, tx_queue_, flushing, ringVars, nicVars>>

\* Faulty Collected, for a mutant: the newest packet comes first.
CollectedNewestFirst == tx_queue_ \o Reverse(SubSeq(SelectedQueue, 1, tx_size))

\* tx_queue_ with the dequeued packets.
Collected == tx_queue_ \o SubSeq(SelectedQueue, 1, tx_size)

\* Faulty NextQueue, for a mutant: always the same queue.
SameQueue == ws_queue_idx_

NextQueue == (ws_queue_idx_ + 1) % WorkerNum

CollectDequeue ==
  /\ collecting = "sized"
  /\ tx_queue_' = Collected
  /\ queue' = [queue EXCEPT ![ws_queue_idx_] = SubSeq(@, tx_size + 1, Len(@))]
  /\ ws_queue_idx_' = NextQueue
  /\ nb_collect_queue' = nb_collect_queue + 1
  /\ remain_ring_size' =
       IF tx_size <= remain_ring_size THEN remain_ring_size - tx_size ELSE Underflow
  /\ tx_size' = 0
  /\ collecting' = "next"
  /\ UNCHANGED <<node, free_buf, workerVars, flushing, ringVars, nicVars>>

CollectEnd ==
  /\ collecting = "next"
  /\ remain_ring_size = 0 \/ nb_collect_queue = WorkerNum
  /\ collecting' = "no"
  /\ remain_ring_size' = 0 /\ nb_collect_queue' = 0
  /\ UNCHANGED <<node, free_buf, workerVars, queue, tx_size, ws_queue_idx_, tx_queue_,
                 flushing, ringVars, nicVars>>

-----------------------------------------------------------------------------
(* tx_flush *)

\* Faulty SlotFrom, for a mutant: the ring is not closed.
SlotUnwrapped(head, k) == head + k

SlotFrom(head, k) == (head + k) % RingSize

\* Faulty Polled, for a mutant: completions are polled once per flush.
PolledOnce == IF flushing THEN 0 ELSE sendCq

\* What ibv_poll_cq returns: kSQDepth is enough for all there are.
Polled == sendCq

\* What the next n completions are for.
Reaped(n) == [k \in 1 .. n |-> sw_ring_[SlotFrom(send_head_, k - 1)]]

\* Faulty Mounted, for mutants: mounts where the reaping starts.
MountedAtHead(n) ==
  [i \in Slots |->
     IF \E k \in 1 .. n : i = SlotFrom(send_head_, k - 1)
       THEN tx_queue_[CHOOSE k \in 1 .. n : i = SlotFrom(send_head_, k - 1)]
       ELSE sw_ring_[i]]

\* sw_ring_ with the first n packets mounted from send_tail_ on.
Mounted(n) ==
  [i \in Slots |->
     IF \E k \in 1 .. n : i = SlotFrom(send_tail_, k - 1)
       THEN tx_queue_[CHOOSE k \in 1 .. n : i = SlotFrom(send_tail_, k - 1)]
       ELSE sw_ring_[i]]

\* One tx_burst of tx_flush: free the buffers of the polled completions, then
\* post packets for as long as there are free work requests.  The flush is over
\* when all are posted; a call that can do neither changes nothing.
TxBurst ==
  LET free == free_send_wr_num_ + Polled
      n == Lesser(free, Len(tx_queue_))
  IN  /\ DispatcherMayRun /\ collecting = "no"
      /\ flushing \/ Len(tx_queue_) >= node.dispTxBatch
      /\ free_buf' = free_buf \union Elements(Reaped(Polled))
      /\ send_head_' = SlotFrom(send_head_, Polled)
      /\ sendCq' = sendCq - Polled
      /\ sw_ring_' = Mounted(n)
      /\ send_tail_' = SlotFrom(send_tail_, n)
      /\ free_send_wr_num_' = free - n
      /\ nicQueue' = nicQueue \o SubSeq(tx_queue_, 1, n)
      /\ tx_queue_' = SubSeq(tx_queue_, n + 1, Len(tx_queue_))
      /\ flushing' = (n < Len(tx_queue_))
      /\ UNCHANGED <<node, workerVars, queue, collectVars, unanswered>>

\* NIC: the oldest request is sent, its completion is queued, the peer will
\* answer.
CompleteSend ==
  /\ nicQueue # <<>>
  /\ nicQueue' = Tail(nicQueue)
  /\ sendCq' = sendCq + 1
  /\ unanswered' = [unanswered EXCEPT ![source[Head(nicQueue)]] = @ + 1]
  /\ UNCHANGED <<node, free_buf, workerVars, queue, collectVars, tx_queue_, flushing, ringVars>>

Next ==
  \/ \E w \in Workers : ApplyMbufs(w)
  \/ \E w \in Workers : EnqueuePkt(w)
  \/ \E w \in Workers : DropPkt(w)
  \/ \E w \in Workers : ReturnBudget(w)
  \/ CollectBegin \/ CollectCompare \/ CollectReread \/ CollectDequeue \/ CollectEnd
  \/ TxBurst
  \/ CompleteSend

Spec == Init /\ [][Next]_vars

\* The dispatcher calls its phases for ever and the NIC sends.
FairSpec ==
  /\ Spec
  /\ \A w \in Workers : WF_vars(EnqueuePkt(w) \/ DropPkt(w))
  /\ WF_vars(CollectBegin) /\ WF_vars(CollectCompare) /\ WF_vars(CollectReread)
  /\ WF_vars(CollectDequeue) /\ WF_vars(CollectEnd)
  /\ WF_vars(TxBurst) /\ WF_vars(CompleteSend)

-----------------------------------------------------------------------------
(* Properties *)

\* Every variable has a value of its type, counters stay within their rings.
TypeOK ==
  /\ node \in Nodes
  /\ free_buf \subseteq Buffers /\ leaked \subseteq Buffers
  /\ source \in [Buffers -> Workers]
  /\ infly_budget \in [Workers -> 0 .. node.budget]
  /\ hand \in [Workers -> Seq(Buffers)] /\ queue \in [Workers -> Seq(Buffers)]
  /\ collecting \in {"no", "next", "compared", "sized"}
  /\ remain_ring_size \in 0 .. RingSize
  /\ nb_collect_queue \in 0 .. WorkerNum /\ ws_queue_idx_ \in Workers
  /\ tx_size \in 0 .. QueueCap
  /\ tx_queue_ \in Seq(Buffers) /\ flushing \in BOOLEAN
  /\ sw_ring_ \in [Slots -> Buffers \union {0}]
  /\ send_head_ \in Slots /\ send_tail_ \in Slots /\ free_send_wr_num_ \in 0 .. RingSize
  /\ nicQueue \in Seq(Buffers) /\ sendCq \in 0 .. RingSize
  /\ unanswered \in [Workers -> 0 .. node.budget]

\* What collect_tx_pkts takes never exceeds tx_queue_'s entries: a full ring
\* stalls the transmission ("Stall occurs when the tx ring is full",
\* workspace.h:256), it is not written past its end.
TxQueueFits == Len(tx_queue_) <= RingSize

\* The buffers between the two ends of sw_ring_.
InSendRing == Reaped(RingSize - free_send_wr_num_)

\* sw_ring_ knows what the NIC knows: the oldest entries are the completed ones,
\* the rest is what the NIC is still sending.
SendRingAgrees ==
  /\ Len(nicQueue) + sendCq = RingSize - free_send_wr_num_
  /\ SubSeq(InSendRing, sendCq + 1, Len(InSendRing)) = nicQueue
  /\ SlotFrom(send_head_, Len(InSendRing)) = send_tail_

\* What holds buffers in an order.
Holders == ({"hand", "queue"} \X Workers) \union {<<"dispatcher", "tx_queue_">>, <<"dispatcher", "sw_ring_">>}
HeldBy(h) ==
  IF h[1] = "hand" THEN hand[h[2]]
  ELSE IF h[1] = "queue" THEN queue[h[2]]
  ELSE IF h[2] = "tx_queue_" THEN tx_queue_ ELSE InSendRing

\* A buffer is in exactly one place, or was dropped: none is allocated twice,
\* freed twice or freed while the NIC still sends from it.
BuffersAccounted ==
  LET gone == free_buf \union leaked
      held(h) == Elements(HeldBy(h))
  IN  /\ free_buf \intersect leaked = {}
      /\ \A h \in Holders : IsInjective(HeldBy(h)) /\ held(h) \intersect gone = {}
      /\ \A g, h \in Holders : g # h => held(g) \intersect held(h) = {}
      /\ gone \union UNION {held(h) : h \in Holders} = Buffers

\* A worker with budget for a batch finds a batch of buffers: alloc_bulk is
\* never called on an exhausted freelist, where it reads through a null pointer
\* (roce_dispatcher.cc:333).
PoolSuffices ==
  PoolSize >= WorkerNum * node.budget + RingSize =>
    \A w \in Workers :
      hand[w] = <<>> /\ infly_budget[w] >= TxBatch => Cardinality(free_buf) >= TxBatch

\* The packets of seq that came from w according to src, in their order.
PacketsOf(w, src, seq) ==
  LET taken[i \in 0 .. Len(seq)] ==
        IF i = 0 THEN <<>>
        ELSE IF src[seq[i]] = w THEN Append(taken[i - 1], seq[i]) ELSE taken[i - 1]
  IN  taken[Len(seq)]

\* The packets of a worker that are on their way to the wire, in order.
Pending(w) == PacketsOf(w, source, nicQueue \o tx_queue_) \o queue[w]

\* Packets of one worker reach the wire in the order it enqueued them, whatever
\* the other workers do: they join at the end and leave at the front.
FifoPerWorker ==
  [][\A w \in Workers : IsPrefix(Pending(w), Pending(w)') \/ IsSuffix(Pending(w)', Pending(w))]_vars

\* tx_flush's loop ends: completions free the work requests it waits for.
FlushEnds == flushing ~> ~flushing

\* The round robin leaves no worker behind: of every queue with packets some are
\* taken, also when the ring was full in the middle of a round.
NoWorkerStarved ==
  \A w \in Workers :
    queue[w] # <<>> ~> collecting = "sized" /\ ws_queue_idx_ = w /\ tx_size > 0
================================================================================
