---------------------------- MODULE RoceTxRingProofs ----------------------------
(***************************************************************************)
(* For a send ring of any size, any workers, budgets, batches and queues:   *)
(* sw_ring_ always knows which buffer a completion is for; every buffer is  *)
(* free, dropped or in one place of one list; a worker with budget for a    *)
(* batch finds one in a pool that has room for all budgets and the ring;    *)
(* the packets of a worker reach the wire in the order it enqueued them.    *)
(* Where the dispatcher serves no worker of another thread, or the budgets  *)
(* fit the ring, tx_queue_ never has more packets than the ring has         *)
(* entries.                                                                 *)
(*                                                                          *)
(* The argument for the ring: counted from send_head_, the entries are      *)
(* those of the completions not polled, then those of the packets the NIC   *)
(* has, then free_send_wr_num_ free ones.  A burst moves send_head_ over    *)
(* the first part and mounts only on the last.                              *)
(*                                                                          *)
(* The argument for the buffers: every step moves the front of one holder's *)
(* sequence behind another's, or out of all, or fills an empty one.         *)
(*                                                                          *)
(* The argument for the pool: a worker's budget, its packets in flight and  *)
(* its unanswered ones add up to what it started with, so all workers have  *)
(* no more in flight than their budgets.                                    *)
(*                                                                          *)
(* The argument for the order: what a worker has on its way is a sequence,  *)
(* its packets on the wire side and its queue behind them.  Collecting and  *)
(* posting move packets over the joints of that sequence and keep it as it  *)
(* is; only the worker's enqueuing and the NIC's sending change it, at the  *)
(* two ends.                                                                *)
(***************************************************************************)
EXTENDS RoceTxRing, FunctionTheorems, SequenceTheorems, FiniteSetTheorems,
        WellFoundedInduction, TLAPS

-----------------------------------------------------------------------------
(* The invariant of the ring *)

Types ==
  /\ node \in Nodes
  /\ free_buf \subseteq Buffers
  /\ hand \in [Workers -> Seq(Buffers)] /\ queue \in [Workers -> Seq(Buffers)]
  /\ collecting \in {"no", "next", "compared", "sized"}
  /\ remain_ring_size \in Nat /\ tx_size \in Nat /\ ws_queue_idx_ \in 0 .. WorkerNum - 1
  /\ tx_queue_ \in Seq(Buffers) /\ nicQueue \in Seq(Buffers)
  /\ sw_ring_ \in [Slots -> Buffers \union {0}]
  /\ send_head_ \in Slots /\ send_tail_ \in Slots
  /\ free_send_wr_num_ \in Nat /\ sendCq \in Nat

\* What a worker's queue had when its size was read is still there.
SizeHolds == collecting = "sized" => tx_size <= Len(queue[ws_queue_idx_])

\* The three parts of the ring.
Parts ==
  /\ sendCq + Len(nicQueue) + free_send_wr_num_ = RingSize
  /\ send_tail_ = SlotFrom(send_head_, sendCq + Len(nicQueue))
  /\ \A k \in 1 .. Len(nicQueue) : sw_ring_[SlotFrom(send_head_, sendCq + k - 1)] = nicQueue[k]
  /\ \A k \in 1 .. sendCq : sw_ring_[SlotFrom(send_head_, k - 1)] \in Buffers

IInv == Types /\ SizeHolds /\ Parts

\* What the configurations considered say about node.
LEMMA NodeFacts ==
  ASSUME node \in Nodes
  PROVE  /\ RingSize \in Nat \ {0}
         /\ WorkerNum \in Nat \ {0} /\ WorkerNum <= MaxWorkers
         /\ node.dispTxBatch \in Nat \ {0}
         /\ node.budget \in Nat
         /\ node.home \subseteq 0 .. WorkerNum - 1
<1>1. node \in Node
  BY TxRingAssumption
<1>2. /\ node.ringSize \in Nat \ {0} /\ node.workerNum \in 1 .. MaxWorkers
      /\ node.dispTxBatch \in Nat \ {0} /\ node.budget \in Nat /\ node.home \subseteq Workers
  BY <1>1 DEF Node
<1>3. \A w \in node.home : w \in Nat /\ w < node.workerNum
  BY <1>2, TxRingAssumption DEF Workers
<1> QED
  BY <1>2, <1>3, TxRingAssumption DEF RingSize, WorkerNum

-----------------------------------------------------------------------------
(* Arithmetic of the ring *)

\* The modulus folds an index less than two rings back into the ring.
LEMMA Folding ==
  ASSUME node \in Nodes, NEW i \in Nat, i < 2 * RingSize
  PROVE  i % RingSize = IF i < RingSize THEN i ELSE i - RingSize
<1>1. RingSize \in Nat \ {0}
  BY NodeFacts
<1>2. CASE i < RingSize
  BY <1>1, <1>2, SMT
<1>3. CASE i >= RingSize
  BY <1>1, <1>3, SMTT(30)
<1> QED
  BY <1>1, <1>2, <1>3

\* Going k slots on from head without the modulus.
LEMMA SlotFolded ==
  ASSUME node \in Nodes, NEW head \in Slots, NEW k \in 0 .. RingSize
  PROVE  /\ SlotFrom(head, k) \in Slots
         /\ SlotFrom(head, k) = IF head + k < RingSize THEN head + k ELSE head + k - RingSize
<1>1. /\ RingSize \in Nat \ {0} /\ head \in Nat /\ head < RingSize /\ k \in Nat
      /\ k <= RingSize
  BY NodeFacts DEF Slots
<1>2. head + k \in Nat /\ head + k < 2 * RingSize
  BY <1>1
<1>3. (head + k) % RingSize = IF head + k < RingSize THEN head + k ELSE head + k - RingSize
  BY <1>1, <1>2, Folding
<1>4. SlotFrom(head, k) = (head + k) % RingSize
  BY DEF SlotFrom
<1>5. (IF head + k < RingSize THEN head + k ELSE head + k - RingSize) \in 0 .. RingSize - 1
  BY <1>1
<1> QED
  BY <1>3, <1>4, <1>5 DEF Slots

\* Two ways on, one after the other.
LEMMA SlotsOnward ==
  ASSUME node \in Nodes, NEW head \in Slots, NEW j \in Nat, NEW k \in Nat, j + k <= RingSize
  PROVE  SlotFrom(SlotFrom(head, j), k) = SlotFrom(head, j + k)
<1>1. RingSize \in Nat \ {0} /\ head \in Nat /\ head < RingSize
  BY NodeFacts DEF Slots
<1>2. j \in 0 .. RingSize /\ k \in 0 .. RingSize /\ j + k \in 0 .. RingSize
  BY <1>1
<1>3. SlotFrom(head, j) \in Slots
  BY <1>2, SlotFolded
<1>4. /\ SlotFrom(head, j) = IF head + j < RingSize THEN head + j ELSE head + j - RingSize
      /\ SlotFrom(head, j + k)
           = IF head + (j + k) < RingSize THEN head + (j + k) ELSE head + (j + k) - RingSize
  BY <1>2, SlotFolded
<1>5. SlotFrom(SlotFrom(head, j), k)
        = IF SlotFrom(head, j) + k < RingSize
            THEN SlotFrom(head, j) + k ELSE SlotFrom(head, j) + k - RingSize
  BY <1>2, <1>3, SlotFolded
<1> QED
  BY <1>1, <1>2, <1>4, <1>5

\* Different ways of less than a ring lead to different slots.
LEMMA SlotsDistinct ==
  ASSUME node \in Nodes, NEW head \in Slots,
         NEW j \in 0 .. RingSize - 1, NEW k \in 0 .. RingSize - 1,
         SlotFrom(head, j) = SlotFrom(head, k)
  PROVE  j = k
<1>1. RingSize \in Nat \ {0} /\ head \in Nat /\ head < RingSize
  BY NodeFacts DEF Slots
<1>2. /\ j \in 0 .. RingSize /\ k \in 0 .. RingSize
      /\ j \in Nat /\ k \in Nat /\ j < RingSize /\ k < RingSize
  BY <1>1
<1>3. /\ SlotFrom(head, j) = IF head + j < RingSize THEN head + j ELSE head + j - RingSize
      /\ SlotFrom(head, k) = IF head + k < RingSize THEN head + k ELSE head + k - RingSize
  BY <1>2, SlotFolded
<1>4. (IF head + j < RingSize THEN head + j ELSE head + j - RingSize)
        = (IF head + k < RingSize THEN head + k ELSE head + k - RingSize)
  BY <1>3
<1> QED
  BY <1>1, <1>2, <1>4

-----------------------------------------------------------------------------
(* Steps that leave the ring alone *)

\* All is free at the start.
LEMMA InitIInv == Init => IInv
<1> SUFFICES ASSUME Init PROVE IInv
  OBVIOUS
<1>1. /\ node \in Nodes /\ RingSize \in Nat \ {0} /\ WorkerNum \in Nat \ {0}
  BY NodeFacts DEF Init
<1>2. 0 \in Slots /\ 0 \in 0 .. WorkerNum - 1
  BY <1>1 DEF Slots
<1>3. /\ hand \in [Workers -> Seq(Buffers)] /\ queue \in [Workers -> Seq(Buffers)]
      /\ tx_queue_ \in Seq(Buffers) /\ nicQueue \in Seq(Buffers) /\ Len(nicQueue) = 0
  BY DEF Init
<1>4. Types
  BY <1>1, <1>2, <1>3 DEF Init, Types
<1>5. SizeHolds
  BY DEF Init, SizeHolds
<1>6. SlotFrom(0, 0) = 0
  BY <1>1, <1>2, SlotFolded
<1>7. Parts
  BY <1>1, <1>3, <1>6 DEF Init, Parts
<1> QED
  BY <1>4, <1>5, <1>7 DEF IInv

\* The parts of the ring depend on nothing else.
LEMMA PartsStay ==
  ASSUME Parts, UNCHANGED <<node, ringVars, nicQueue, sendCq>>
  PROVE  Parts'
BY DEF Parts, ringVars, RingSize, SlotFrom

\* A batch taken from the freelist has TxBatch different buffers of it.
LEMMA FreeBatchApart ==
  ASSUME free_buf \subseteq Buffers, Cardinality(free_buf) >= TxBatch
  PROVE  /\ FreeBatch \in Seq(Buffers) /\ IsInjective(FreeBatch)
         /\ Elements(FreeBatch) \subseteq free_buf
         /\ Cardinality(Elements(FreeBatch)) = TxBatch
<1>1. TxBatch \in Nat /\ IsFiniteSet(Buffers)
  BY TxRingAssumption, FS_Interval DEF Buffers
<1>2. /\ Cardinality(free_buf) \in Nat
      /\ ExistsBijection(1 .. Cardinality(free_buf), free_buf)
  BY <1>1, FS_Subset, FS_CardinalityType
<1>3. PICK f : f \in Bijection(1 .. Cardinality(free_buf), free_buf)
  BY <1>2 DEF ExistsBijection
<1>4. /\ f \in [1 .. Cardinality(free_buf) -> free_buf]
      /\ \A i, j \in 1 .. Cardinality(free_buf) : f[i] = f[j] => i = j
  BY <1>3 DEF Bijection, Injection, IsInjective
<1> DEFINE s == [i \in 1 .. TxBatch |-> f[i]]
<1>5. \A i \in 1 .. TxBatch : i \in 1 .. Cardinality(free_buf)
  BY <1>1, <1>2
<1>6. s \in [1 .. TxBatch -> free_buf]
  BY <1>4, <1>5
<1>7. IsInjective(s)
  BY <1>4, <1>5 DEF IsInjective
<1>8. FreeBatch \in [1 .. TxBatch -> free_buf] /\ IsInjective(FreeBatch)
  BY <1>6, <1>7 DEF FreeBatch
<1>9. FreeBatch \in [1 .. TxBatch -> Buffers]
  BY <1>8
<1>10. FreeBatch \in Seq(Buffers)
  BY <1>1, <1>9
<1>11. Elements(FreeBatch) \subseteq free_buf
  BY <1>8 DEF Elements
<1>12. Cardinality(Elements(FreeBatch)) = TxBatch
  <2>1. FreeBatch \in Bijection(1 .. TxBatch, Elements(FreeBatch))
    BY <1>8 DEF Bijection, Injection, Surjection, Elements
  <2>2. ExistsBijection(1 .. TxBatch, Elements(FreeBatch))
    BY <2>1 DEF ExistsBijection
  <2> QED
    BY <1>1, <2>2, FS_CountingElements
<1> QED
  BY <1>8, <1>10, <1>11, <1>12

\* apply_mbufs takes from the freelist only.
LEMMA ApplyMbufsKeeps == ASSUME NEW w \in Workers PROVE IInv /\ ApplyMbufs(w) => IInv'
<1> SUFFICES ASSUME IInv, ApplyMbufs(w) PROVE IInv'
  OBVIOUS
<1>1. FreeBatch \in Seq(Buffers)
  BY FreeBatchApart DEF IInv, Types, ApplyMbufs
<1>2. /\ hand' = [hand EXCEPT ![w] = FreeBatch]
      /\ free_buf' = free_buf \ Elements(FreeBatch)
      /\ UNCHANGED <<node, queue, collectVars, tx_queue_, ringVars, nicVars>>
  BY DEF ApplyMbufs
<1>3. Types'
  BY <1>1, <1>2 DEF IInv, Types, collectVars, ringVars, nicVars, WorkerNum, RingSize, Slots
<1>4. SizeHolds'
  BY <1>2 DEF IInv, SizeHolds, collectVars
<1>5. Parts'
  BY <1>2, PartsStay DEF IInv, nicVars
<1> QED
  BY <1>3, <1>4, <1>5 DEF IInv

\* A worker's queue only grows while it is being collected.
LEMMA EnqueuePktKeeps == ASSUME NEW w \in Workers PROVE IInv /\ EnqueuePkt(w) => IInv'
<1> SUFFICES ASSUME IInv, EnqueuePkt(w) PROVE IInv'
  OBVIOUS
<1>1. /\ hand' = [hand EXCEPT ![w] = Tail(hand[w])] /\ hand[w] # <<>>
      /\ queue' = [queue EXCEPT ![w] = Append(queue[w], Head(hand[w]))]
      /\ UNCHANGED <<node, free_buf, collectVars, tx_queue_, ringVars, nicVars>>
  BY DEF EnqueuePkt
<1>2. hand[w] \in Seq(Buffers) /\ queue[w] \in Seq(Buffers)
  BY DEF IInv, Types
<1>3. /\ Tail(hand[w]) \in Seq(Buffers) /\ Append(queue[w], Head(hand[w])) \in Seq(Buffers)
      /\ Len(Append(queue[w], Head(hand[w]))) = Len(queue[w]) + 1
  BY <1>1, <1>2, HeadTailProperties, AppendProperties
<1>4. Types'
  BY <1>1, <1>3 DEF IInv, Types, collectVars, ringVars, nicVars, WorkerNum, RingSize, Slots
<1>5. SizeHolds'
  <2>1. ws_queue_idx_ \in Workers
    BY NodeFacts, TxRingAssumption DEF IInv, Types, Workers
  <2>2. Len(queue[ws_queue_idx_]) <= Len(queue'[ws_queue_idx_])
        /\ Len(queue[ws_queue_idx_]) \in Nat /\ Len(queue'[ws_queue_idx_]) \in Nat
    BY <1>1, <1>2, <1>3, <2>1, LenProperties DEF IInv, Types
  <2>3. SizeHolds /\ tx_size \in Nat
    BY DEF IInv, Types
  <2>4. collecting' = collecting /\ tx_size' = tx_size /\ ws_queue_idx_' = ws_queue_idx_
    BY <1>1 DEF collectVars
  <2> QED
    BY <2>2, <2>3, <2>4 DEF SizeHolds
<1>6. Parts'
  BY <1>1, PartsStay DEF IInv, nicVars
<1> QED
  BY <1>4, <1>5, <1>6 DEF IInv

\* A dropped packet goes nowhere.
LEMMA DropPktKeeps == ASSUME NEW w \in Workers PROVE IInv /\ DropPkt(w) => IInv'
<1> SUFFICES ASSUME IInv, DropPkt(w) PROVE IInv'
  OBVIOUS
<1>1. /\ hand' = [hand EXCEPT ![w] = Tail(hand[w])] /\ hand[w] # <<>>
      /\ UNCHANGED <<node, free_buf, queue, collectVars, tx_queue_, ringVars, nicVars>>
  BY DEF DropPkt
<1>2. Tail(hand[w]) \in Seq(Buffers)
  BY <1>1, HeadTailProperties DEF IInv, Types
<1>3. Types'
  BY <1>1, <1>2 DEF IInv, Types, collectVars, ringVars, nicVars, WorkerNum, RingSize, Slots
<1>4. SizeHolds'
  BY <1>1 DEF IInv, SizeHolds, collectVars
<1>5. Parts'
  BY <1>1, PartsStay DEF IInv, nicVars
<1> QED
  BY <1>3, <1>4, <1>5 DEF IInv

\* A response only returns budget.
LEMMA ReturnBudgetKeeps == ASSUME NEW w \in Workers PROVE IInv /\ ReturnBudget(w) => IInv'
<1> SUFFICES ASSUME IInv, ReturnBudget(w) PROVE IInv'
  OBVIOUS
<1>1. UNCHANGED <<node, free_buf, hand, queue, collectVars, tx_queue_, ringVars, nicQueue, sendCq>>
  BY DEF ReturnBudget
<1>2. Types'
  BY <1>1 DEF IInv, Types, collectVars, ringVars, WorkerNum, RingSize, Slots
<1>3. SizeHolds'
  BY <1>1 DEF IInv, SizeHolds, collectVars
<1>4. Parts'
  BY <1>1, PartsStay DEF IInv
<1> QED
  BY <1>2, <1>3, <1>4 DEF IInv

\* Reading sizes changes neither queues nor ring.
LEMMA CollectReadsKeep ==
  IInv /\ (CollectBegin \/ CollectCompare \/ CollectReread \/ CollectEnd) => IInv'
<1> SUFFICES ASSUME IInv, CollectBegin \/ CollectCompare \/ CollectReread \/ CollectEnd
             PROVE  IInv'
  OBVIOUS
<1>1. UNCHANGED <<node, free_buf, workerVars, queue, ws_queue_idx_, tx_queue_, ringVars, nicVars>>
  BY DEF CollectBegin, CollectCompare, CollectReread, CollectEnd
<1>2. Parts'
  BY <1>1, PartsStay DEF IInv, nicVars
<1>3. /\ queue[ws_queue_idx_] \in Seq(Buffers) /\ Len(queue[ws_queue_idx_]) \in Nat
      /\ RingSize \in Nat /\ tx_size \in Nat
  <2>1. ws_queue_idx_ \in Workers
    BY NodeFacts, TxRingAssumption DEF IInv, Types, Workers
  <2> QED
    BY <2>1, NodeFacts, LenProperties DEF IInv, Types
<1>4. /\ collecting' \in {"no", "next", "compared", "sized"}
      /\ tx_size' \in Nat /\ remain_ring_size' \in Nat
      /\ collecting' = "sized" => tx_size' <= Len(queue[ws_queue_idx_])
  <2>1. CASE CollectBegin
    <3>1. Len(tx_queue_) \in Nat
      BY LenProperties DEF IInv, Types
    <3>2. /\ collecting' = "next" /\ tx_size' = tx_size /\ Len(tx_queue_) < RingSize
          /\ remain_ring_size' = RingSize - Len(tx_queue_)
      BY <2>1 DEF CollectBegin
    <3> QED
      BY <1>3, <3>1, <3>2
  <2>2. CASE CollectCompare
    <3>1. remain_ring_size' = remain_ring_size /\ remain_ring_size \in Nat
      BY <2>2 DEF CollectCompare, IInv, Types
    <3>2. CASE Len(SelectedQueue) > remain_ring_size
      <4>1. tx_size' = remain_ring_size /\ collecting' = "sized"
        BY <2>2, <3>2 DEF CollectCompare
      <4>2. remain_ring_size \in Nat /\ remain_ring_size < Len(SelectedQueue)
        BY <3>2 DEF IInv, Types
      <4> QED
        BY <3>1, <4>1, <4>2, <1>3 DEF SelectedQueue
    <3>3. CASE ~(Len(SelectedQueue) > remain_ring_size)
      BY <2>2, <3>1, <3>3 DEF CollectCompare
    <3> QED
      BY <3>2, <3>3
  <2>3. CASE CollectReread
    BY <2>3, <1>3 DEF CollectReread, SelectedQueue, IInv, Types
  <2>4. CASE CollectEnd
    BY <2>4, <1>3 DEF CollectEnd
  <2> QED
    BY <2>1, <2>2, <2>3, <2>4
<1>5. Types'
  BY <1>1, <1>4 DEF IInv, Types, workerVars, ringVars, nicVars, WorkerNum, RingSize, Slots
<1>6. SizeHolds'
  BY <1>1, <1>4 DEF SizeHolds
<1> QED
  BY <1>2, <1>5, <1>6 DEF IInv

\* What was sized is there to be dequeued.
LEMMA CollectDequeueKeeps == IInv /\ CollectDequeue => IInv'
<1> SUFFICES ASSUME IInv, CollectDequeue PROVE IInv'
  OBVIOUS
<1> DEFINE q == queue[ws_queue_idx_]
<1>1. /\ ws_queue_idx_ \in Workers /\ q \in Seq(Buffers) /\ Len(q) \in Nat
      /\ tx_size \in Nat /\ tx_size <= Len(q)
  <2>1. ws_queue_idx_ \in Workers
    BY NodeFacts, TxRingAssumption DEF IInv, Types, Workers
  <2> QED
    BY <2>1, LenProperties DEF IInv, Types, SizeHolds, CollectDequeue
<1>2. /\ tx_queue_' = tx_queue_ \o SubSeq(q, 1, tx_size)
      /\ queue' = [queue EXCEPT ![ws_queue_idx_] = SubSeq(q, tx_size + 1, Len(q))]
      /\ ws_queue_idx_' = (ws_queue_idx_ + 1) % WorkerNum
      /\ collecting' = "next" /\ tx_size' = 0
      /\ UNCHANGED <<node, free_buf, workerVars, ringVars, nicVars>>
  BY DEF CollectDequeue, Collected, SelectedQueue, NextQueue
<1>3. \A i \in 1 .. Len(q) : q[i] \in Buffers
  BY <1>1, ElementOfSeq
<1>4. SubSeq(q, 1, tx_size) \in Seq(Buffers) /\ SubSeq(q, tx_size + 1, Len(q)) \in Seq(Buffers)
  <2>1. \A i \in 1 .. tx_size : q[i] \in Buffers
    BY <1>1, <1>3
  <2>2. \A i \in tx_size + 1 .. Len(q) : q[i] \in Buffers
    BY <1>1, <1>3
  <2>3. SubSeq(q, 1, tx_size) \in Seq(Buffers)
    BY <1>1, <2>1, SubSeqProperties
  <2>4. SubSeq(q, tx_size + 1, Len(q)) \in Seq(Buffers)
    BY <1>1, <2>2, SubSeqProperties
  <2> QED
    BY <2>3, <2>4
<1>5. tx_queue_' \in Seq(Buffers)
  BY <1>2, <1>4, ConcatProperties DEF IInv, Types
<1>6. queue' \in [Workers -> Seq(Buffers)]
  BY <1>1, <1>2, <1>4 DEF IInv, Types
<1>7. ws_queue_idx_' \in 0 .. WorkerNum - 1
  <2>1. \A n \in Nat \ {0} : \A i \in 0 .. n - 1 : (i + 1) % n \in 0 .. n - 1
    OBVIOUS
  <2> QED
    BY <1>2, <2>1, NodeFacts DEF IInv, Types
<1>8. remain_ring_size' \in Nat
  <2>1. remain_ring_size \in Nat
    BY DEF IInv, Types
  <2>2. CASE tx_size <= remain_ring_size
    <3>1. remain_ring_size' = remain_ring_size - tx_size
      BY <2>2 DEF CollectDequeue
    <3> QED
      BY <1>1, <2>1, <2>2, <3>1
  <2>3. CASE ~(tx_size <= remain_ring_size)
    <3>1. remain_ring_size' = RingSize + WorkerNum * QueueCap
      BY <2>3 DEF CollectDequeue, Underflow
    <3>2. RingSize \in Nat /\ WorkerNum \in Nat /\ QueueCap \in Nat
      BY NodeFacts, TxRingAssumption DEF IInv, Types
    <3>3. WorkerNum * QueueCap \in Nat
      BY <3>2
    <3> QED
      BY <3>1, <3>2, <3>3
  <2> QED
    BY <2>2, <2>3
<1>9. Types'
  BY <1>2, <1>5, <1>6, <1>7, <1>8 DEF IInv, Types, workerVars, ringVars, nicVars, WorkerNum, RingSize, Slots
<1>10. SizeHolds'
  BY <1>2 DEF SizeHolds
<1>11. Parts'
  BY <1>2, PartsStay DEF IInv, nicVars
<1> QED
  BY <1>9, <1>10, <1>11 DEF IInv

-----------------------------------------------------------------------------
(* Steps that change the ring *)

\* The oldest packet of the NIC becomes the youngest completion.
LEMMA CompleteSendKeeps == IInv /\ CompleteSend => IInv'
<1> SUFFICES ASSUME IInv, CompleteSend PROVE IInv'
  OBVIOUS
<1>1. /\ nicQueue # <<>> /\ nicQueue' = Tail(nicQueue) /\ sendCq' = sendCq + 1
      /\ UNCHANGED <<node, free_buf, hand, queue, collectVars, tx_queue_, ringVars>>
  BY DEF CompleteSend, workerVars
<1>2. /\ nicQueue \in Seq(Buffers) /\ Len(nicQueue) \in Nat \ {0}
      /\ Tail(nicQueue) \in Seq(Buffers) /\ Len(Tail(nicQueue)) = Len(nicQueue) - 1
      /\ \A k \in 1 .. Len(nicQueue) - 1 : Tail(nicQueue)[k] = nicQueue[k + 1]
      /\ nicQueue[1] \in Buffers
  BY <1>1, HeadTailProperties, LenProperties, ElementOfSeq DEF IInv, Types
<1>3. /\ sendCq \in Nat /\ free_send_wr_num_ \in Nat /\ RingSize \in Nat
  BY NodeFacts DEF IInv, Types
<1>4. Types'
  BY <1>1, <1>2, <1>3 DEF IInv, Types, collectVars, ringVars, WorkerNum, RingSize, Slots
<1>5. SizeHolds'
  BY <1>1 DEF IInv, SizeHolds, collectVars
<1>6. /\ RingSize' = RingSize /\ \A h, k : SlotFrom(h, k)' = SlotFrom(h, k)
      /\ UNCHANGED <<sw_ring_, send_head_, send_tail_, free_send_wr_num_>>
  BY <1>1 DEF RingSize, SlotFrom, ringVars
<1>7. sendCq' + Len(nicQueue') = sendCq + Len(nicQueue)
  BY <1>1, <1>2, <1>3
<1>8. \A k \in 1 .. Len(nicQueue') :
        sw_ring_[SlotFrom(send_head_, sendCq' + k - 1)] = nicQueue'[k]
  <2> SUFFICES ASSUME NEW k \in 1 .. Len(nicQueue')
               PROVE  sw_ring_[SlotFrom(send_head_, sendCq' + k - 1)] = nicQueue'[k]
    OBVIOUS
  <2>1. k + 1 \in 1 .. Len(nicQueue) /\ nicQueue'[k] = nicQueue[k + 1]
        /\ sendCq' + k - 1 = sendCq + (k + 1) - 1
    BY <1>1, <1>2, <1>3
  <2> QED
    BY <2>1 DEF IInv, Parts
<1>9. \A k \in 1 .. sendCq' : sw_ring_[SlotFrom(send_head_, k - 1)] \in Buffers
  <2> SUFFICES ASSUME NEW k \in 1 .. sendCq'
               PROVE  sw_ring_[SlotFrom(send_head_, k - 1)] \in Buffers
    OBVIOUS
  <2>1. CASE k = sendCq + 1
    <3>1. sendCq + 1 - 1 = k - 1 /\ 1 \in 1 .. Len(nicQueue)
      BY <1>2, <1>3, <2>1
    <3> QED
      BY <1>2, <3>1 DEF IInv, Parts
  <2>2. CASE k # sendCq + 1
    <3>1. k \in 1 .. sendCq
      BY <1>1, <1>3, <2>2
    <3> QED
      BY <3>1 DEF IInv, Parts
  <2> QED
    BY <2>1, <2>2
<1>10. Parts'
  BY <1>6, <1>7, <1>8, <1>9 DEF IInv, Parts
<1> QED
  BY <1>4, <1>5, <1>10 DEF IInv

\* Where a burst posts: n slots from send_tail_ on, behind the L the NIC has.
LEMMA MountedSlots ==
  ASSUME Types, NEW head \in Slots, NEW L \in Nat, NEW n \in Nat, L + n <= RingSize,
         send_tail_ = SlotFrom(head, L)
  PROVE  /\ \A k \in 1 .. L : Mounted(n)[SlotFrom(head, k - 1)] = sw_ring_[SlotFrom(head, k - 1)]
         /\ \A k \in 1 .. n : Mounted(n)[SlotFrom(head, L + k - 1)] = tx_queue_[k]
<1>1. node \in Nodes /\ RingSize \in Nat \ {0} /\ n <= RingSize /\ L <= RingSize
  BY NodeFacts DEF Types
<1>2. \A j \in 1 .. n : SlotFrom(send_tail_, j - 1) = SlotFrom(head, L + j - 1)
  <2> SUFFICES ASSUME NEW j \in 1 .. n
               PROVE  SlotFrom(send_tail_, j - 1) = SlotFrom(head, L + j - 1)
    OBVIOUS
  <2>1. j - 1 \in Nat /\ L + (j - 1) <= RingSize /\ L + (j - 1) = L + j - 1
    BY <1>1
  <2> QED
    BY <1>1, <2>1, SlotsOnward
<1>3. \A k \in 1 .. L, j \in 1 .. n : SlotFrom(head, k - 1) # SlotFrom(head, L + j - 1)
  <2> SUFFICES ASSUME NEW k \in 1 .. L, NEW j \in 1 .. n,
                      SlotFrom(head, k - 1) = SlotFrom(head, L + j - 1)
               PROVE  FALSE
    OBVIOUS
  <2>1. k - 1 \in 0 .. RingSize - 1 /\ L + j - 1 \in 0 .. RingSize - 1 /\ k - 1 # L + j - 1
    BY <1>1
  <2> QED
    BY <1>1, <2>1, SlotsDistinct
<1>4. \A j, k \in 1 .. n : SlotFrom(head, L + j - 1) = SlotFrom(head, L + k - 1) => j = k
  <2> SUFFICES ASSUME NEW j \in 1 .. n, NEW k \in 1 .. n,
                      SlotFrom(head, L + j - 1) = SlotFrom(head, L + k - 1)
               PROVE  j = k
    OBVIOUS
  <2>1. L + j - 1 \in 0 .. RingSize - 1 /\ L + k - 1 \in 0 .. RingSize - 1
    BY <1>1
  <2>2. L + j - 1 = L + k - 1
    BY <1>1, <2>1, SlotsDistinct
  <2> QED
    BY <2>2
<1>5. /\ \A k \in 1 .. L : SlotFrom(head, k - 1) \in Slots
      /\ \A k \in 1 .. n : SlotFrom(head, L + k - 1) \in Slots
  <2>1. ASSUME NEW k \in 1 .. L PROVE SlotFrom(head, k - 1) \in Slots
    <3>1. k - 1 \in 0 .. RingSize
      BY <1>1
    <3> QED
      BY <1>1, <3>1, SlotFolded
  <2>2. ASSUME NEW k \in 1 .. n PROVE SlotFrom(head, L + k - 1) \in Slots
    <3>1. L + k - 1 \in 0 .. RingSize
      BY <1>1
    <3> QED
      BY <1>1, <3>1, SlotFolded
  <2> QED
    BY <2>1, <2>2
<1>6. ASSUME NEW k \in 1 .. L
      PROVE  Mounted(n)[SlotFrom(head, k - 1)] = sw_ring_[SlotFrom(head, k - 1)]
  <2>1. ~ \E j \in 1 .. n : SlotFrom(head, k - 1) = SlotFrom(send_tail_, j - 1)
    BY <1>2, <1>3
  <2> QED
    BY <1>5, <2>1 DEF Mounted
<1>7. ASSUME NEW k \in 1 .. n PROVE Mounted(n)[SlotFrom(head, L + k - 1)] = tx_queue_[k]
  <2> DEFINE i == SlotFrom(head, L + k - 1)
  <2>1. /\ i = SlotFrom(send_tail_, k - 1)
        /\ \A j \in 1 .. n : i = SlotFrom(send_tail_, j - 1) => j = k
    BY <1>2, <1>4
  <2>2. (CHOOSE j \in 1 .. n : i = SlotFrom(send_tail_, j - 1)) = k
    BY <2>1
  <2>3. i \in Slots /\ \E j \in 1 .. n : i = SlotFrom(send_tail_, j - 1)
    BY <1>5, <2>1
  <2>4. Mounted(n)[i] = tx_queue_[CHOOSE j \in 1 .. n : i = SlotFrom(send_tail_, j - 1)]
    BY <2>3 DEF Mounted
  <2> QED
    BY <2>2, <2>4
<1> QED
  BY <1>6, <1>7

\* Posting puts packets of tx_queue_ into the ring, nothing else.
LEMMA MountedType ==
  ASSUME Types, NEW n \in 0 .. Len(tx_queue_)
  PROVE  Mounted(n) \in [Slots -> Buffers \union {0}]
<1>1. Len(tx_queue_) \in Nat /\ \A k \in 1 .. Len(tx_queue_) : tx_queue_[k] \in Buffers
  BY LenProperties, ElementOfSeq DEF Types
<1>2. \A k \in 1 .. n : tx_queue_[k] \in Buffers
  BY <1>1
<1> SUFFICES ASSUME NEW i \in Slots PROVE Mounted(n)[i] \in Buffers \union {0}
  BY DEF Mounted
<1>3. CASE \E k \in 1 .. n : i = SlotFrom(send_tail_, k - 1)
  <2>1. (CHOOSE k \in 1 .. n : i = SlotFrom(send_tail_, k - 1)) \in 1 .. n
    BY <1>3
  <2>2. Mounted(n)[i] = tx_queue_[CHOOSE k \in 1 .. n : i = SlotFrom(send_tail_, k - 1)]
    BY <1>3 DEF Mounted
  <2> QED
    BY <1>2, <2>1, <2>2
<1>4. CASE ~ \E k \in 1 .. n : i = SlotFrom(send_tail_, k - 1)
  <2>1. Mounted(n)[i] = sw_ring_[i]
    BY <1>4 DEF Mounted
  <2> QED
    BY <2>1 DEF Types
<1> QED
  BY <1>3, <1>4

\* A sequence cut in two.
LEMMA CutSequence ==
  ASSUME NEW S, NEW s \in Seq(S), NEW n \in 0 .. Len(s)
  PROVE  /\ SubSeq(s, 1, n) \in Seq(S) /\ Len(SubSeq(s, 1, n)) = n
         /\ \A k \in 1 .. n : SubSeq(s, 1, n)[k] = s[k]
         /\ SubSeq(s, n + 1, Len(s)) \in Seq(S)
<1>1. Len(s) \in Nat /\ \A i \in 1 .. Len(s) : s[i] \in S
  BY LenProperties, ElementOfSeq
<1>2. /\ \A i \in 1 .. n : s[i] \in S
      /\ \A i \in n + 1 .. Len(s) : s[i] \in S
  BY <1>1
<1>3. /\ SubSeq(s, 1, n) \in Seq(S)
      /\ Len(SubSeq(s, 1, n)) = IF 1 <= n THEN n - 1 + 1 ELSE 0
      /\ \A i \in 1 .. n - 1 + 1 : SubSeq(s, 1, n)[i] = s[1 + i - 1]
  BY <1>1, <1>2, SubSeqProperties
<1>4. SubSeq(s, n + 1, Len(s)) \in Seq(S)
  BY <1>1, <1>2, SubSeqProperties
<1> QED
  BY <1>1, <1>3, <1>4

\* A burst frees the first part of the ring and mounts on the last.
LEMMA TxBurstKeeps == IInv /\ TxBurst => IInv'
<1> SUFFICES ASSUME IInv, TxBurst PROVE IInv'
  OBVIOUS
<1> DEFINE free == free_send_wr_num_ + sendCq
           n == Lesser(free, Len(tx_queue_))
           head == SlotFrom(send_head_, sendCq)
           L == Len(nicQueue)
<1>1. /\ free_buf' = free_buf \union Elements(Reaped(sendCq))
      /\ send_head_' = head /\ sendCq' = sendCq - sendCq
      /\ sw_ring_' = Mounted(n) /\ send_tail_' = SlotFrom(send_tail_, n)
      /\ free_send_wr_num_' = free - n
      /\ nicQueue' = nicQueue \o SubSeq(tx_queue_, 1, n)
      /\ tx_queue_' = SubSeq(tx_queue_, n + 1, Len(tx_queue_))
      /\ UNCHANGED <<node, workerVars, queue, collectVars>>
  BY DEF TxBurst, Polled
<1>2. /\ node \in Nodes /\ RingSize \in Nat \ {0}
      /\ sendCq \in Nat /\ free_send_wr_num_ \in Nat /\ L \in Nat /\ Len(tx_queue_) \in Nat
      /\ sendCq + L + free_send_wr_num_ = RingSize
  BY NodeFacts, LenProperties DEF IInv, Types, Parts
<1>3. /\ n \in 0 .. Len(tx_queue_) /\ n \in Nat /\ n <= free /\ L + n <= RingSize
  BY <1>2 DEF Lesser
<1>4. head \in Slots /\ send_tail_ = SlotFrom(head, L)
  <2>1. sendCq \in 0 .. RingSize /\ sendCq + L <= RingSize /\ send_head_ \in Slots
    BY <1>2 DEF IInv, Types
  <2>2. SlotFrom(head, L) = SlotFrom(send_head_, sendCq + L)
    BY <1>2, <2>1, SlotsOnward
  <2> QED
    BY <1>2, <2>1, <2>2, SlotFolded DEF IInv, Parts
<1>5. send_tail_' = SlotFrom(head, L + n) /\ send_tail_' \in Slots
  <2>1. n \in 0 .. RingSize /\ send_tail_ \in Slots
    BY <1>2, <1>3 DEF IInv, Types
  <2>2. SlotFrom(SlotFrom(head, L), n) = SlotFrom(head, L + n)
    BY <1>2, <1>3, <1>4, SlotsOnward
  <2>3. SlotFrom(send_tail_, n) \in Slots
    BY <1>2, <2>1, SlotFolded
  <2> QED
    BY <1>1, <1>4, <2>2, <2>3
<1>6. /\ SubSeq(tx_queue_, 1, n) \in Seq(Buffers) /\ Len(SubSeq(tx_queue_, 1, n)) = n
      /\ \A k \in 1 .. n : SubSeq(tx_queue_, 1, n)[k] = tx_queue_[k]
      /\ tx_queue_' \in Seq(Buffers)
  BY <1>1, <1>3, CutSequence DEF IInv, Types
<1>7. /\ nicQueue' \in Seq(Buffers) /\ Len(nicQueue') = L + n
      /\ \A k \in 1 .. L + n :
           nicQueue'[k] = IF k <= L THEN nicQueue[k] ELSE SubSeq(tx_queue_, 1, n)[k - L]
  <2> DEFINE posted == SubSeq(tx_queue_, 1, n)
  <2>1. nicQueue \in Seq(Buffers) /\ posted \in Seq(Buffers) /\ Len(posted) = n
    BY <1>6 DEF IInv, Types
  <2>2. /\ nicQueue \o posted \in Seq(Buffers)
        /\ Len(nicQueue \o posted) = L + Len(posted)
        /\ \A k \in 1 .. L + Len(posted) :
             (nicQueue \o posted)[k] = IF k <= L THEN nicQueue[k] ELSE posted[k - L]
    BY <2>1, ConcatProperties
  <2>3. nicQueue' = nicQueue \o posted
    BY <1>1
  <2> HIDE DEF posted, n, L
  <2>4. /\ nicQueue' \in Seq(Buffers) /\ Len(nicQueue') = L + n
        /\ \A k \in 1 .. L + n : nicQueue'[k] = IF k <= L THEN nicQueue[k] ELSE posted[k - L]
    BY <2>1, <2>2, <2>3
  <2> QED
    BY <2>4 DEF posted
<1>8. /\ RingSize' = RingSize /\ WorkerNum' = WorkerNum /\ Slots' = Slots
      /\ \A h, k : SlotFrom(h, k)' = SlotFrom(h, k)
  BY <1>1 DEF RingSize, WorkerNum, Slots, SlotFrom
<1>9. sendCq' = 0 /\ free_send_wr_num_' \in Nat /\ L + n + free_send_wr_num_' = RingSize
  BY <1>1, <1>2, <1>3
<1>10. Types'
  <2>1. free_buf' \subseteq Buffers
    <3>1. Elements(Reaped(sendCq)) \subseteq Buffers
      BY DEF Elements, Reaped, IInv, Parts
    <3> QED
      BY <1>1, <3>1 DEF IInv, Types
  <2>2. sw_ring_' \in [Slots -> Buffers \union {0}]
    BY <1>1, <1>3, MountedType DEF IInv
  <2>3. UNCHANGED <<node, hand, queue, collecting, remain_ring_size, tx_size, ws_queue_idx_>>
    BY <1>1 DEF workerVars, collectVars
  <2>4. /\ node' \in Nodes /\ ws_queue_idx_' \in 0 .. WorkerNum' - 1
        /\ hand' \in [Workers -> Seq(Buffers)] /\ queue' \in [Workers -> Seq(Buffers)]
        /\ collecting' \in {"no", "next", "compared", "sized"}
        /\ remain_ring_size' \in Nat /\ tx_size' \in Nat
    BY <1>2, <1>8, <2>3 DEF IInv, Types
  <2>5. /\ send_head_' \in Slots' /\ send_tail_' \in Slots'
        /\ sw_ring_' \in [Slots' -> Buffers \union {0}]
        /\ free_send_wr_num_' \in Nat /\ sendCq' \in Nat
    BY <1>1, <1>4, <1>5, <1>8, <1>9, <2>2
  <2> QED
    BY <1>6, <1>7, <2>1, <2>4, <2>5 DEF Types
<1>11. SizeHolds'
  BY <1>1 DEF IInv, SizeHolds, collectVars
<1>12. \A k \in 1 .. L + n : sw_ring_'[SlotFrom(head, k - 1)] = nicQueue'[k]
  <2> SUFFICES ASSUME NEW k \in 1 .. L + n
               PROVE  sw_ring_'[SlotFrom(head, k - 1)] = nicQueue'[k]
    OBVIOUS
  <2>0. /\ \A i \in 1 .. L : Mounted(n)[SlotFrom(head, i - 1)] = sw_ring_[SlotFrom(head, i - 1)]
        /\ \A i \in 1 .. n : Mounted(n)[SlotFrom(head, L + i - 1)] = tx_queue_[i]
    BY <1>2, <1>3, <1>4, MountedSlots DEF IInv
  <2>1. CASE k <= L
    <3>1. k \in 1 .. L /\ k - 1 \in Nat /\ sendCq + (k - 1) <= RingSize
          /\ sendCq + (k - 1) = sendCq + k - 1
      BY <1>2, <2>1
    <3>2. SlotFrom(head, k - 1) = SlotFrom(send_head_, sendCq + k - 1)
      BY <1>2, <3>1, SlotsOnward DEF IInv, Types
    <3>3. sw_ring_[SlotFrom(send_head_, sendCq + k - 1)] = nicQueue[k]
      BY <3>1 DEF IInv, Parts
    <3> QED
      BY <1>1, <1>7, <2>0, <2>1, <3>1, <3>2, <3>3
  <2>2. CASE k > L
    <3>1. k - L \in 1 .. n /\ L + (k - L) - 1 = k - 1
      BY <1>2, <1>3, <2>2
    <3>2. Mounted(n)[SlotFrom(head, k - 1)] = tx_queue_[k - L]
      BY <2>0, <3>1
    <3>3. nicQueue'[k] = tx_queue_[k - L]
      BY <1>2, <1>6, <1>7, <2>2, <3>1
    <3> QED
      BY <1>1, <3>2, <3>3
  <2> QED
    BY <1>2, <2>1, <2>2
<1>13. Parts'
  <2>1. sendCq' + Len(nicQueue') = L + n
    BY <1>2, <1>3, <1>7, <1>9
  <2>2. \A k \in 1 .. Len(nicQueue') : sendCq' + k - 1 = k - 1
    BY <1>9, <1>2, <1>3, <1>7
  <2>3. send_tail_' = SlotFrom(send_head_', sendCq' + Len(nicQueue'))
    BY <1>1, <1>5, <2>1
  <2>4. \A k \in 1 .. Len(nicQueue') :
          sw_ring_'[SlotFrom(send_head_', sendCq' + k - 1)] = nicQueue'[k]
    BY <1>1, <1>7, <1>12, <2>2
  <2>5. 1 .. sendCq' = {}
    BY <1>9
  <2> QED
    BY <1>8, <1>9, <2>1, <2>3, <2>4, <2>5 DEF Parts
<1> QED
  BY <1>10, <1>11, <1>13 DEF IInv

-----------------------------------------------------------------------------
(* What the ring knows *)

\* Every step keeps the invariant.
LEMMA StepIInv == IInv /\ [Next]_vars => IInv'
<1> SUFFICES ASSUME IInv, [Next]_vars PROVE IInv'
  OBVIOUS
<1>1. ASSUME NEW w \in Workers, ApplyMbufs(w) PROVE IInv'
  BY <1>1, ApplyMbufsKeeps
<1>2. ASSUME NEW w \in Workers, EnqueuePkt(w) PROVE IInv'
  BY <1>2, EnqueuePktKeeps
<1>3. ASSUME NEW w \in Workers, DropPkt(w) PROVE IInv'
  BY <1>3, DropPktKeeps
<1>4. ASSUME NEW w \in Workers, ReturnBudget(w) PROVE IInv'
  BY <1>4, ReturnBudgetKeeps
<1>5. CASE CollectBegin \/ CollectCompare \/ CollectReread \/ CollectEnd
  BY <1>5, CollectReadsKeep
<1>6. CASE CollectDequeue
  BY <1>6, CollectDequeueKeeps
<1>7. CASE TxBurst
  BY <1>7, TxBurstKeeps
<1>8. CASE CompleteSend
  BY <1>8, CompleteSendKeeps
<1>9. CASE UNCHANGED vars
  <2>1. UNCHANGED <<node, free_buf, hand, queue, collectVars, tx_queue_, ringVars, nicQueue, sendCq>>
    BY <1>9 DEF vars, workerVars, nicVars
  <2>2. Types'
    BY <2>1 DEF IInv, Types, collectVars, ringVars, WorkerNum, RingSize, Slots
  <2>3. SizeHolds'
    BY <2>1 DEF IInv, SizeHolds, collectVars
  <2>4. Parts'
    BY <2>1, PartsStay DEF IInv
  <2> QED
    BY <2>2, <2>3, <2>4 DEF IInv
<1> QED
  BY <1>1, <1>2, <1>3, <1>4, <1>5, <1>6, <1>7, <1>8, <1>9 DEF Next

\* The three parts of the ring stay what they are.
LEMMA Invariance == Spec => []IInv
BY InitIInv, StepIInv, PTL DEF Spec

\* The part of the NIC, read out of the ring, is what the NIC has.
LEMMA ISendRingAgrees == IInv => SendRingAgrees
<1> SUFFICES ASSUME IInv PROVE SendRingAgrees
  OBVIOUS
<1> DEFINE L == Len(nicQueue)
           n == sendCq + L
           Entry == [k \in 1 .. n |-> sw_ring_[SlotFrom(send_head_, k - 1)]]
<1>1. /\ node \in Nodes /\ RingSize \in Nat \ {0}
      /\ sendCq \in Nat /\ free_send_wr_num_ \in Nat /\ L \in Nat
      /\ n + free_send_wr_num_ = RingSize /\ n \in Nat
  BY NodeFacts, LenProperties DEF IInv, Types, Parts
<1>2. RingSize - free_send_wr_num_ = n
  BY <1>1
<1>3. InSendRing = Entry
  BY <1>2 DEF InSendRing, Reaped
<1>4. \A k \in 1 .. n : Entry[k] \in Buffers \union {0}
  <2> SUFFICES ASSUME NEW k \in 1 .. n PROVE Entry[k] \in Buffers \union {0}
    OBVIOUS
  <2>1. k - 1 \in 0 .. RingSize
    BY <1>1
  <2> QED
    BY <1>1, <2>1, SlotFolded DEF IInv, Types
<1>5. Entry \in Seq(Buffers \union {0}) /\ Len(Entry) = n
  <2>1. Entry \in [1 .. n -> Buffers \union {0}]
    BY <1>4
  <2> QED
    BY <1>1, <2>1
<1>6. SubSeq(Entry, sendCq + 1, n) = nicQueue
  <2>1. \A i \in sendCq + 1 .. n : Entry[i] \in Buffers \union {0}
    BY <1>1, <1>4
  <2>2. sendCq + 1 \in Int /\ n \in Int
    BY <1>1
  <2> HIDE DEF Entry, n
  <2>3. /\ SubSeq(Entry, sendCq + 1, n) \in Seq(Buffers \union {0})
        /\ Len(SubSeq(Entry, sendCq + 1, n))
             = IF sendCq + 1 <= n THEN n - (sendCq + 1) + 1 ELSE 0
        /\ \A i \in 1 .. n - (sendCq + 1) + 1 :
             SubSeq(Entry, sendCq + 1, n)[i] = Entry[sendCq + 1 + i - 1]
    BY <2>1, <2>2, SubSeqProperties
  <2>4. /\ Len(SubSeq(Entry, sendCq + 1, n)) = L
        /\ \A i \in 1 .. L : SubSeq(Entry, sendCq + 1, n)[i] = Entry[sendCq + i]
    <3>1. n = sendCq + L
      BY DEF n
    <3>2. n - (sendCq + 1) + 1 = L /\ (sendCq + 1 <= n <=> L # 0)
      BY <1>1, <3>1
    <3>3. \A i \in 1 .. L : sendCq + 1 + i - 1 = sendCq + i
      BY <1>1
    <3>4. Len(SubSeq(Entry, sendCq + 1, n)) = L
      BY <2>3, <3>2
    <3> QED
      BY <2>3, <3>2, <3>3, <3>4
  <2>5. \A i \in 1 .. L : Entry[sendCq + i] = nicQueue[i]
    <3> SUFFICES ASSUME NEW i \in 1 .. L PROVE Entry[sendCq + i] = nicQueue[i]
      OBVIOUS
    <3>1. sendCq + i \in 1 .. n
      BY <1>1 DEF n
    <3>2. \A k \in 1 .. n : Entry[k] = sw_ring_[SlotFrom(send_head_, k - 1)]
      BY DEF Entry
    <3>3. Entry[sendCq + i] = sw_ring_[SlotFrom(send_head_, sendCq + i - 1)]
      BY <1>1, <3>1, <3>2
    <3> QED
      BY <3>3 DEF IInv, Parts
  <2>6. nicQueue \in Seq(Buffers \union {0})
    <3>1. Seq(Buffers) \subseteq Seq(Buffers \union {0})
      OBVIOUS
    <3> QED
      BY <3>1 DEF IInv, Types
  <2> QED
    BY <2>3, <2>4, <2>5, <2>6, SeqEqual
<1>7. SlotFrom(send_head_, n) = send_tail_
  BY DEF IInv, Parts
<1>8. Len(nicQueue) + sendCq = RingSize - free_send_wr_num_
  BY <1>1
<1> QED
  BY <1>3, <1>5, <1>6, <1>7, <1>8 DEF SendRingAgrees

\* sw_ring_ and the NIC agree on what is where, for any ring and any order of
\* posting, sending and polling: a completion frees the buffer that was sent.
THEOREM SendRingAgreesAlways == Spec => []SendRingAgrees
BY Invariance, ISendRingAgrees, PTL

-----------------------------------------------------------------------------
(* Sequences that share no element *)

\* Two sequences in a row.
LEMMA JoinElements ==
  ASSUME NEW S, NEW s \in Seq(S), NEW t \in Seq(S)
  PROVE  /\ s \o t \in Seq(S)
         /\ Elements(s \o t) = Elements(s) \union Elements(t)
         /\ IsInjective(s \o t)
              <=> IsInjective(s) /\ IsInjective(t) /\ Elements(s) \intersect Elements(t) = {}
<1>1. /\ s \o t \in Seq(S) /\ Len(s \o t) = Len(s) + Len(t)
      /\ \A i \in 1 .. Len(s) + Len(t) :
           (s \o t)[i] = IF i <= Len(s) THEN s[i] ELSE t[i - Len(s)]
  BY ConcatProperties
<1>2. /\ Len(s) \in Nat /\ Len(t) \in Nat /\ DOMAIN (s \o t) = 1 .. Len(s) + Len(t)
      /\ DOMAIN s = 1 .. Len(s) /\ DOMAIN t = 1 .. Len(t)
  BY <1>1, LenProperties
<1>3. \A i \in DOMAIN (s \o t) :
        \/ i \in DOMAIN s /\ (s \o t)[i] = s[i]
        \/ i - Len(s) \in DOMAIN t /\ (s \o t)[i] = t[i - Len(s)] /\ i \notin DOMAIN s
  BY <1>1, <1>2
<1>4. \A i \in DOMAIN s : i \in DOMAIN (s \o t) /\ (s \o t)[i] = s[i]
  BY <1>1, <1>2
<1>5. \A i \in DOMAIN t :
        i + Len(s) \in DOMAIN (s \o t) /\ (s \o t)[i + Len(s)] = t[i] /\ i + Len(s) \notin DOMAIN s
  BY <1>1, <1>2
<1>6. Elements(s \o t) = Elements(s) \union Elements(t)
  <2>1. \A i \in DOMAIN (s \o t) : (s \o t)[i] \in Elements(s) \union Elements(t)
    BY <1>3 DEF Elements
  <2>2. \A i \in DOMAIN s : s[i] \in Elements(s \o t)
    BY <1>4 DEF Elements
  <2>3. \A i \in DOMAIN t : t[i] \in Elements(s \o t)
    BY <1>5 DEF Elements
  <2> QED
    BY <2>1, <2>2, <2>3 DEF Elements
<1>7. ASSUME IsInjective(s), IsInjective(t), Elements(s) \intersect Elements(t) = {}
      PROVE  IsInjective(s \o t)
  <2> SUFFICES ASSUME NEW i \in DOMAIN (s \o t), NEW j \in DOMAIN (s \o t),
                      (s \o t)[i] = (s \o t)[j]
               PROVE  i = j
    BY DEF IsInjective
  <2>1. i \in Nat /\ j \in Nat
    BY <1>2
  <2>2. CASE i \in DOMAIN s /\ j \in DOMAIN s
    BY <2>2, <1>4, <1>7 DEF IsInjective
  <2>3. CASE i \notin DOMAIN s /\ j \notin DOMAIN s
    <3>1. i - Len(s) = j - Len(s)
      BY <2>3, <1>3, <1>7 DEF IsInjective
    <3> QED
      BY <3>1, <2>1, <1>2
  <2>4. CASE i \in DOMAIN s /\ j \notin DOMAIN s
    BY <2>4, <1>3, <1>7 DEF Elements
  <2>5. CASE i \notin DOMAIN s /\ j \in DOMAIN s
    BY <2>5, <1>3, <1>7 DEF Elements
  <2> QED
    BY <2>2, <2>3, <2>4, <2>5
<1>8. ASSUME IsInjective(s \o t)
      PROVE  IsInjective(s) /\ IsInjective(t) /\ Elements(s) \intersect Elements(t) = {}
  <2>1. IsInjective(s)
    BY <1>4, <1>8 DEF IsInjective
  <2>2. IsInjective(t)
    <3> SUFFICES ASSUME NEW i \in DOMAIN t, NEW j \in DOMAIN t, t[i] = t[j] PROVE i = j
      BY DEF IsInjective
    <3>1. i + Len(s) = j + Len(s)
      BY <1>5, <1>8 DEF IsInjective
    <3> QED
      BY <3>1, <1>2
  <2>3. \A i \in DOMAIN s, j \in DOMAIN t : s[i] # t[j]
    BY <1>4, <1>5, <1>8 DEF IsInjective
  <2> QED
    BY <2>1, <2>2, <2>3 DEF Elements
<1> QED
  BY <1>1, <1>6, <1>7, <1>8

\* A sequence is what was taken from its front, and the rest.
LEMMA CutAndJoined ==
  ASSUME NEW S, NEW s \in Seq(S), NEW n \in 0 .. Len(s)
  PROVE  s = SubSeq(s, 1, n) \o SubSeq(s, n + 1, Len(s))
<1> DEFINE front == SubSeq(s, 1, n)
           rest == SubSeq(s, n + 1, Len(s))
<1>1. Len(s) \in Nat /\ \A i \in 1 .. Len(s) : s[i] \in S
  BY LenProperties, ElementOfSeq
<1>2. /\ front \in Seq(S) /\ Len(front) = n /\ rest \in Seq(S)
      /\ \A k \in 1 .. n : front[k] = s[k]
  BY CutSequence
<1>3. Len(rest) = Len(s) - n /\ \A k \in 1 .. Len(s) - n : rest[k] = s[n + k]
  <2>1. \A i \in n + 1 .. Len(s) : s[i] \in S
    BY <1>1
  <2>2. /\ Len(rest) = IF n + 1 <= Len(s) THEN Len(s) - (n + 1) + 1 ELSE 0
        /\ \A i \in 1 .. Len(s) - (n + 1) + 1 : rest[i] = s[n + 1 + i - 1]
    BY <1>1, <2>1, SubSeqProperties
  <2> HIDE DEF rest
  <2>3. Len(rest) = Len(s) - n
    BY <1>1, <2>2
  <2>4. \A k \in 1 .. Len(s) - n : k \in 1 .. Len(s) - (n + 1) + 1 /\ n + 1 + k - 1 = n + k
    BY <1>1
  <2> QED
    BY <2>2, <2>3, <2>4
<1> HIDE DEF front, rest
<1>4. /\ front \o rest \in Seq(S) /\ Len(front \o rest) = n + (Len(s) - n)
      /\ \A i \in 1 .. n + (Len(s) - n) :
           (front \o rest)[i] = IF i <= n THEN front[i] ELSE rest[i - n]
  <2>1. rest \in Seq(S) /\ front \in Seq(S) /\ Len(front) = n /\ Len(rest) = Len(s) - n
    BY <1>2, <1>3
  <2>2. /\ front \o rest \in Seq(S) /\ Len(front \o rest) = Len(front) + Len(rest)
        /\ \A i \in 1 .. Len(front) + Len(rest) :
             (front \o rest)[i] = IF i <= Len(front) THEN front[i] ELSE rest[i - Len(front)]
    BY <2>1, ConcatProperties
  <2> QED
    BY <2>1, <2>2
<1>5. Len(front \o rest) = Len(s)
  BY <1>1, <1>4
<1>6. \A i \in 1 .. Len(s) : (front \o rest)[i] = s[i]
  <2> SUFFICES ASSUME NEW i \in 1 .. Len(s) PROVE (front \o rest)[i] = s[i]
    OBVIOUS
  <2>1. CASE i <= n
    <3>1. i \in 1 .. n /\ i \in 1 .. n + (Len(s) - n)
      BY <2>1, <1>1
    <3>2. (front \o rest)[i] = front[i]
      BY <2>1, <3>1, <1>4
    <3> QED
      BY <3>1, <3>2, <1>2
  <2>2. CASE i > n
    <3>1. i - n \in 1 .. Len(s) - n /\ n + (i - n) = i /\ ~(i <= n)
          /\ i \in 1 .. n + (Len(s) - n)
      BY <2>2, <1>1
    <3>2. (front \o rest)[i] = rest[i - n]
      BY <3>1, <1>4
    <3> QED
      BY <3>1, <3>2, <1>3
  <2>3. i <= n \/ i > n
    BY <1>1
  <2> QED
    BY <2>1, <2>2, <2>3
<1>7. front \o rest = s
  BY <1>4, <1>5, <1>6, SeqEqual
<1> QED
  BY <1>7 DEF front, rest

\* The case of one element, as Head, Tail and Append have it.
LEMMA HeadAndTailJoined ==
  ASSUME NEW S, NEW s \in Seq(S), s # <<>>, NEW t \in Seq(S)
  PROVE  /\ <<Head(s)>> \in Seq(S) /\ Tail(s) \in Seq(S)
         /\ s = <<Head(s)>> \o Tail(s)
         /\ Append(t, Head(s)) = t \o <<Head(s)>>
<1>1. /\ Tail(s) \in Seq(S) /\ Head(s) \in S /\ Len(Tail(s)) = Len(s) - 1
      /\ \A i \in 1 .. Len(Tail(s)) : Tail(s)[i] = s[i + 1]
      /\ Head(s) = s[1] /\ Len(s) \in Nat \ {0}
  BY HeadTailProperties, LenProperties
<1>2. <<Head(s)>> \in Seq(S) /\ Len(<<Head(s)>>) = 1 /\ <<Head(s)>>[1] = Head(s)
  BY <1>1
<1>3. s = <<Head(s)>> \o Tail(s)
  <2>1. /\ <<Head(s)>> \o Tail(s) \in Seq(S) /\ Len(<<Head(s)>> \o Tail(s)) = 1 + (Len(s) - 1)
        /\ \A i \in 1 .. 1 + (Len(s) - 1) :
             (<<Head(s)>> \o Tail(s))[i] = IF i <= 1 THEN <<Head(s)>>[i] ELSE Tail(s)[i - 1]
    BY <1>1, <1>2, ConcatProperties
  <2>2. \A i \in 1 .. Len(s) : (<<Head(s)>> \o Tail(s))[i] = s[i]
    <3> SUFFICES ASSUME NEW i \in 1 .. Len(s) PROVE (<<Head(s)>> \o Tail(s))[i] = s[i]
      OBVIOUS
    <3>1. CASE i = 1
      BY <3>1, <2>1, <1>1, <1>2
    <3>2. CASE i # 1
      <4>1. i - 1 \in 1 .. Len(Tail(s)) /\ (i - 1) + 1 = i /\ ~(i <= 1)
            /\ i \in 1 .. 1 + (Len(s) - 1)
        BY <3>2, <1>1
      <4> QED
        BY <4>1, <2>1, <1>1
    <3> QED
      BY <3>1, <3>2
  <2>3. Len(<<Head(s)>> \o Tail(s)) = Len(s)
    BY <2>1, <1>1
  <2> QED
    BY <2>1, <2>2, <2>3, SeqEqual
<1>4. Append(t, Head(s)) = t \o <<Head(s)>>
  BY <1>1, <1>2, AppendIsConcat
<1> QED
  BY <1>1, <1>2, <1>3, <1>4

\* What Tail leaves behind.
LEMMA HeadElements ==
  ASSUME NEW S, NEW s \in Seq(S), s # <<>>, IsInjective(s)
  PROVE  /\ Head(s) \in S /\ Elements(s) = {Head(s)} \union Elements(Tail(s))
         /\ Head(s) \notin Elements(Tail(s))
<1> DEFINE first == <<Head(s)>>
           rest == Tail(s)
<1>1. first \in Seq(S) /\ rest \in Seq(S) /\ s = first \o rest
  BY HeadAndTailJoined
<1>2. Elements(first) = {Head(s)}
  BY DEF Elements
<1>3. Head(s) \in S
  BY HeadTailProperties
<1> HIDE DEF first, rest
<1>4. /\ Elements(s) = Elements(first) \union Elements(rest)
      /\ Elements(first) \intersect Elements(rest) = {}
  BY <1>1, JoinElements
<1>5. Elements(s) = {Head(s)} \union Elements(rest) /\ Head(s) \notin Elements(rest)
  BY <1>2, <1>4
<1> QED
  BY <1>3, <1>5 DEF rest

-----------------------------------------------------------------------------
(* Holders: a function F of sequences that share out what is not out *)

Contents == [Holders -> Seq(Buffers)]

Apart(F, out, all) ==
  /\ \A h \in DOMAIN F : IsInjective(F[h]) /\ Elements(F[h]) \intersect out = {}
  /\ \A g, h \in DOMAIN F : g # h => Elements(F[g]) \intersect Elements(F[h]) = {}
  /\ out \union UNION {Elements(F[h]) : h \in DOMAIN F} = all

\* The front of one is put behind another.
LEMMA Moves ==
  ASSUME NEW F \in Contents, NEW G \in Contents, NEW out,
         NEW x \in Holders, NEW y \in Holders, x # y, NEW moved \in Seq(Buffers),
         F[x] = moved \o G[x], G[y] = F[y] \o moved,
         \A h \in Holders \ {x, y} : G[h] = F[h],
         NEW all, Apart(F, out, all)
  PROVE  Apart(G, out, all)
<1>1. /\ Elements(F[x]) = Elements(moved) \union Elements(G[x])
      /\ IsInjective(F[x]) <=> /\ IsInjective(moved) /\ IsInjective(G[x])
                               /\ Elements(moved) \intersect Elements(G[x]) = {}
  BY JoinElements DEF Contents
<1>2. /\ Elements(G[y]) = Elements(F[y]) \union Elements(moved)
      /\ IsInjective(G[y]) <=> /\ IsInjective(F[y]) /\ IsInjective(moved)
                               /\ Elements(F[y]) \intersect Elements(moved) = {}
  BY JoinElements DEF Contents
<1>3. DOMAIN F = Holders /\ DOMAIN G = Holders
  BY DEF Contents
<1>4. /\ \A h \in Holders : IsInjective(F[h]) /\ Elements(F[h]) \intersect out = {}
      /\ \A g, h \in Holders : g # h => Elements(F[g]) \intersect Elements(F[h]) = {}
      /\ out \union UNION {Elements(F[h]) : h \in Holders} = all
  BY <1>3 DEF Apart
<1>5. \A h \in Holders : IsInjective(G[h]) /\ Elements(G[h]) \intersect out = {}
  BY <1>1, <1>2, <1>4
<1>6. ASSUME NEW g \in Holders, NEW h \in Holders, g # h
      PROVE  Elements(G[g]) \intersect Elements(G[h]) = {}
  <2>1. \A k \in Holders \ {x, y} :
          /\ Elements(G[k]) \intersect Elements(G[x]) = {}
          /\ Elements(G[k]) \intersect Elements(G[y]) = {}
    BY <1>1, <1>2, <1>4
  <2>2. Elements(G[x]) \intersect Elements(G[y]) = {}
    BY <1>1, <1>2, <1>4
  <2>3. \A k, l \in Holders \ {x, y} : k # l => Elements(G[k]) \intersect Elements(G[l]) = {}
    BY <1>4
  <2>4. CASE (g = x /\ h = y) \/ (g = y /\ h = x)
    BY <2>2, <2>4
  <2>5. CASE g \in {x, y} /\ h \notin {x, y}
    BY <2>1, <2>5
  <2>6. CASE g \notin {x, y} /\ h \in {x, y}
    BY <2>1, <2>6
  <2>7. CASE g \notin {x, y} /\ h \notin {x, y}
    BY <2>3, <2>7, <1>6
  <2>8. \/ (g = x /\ h = y) \/ (g = y /\ h = x)
        \/ g \in {x, y} /\ h \notin {x, y}
        \/ g \notin {x, y} /\ h \in {x, y}
        \/ g \notin {x, y} /\ h \notin {x, y}
    BY <1>6
  <2> QED
    BY <2>4, <2>5, <2>6, <2>7, <2>8
<1>7. UNION {Elements(G[h]) : h \in Holders} = UNION {Elements(F[h]) : h \in Holders}
  <2>1. ASSUME NEW h \in Holders, NEW b \in Elements(G[h])
        PROVE  \E g \in Holders : b \in Elements(F[g])
    BY <1>1, <1>2, <2>1
  <2>2. ASSUME NEW h \in Holders, NEW b \in Elements(F[h])
        PROVE  \E g \in Holders : b \in Elements(G[g])
    BY <1>1, <1>2, <2>2
  <2>3. UNION {Elements(G[h]) : h \in Holders} \subseteq UNION {Elements(F[h]) : h \in Holders}
    <3> SUFFICES ASSUME NEW h \in Holders, NEW b \in Elements(G[h])
                 PROVE  b \in UNION {Elements(F[g]) : g \in Holders}
      OBVIOUS
    <3>1. PICK g \in Holders : b \in Elements(F[g])
      BY <2>1
    <3> QED
      BY <3>1
  <2>4. UNION {Elements(F[h]) : h \in Holders} \subseteq UNION {Elements(G[h]) : h \in Holders}
    <3> SUFFICES ASSUME NEW h \in Holders, NEW b \in Elements(F[h])
                 PROVE  b \in UNION {Elements(G[g]) : g \in Holders}
      OBVIOUS
    <3>1. PICK g \in Holders : b \in Elements(G[g])
      BY <2>2
    <3> QED
      BY <3>1
  <2> QED
    BY <2>3, <2>4
<1> QED
  BY <1>3, <1>4, <1>5, <1>6, <1>7 DEF Apart

\* The front of one is put out.
LEMMA Leaves ==
  ASSUME NEW F \in Contents, NEW G \in Contents, NEW out,
         NEW x \in Holders, NEW moved \in Seq(Buffers),
         F[x] = moved \o G[x],
         \A h \in Holders \ {x} : G[h] = F[h],
         NEW all, Apart(F, out, all)
  PROVE  /\ Apart(G, out \union Elements(moved), all)
         /\ Elements(moved) \intersect out = {}
<1>1. /\ Elements(F[x]) = Elements(moved) \union Elements(G[x])
      /\ IsInjective(F[x]) <=> /\ IsInjective(moved) /\ IsInjective(G[x])
                               /\ Elements(moved) \intersect Elements(G[x]) = {}
  BY JoinElements DEF Contents
<1>2. DOMAIN F = Holders /\ DOMAIN G = Holders
  BY DEF Contents
<1>3. /\ \A h \in Holders : IsInjective(F[h]) /\ Elements(F[h]) \intersect out = {}
      /\ \A g, h \in Holders : g # h => Elements(F[g]) \intersect Elements(F[h]) = {}
      /\ out \union UNION {Elements(F[h]) : h \in Holders} = all
  BY <1>2 DEF Apart
<1>4. \A h \in Holders : IsInjective(G[h]) /\ Elements(G[h]) \intersect (out \union Elements(moved)) = {}
  BY <1>1, <1>3
<1>5. \A g, h \in Holders : g # h => Elements(G[g]) \intersect Elements(G[h]) = {}
  BY <1>1, <1>3
<1>6. out \union Elements(moved) \union UNION {Elements(G[h]) : h \in Holders}
        = out \union UNION {Elements(F[h]) : h \in Holders}
  <2>1. ASSUME NEW h \in Holders, NEW b \in Elements(G[h])
        PROVE  \E g \in Holders : b \in Elements(F[g])
    BY <1>1, <2>1
  <2>2. ASSUME NEW h \in Holders, NEW b \in Elements(F[h])
        PROVE  b \in Elements(moved) \/ \E g \in Holders : b \in Elements(G[g])
    BY <1>1, <2>2
  <2>3. Elements(moved) \subseteq UNION {Elements(F[h]) : h \in Holders}
    BY <1>1
  <2>4. UNION {Elements(G[h]) : h \in Holders} \subseteq UNION {Elements(F[h]) : h \in Holders}
    BY <2>1
  <2>5. UNION {Elements(F[h]) : h \in Holders}
          \subseteq Elements(moved) \union UNION {Elements(G[h]) : h \in Holders}
    BY <2>2
  <2> QED
    BY <2>3, <2>4, <2>5
<1> QED
  BY <1>1, <1>2, <1>3, <1>4, <1>5, <1>6 DEF Apart

\* An empty one is filled from outside.
LEMMA Enters ==
  ASSUME NEW F \in Contents, NEW G \in Contents, NEW out,
         NEW x \in Holders,
         Elements(F[x]) = {}, IsInjective(G[x]), Elements(G[x]) \subseteq out,
         \A h \in Holders \ {x} : G[h] = F[h],
         NEW all, Apart(F, out, all)
  PROVE  Apart(G, out \ Elements(G[x]), all)
<1>1. DOMAIN F = Holders /\ DOMAIN G = Holders
  BY DEF Contents
<1>2. /\ \A h \in Holders : IsInjective(F[h]) /\ Elements(F[h]) \intersect out = {}
      /\ \A g, h \in Holders : g # h => Elements(F[g]) \intersect Elements(F[h]) = {}
      /\ out \union UNION {Elements(F[h]) : h \in Holders} = all
  BY <1>1 DEF Apart
<1>3. \A h \in Holders : IsInjective(G[h]) /\ Elements(G[h]) \intersect (out \ Elements(G[x])) = {}
  BY <1>2
<1>4. \A g, h \in Holders : g # h => Elements(G[g]) \intersect Elements(G[h]) = {}
  BY <1>2
<1>5. (out \ Elements(G[x])) \union UNION {Elements(G[h]) : h \in Holders}
        = out \union UNION {Elements(F[h]) : h \in Holders}
  <2>1. ASSUME NEW h \in Holders, NEW b \in Elements(G[h])
        PROVE  b \in out \/ \E g \in Holders : b \in Elements(F[g])
    BY <2>1
  <2>2. ASSUME NEW h \in Holders, NEW b \in Elements(F[h])
        PROVE  \E g \in Holders : b \in Elements(G[g])
    BY <2>2
  <2> QED
    BY <2>1, <2>2
<1> QED
  BY <1>1, <1>2, <1>3, <1>4, <1>5 DEF Apart

-----------------------------------------------------------------------------
(* Where the buffers are *)

Held == [h \in Holders |-> HeldBy(h)]
Gone == free_buf \union leaked

Accounted ==
  /\ free_buf \intersect leaked = {}
  /\ Apart(Held, Gone, Buffers)

InHand(w) == <<"hand", w>>
InQueue(w) == <<"queue", w>>
Collecteds == <<"dispatcher", "tx_queue_">>
Posted == <<"dispatcher", "sw_ring_">>

\* Which holders there are, and that they are different.
LEMMA HolderNames ==
  /\ \A w \in Workers : InHand(w) \in Holders /\ InQueue(w) \in Holders
  /\ Collecteds \in Holders /\ Posted \in Holders
  /\ \A h \in Holders :
       \/ \E w \in Workers : h = InHand(w) \/ h = InQueue(w)
       \/ h = Collecteds \/ h = Posted
  /\ \A v, w \in Workers :
       /\ InHand(v) # InQueue(w)
       /\ InHand(v) = InHand(w) => v = w
       /\ InQueue(v) = InQueue(w) => v = w
  /\ \A w \in Workers :
       /\ InHand(w) # Collecteds /\ InHand(w) # Posted
       /\ InQueue(w) # Collecteds /\ InQueue(w) # Posted
  /\ Collecteds # Posted
<1>1. /\ \A w \in Workers : InHand(w) \in Holders /\ InQueue(w) \in Holders
      /\ Collecteds \in Holders /\ Posted \in Holders
  BY DEF Holders, InHand, InQueue, Collecteds, Posted
<1>2. ASSUME NEW h \in Holders
      PROVE  \/ \E w \in Workers : h = InHand(w) \/ h = InQueue(w)
             \/ h = Collecteds \/ h = Posted
  BY <1>2 DEF Holders, InHand, InQueue, Collecteds, Posted
<1>3. \A v, w \in Workers :
       /\ InHand(v) # InQueue(w)
       /\ InHand(v) = InHand(w) => v = w
       /\ InQueue(v) = InQueue(w) => v = w
  BY DEF InHand, InQueue
<1>4. \A w \in Workers :
       /\ InHand(w) # Collecteds /\ InHand(w) # Posted
       /\ InQueue(w) # Collecteds /\ InQueue(w) # Posted
  BY DEF InHand, InQueue, Collecteds, Posted
<1>5. Collecteds # Posted
  BY DEF Collecteds, Posted
<1> QED
  BY <1>1, <1>2, <1>3, <1>4, <1>5

\* What each of them holds.
LEMMA HolderContents ==
  /\ \A w \in Workers : Held[InHand(w)] = hand[w] /\ Held[InQueue(w)] = queue[w]
  /\ Held[Collecteds] = tx_queue_ /\ Held[Posted] = InSendRing
<1>1. \A w \in Workers : HeldBy(InHand(w)) = hand[w] /\ HeldBy(InQueue(w)) = queue[w]
  BY DEF HeldBy, InHand, InQueue
<1>2. HeldBy(Collecteds) = tx_queue_ /\ HeldBy(Posted) = InSendRing
  BY DEF HeldBy, Collecteds, Posted
<1> QED
  BY <1>1, <1>2, HolderNames DEF Held

\* The send ring holds what is done and what the NIC has.
LEMMA RingHolds ==
  ASSUME IInv
  PROVE  /\ InSendRing \in Seq(Buffers) /\ Reaped(sendCq) \in Seq(Buffers)
         /\ InSendRing = Reaped(sendCq) \o nicQueue
         /\ Len(Reaped(sendCq)) = sendCq
<1> DEFINE n == RingSize - free_send_wr_num_
<1>1. /\ RingSize \in Nat /\ sendCq \in Nat /\ free_send_wr_num_ \in Nat
      /\ Len(nicQueue) \in Nat /\ nicQueue \in Seq(Buffers)
      /\ sendCq + Len(nicQueue) + free_send_wr_num_ = RingSize
  BY NodeFacts, LenProperties DEF IInv, Types, Parts
<1>2. n = sendCq + Len(nicQueue) /\ n \in Nat
  BY <1>1
<1>3. \A k \in 1 .. n : sw_ring_[SlotFrom(send_head_, k - 1)] \in Buffers
  <2> SUFFICES ASSUME NEW k \in 1 .. n PROVE sw_ring_[SlotFrom(send_head_, k - 1)] \in Buffers
    OBVIOUS
  <2>1. CASE k <= sendCq
    BY <2>1, <1>1, <1>2 DEF IInv, Parts
  <2>2. CASE k > sendCq
    <3>1. k - sendCq \in 1 .. Len(nicQueue) /\ sendCq + (k - sendCq) - 1 = k - 1
      BY <2>2, <1>1, <1>2
    <3>2. sw_ring_[SlotFrom(send_head_, k - 1)] = nicQueue[k - sendCq]
      BY <3>1 DEF IInv, Parts
    <3> QED
      BY <1>1, <3>1, <3>2, ElementOfSeq
  <2> QED
    BY <2>1, <2>2, <1>1, <1>2
<1>4. InSendRing = [k \in 1 .. n |-> sw_ring_[SlotFrom(send_head_, k - 1)]]
  BY DEF InSendRing, Reaped
<1>5. InSendRing \in Seq(Buffers) /\ Len(InSendRing) = n
  <2> HIDE DEF n
  <2>1. InSendRing \in [1 .. n -> Buffers]
    BY <1>3, <1>4
  <2> QED
    BY <2>1, <1>2
<1>6. /\ SubSeq(InSendRing, 1, sendCq) \in Seq(Buffers)
      /\ Len(SubSeq(InSendRing, 1, sendCq)) = sendCq
      /\ \A k \in 1 .. sendCq : SubSeq(InSendRing, 1, sendCq)[k] = InSendRing[k]
      /\ InSendRing = SubSeq(InSendRing, 1, sendCq)
                        \o SubSeq(InSendRing, sendCq + 1, Len(InSendRing))
  <2>1. sendCq \in 0 .. Len(InSendRing)
    BY <1>1, <1>2, <1>5
  <2> QED
    BY <1>5, <2>1, CutSequence, CutAndJoined
<1>7. /\ Reaped(sendCq) \in Seq(Buffers) /\ Len(Reaped(sendCq)) = sendCq
      /\ \A k \in 1 .. sendCq : Reaped(sendCq)[k] = InSendRing[k]
  <2>1. \A k \in 1 .. sendCq : k \in 1 .. n
    BY <1>1, <1>2
  <2>2. Reaped(sendCq) = [k \in 1 .. sendCq |-> sw_ring_[SlotFrom(send_head_, k - 1)]]
    BY DEF Reaped
  <2>3. \A k \in 1 .. sendCq : Reaped(sendCq)[k] = InSendRing[k]
    BY <1>4, <2>1, <2>2
  <2>4. Reaped(sendCq) \in [1 .. sendCq -> Buffers]
    BY <1>3, <2>1, <2>2
  <2> QED
    BY <2>3, <2>4, <1>1
<1>8. Reaped(sendCq) = SubSeq(InSendRing, 1, sendCq)
  BY <1>6, <1>7, SeqEqual
<1>9. SubSeq(InSendRing, sendCq + 1, Len(InSendRing)) = nicQueue
  BY ISendRingAgrees DEF SendRingAgrees
<1> QED
  BY <1>5, <1>6, <1>7, <1>8, <1>9

\* Every holder has a sequence of buffers.
LEMMA HeldType == ASSUME IInv PROVE Held \in Contents
<1>1. ASSUME NEW h \in Holders PROVE Held[h] \in Seq(Buffers)
  <2>1. /\ hand \in [Workers -> Seq(Buffers)] /\ queue \in [Workers -> Seq(Buffers)]
        /\ tx_queue_ \in Seq(Buffers) /\ InSendRing \in Seq(Buffers)
    BY RingHolds DEF IInv, Types
  <2>2. CASE \E w \in Workers : h = InHand(w) \/ h = InQueue(w)
    BY <2>1, <2>2, HolderContents
  <2>3. CASE h = Collecteds \/ h = Posted
    BY <2>1, <2>3, HolderContents
  <2> QED
    BY <2>2, <2>3, HolderNames
<1> QED
  BY <1>1 DEF Held, Contents

\* The lemmas above in one, and of the state after a step.
HeldFacts ==
  IInv =>
    /\ Held \in Contents
    /\ \A w \in Workers : Held[InHand(w)] = hand[w] /\ Held[InQueue(w)] = queue[w]
    /\ Held[Collecteds] = tx_queue_ /\ Held[Posted] = InSendRing
    /\ InSendRing \in Seq(Buffers)
    /\ InSendRing = Reaped(sendCq) \o nicQueue
    /\ Reaped(sendCq) \in Seq(Buffers)

(* What the holders contain, in the state before a step. *)
LEMMA BeforeStep == HeldFacts
BY HeldType, HolderContents, RingHolds DEF HeldFacts

(* The same of the state after it. *)
LEMMA AfterStep ==
  ASSUME IInv'
  PROVE  /\ Held' \in Contents
         /\ \A w \in Workers : Held'[InHand(w)] = hand'[w] /\ Held'[InQueue(w)] = queue'[w]
         /\ Held'[Collecteds] = tx_queue_' /\ Held'[Posted] = InSendRing'
         /\ InSendRing' \in Seq(Buffers)
         /\ InSendRing' = Reaped(sendCq)' \o nicQueue'
         /\ Reaped(sendCq)' \in Seq(Buffers)
<1>1. HeldFacts'
  BY BeforeStep, PTL
<1> QED
  BY <1>1 DEF HeldFacts

\* The send ring changes only with the ring's own variables.
LEMMA SendRingStays ==
  ASSUME UNCHANGED <<node, ringVars>>
  PROVE  InSendRing' = InSendRing
BY DEF InSendRing, Reaped, RingSize, SlotFrom, ringVars

-----------------------------------------------------------------------------
(* No step loses or duplicates a buffer *)

\* All are free at the start.
LEMMA InitAccounted == Init => Accounted
<1> SUFFICES ASSUME Init PROVE Accounted
  OBVIOUS
<1>1. IInv
  BY InitIInv
<1>2. Reaped(sendCq) = <<>> /\ nicQueue = <<>>
  BY DEF Init, Reaped
<1>3. InSendRing = <<>>
  BY <1>1, <1>2, RingHolds
<1>4. ASSUME NEW h \in Holders PROVE Held[h] = <<>>
  <2>1. CASE \E w \in Workers : h = InHand(w) \/ h = InQueue(w)
    BY <2>1, HolderContents DEF Init
  <2>2. CASE h = Collecteds \/ h = Posted
    BY <2>2, <1>3, HolderContents DEF Init
  <2> QED
    BY <2>1, <2>2, HolderNames
<1>5. Elements(<<>>) = {} /\ IsInjective(<<>>)
  BY DEF Elements, IsInjective
<1>6. DOMAIN Held = Holders
  BY DEF Held
<1>7. Gone = Buffers /\ free_buf \intersect leaked = {}
  BY DEF Init, Gone
<1>8. Apart(Held, Gone, Buffers)
  BY <1>4, <1>5, <1>6, <1>7 DEF Apart
<1> QED
  BY <1>7, <1>8 DEF Accounted

\* A batch goes from the freelist into a worker's hand.
LEMMA ApplyMbufsAccounted ==
  ASSUME IInv, IInv', Accounted, NEW w \in Workers, ApplyMbufs(w)
  PROVE  Accounted'
<1>1. /\ hand[w] = <<>> /\ hand' = [hand EXCEPT ![w] = FreeBatch]
      /\ free_buf' = free_buf \ Elements(FreeBatch) /\ leaked' = leaked
      /\ UNCHANGED <<node, queue, tx_queue_, ringVars>>
  BY DEF ApplyMbufs
<1>2. /\ FreeBatch \in Seq(Buffers) /\ IsInjective(FreeBatch)
      /\ Elements(FreeBatch) \subseteq free_buf
  BY FreeBatchApart DEF IInv, Types, ApplyMbufs
<1>3. /\ Held \in Contents /\ Held' \in Contents
      /\ InHand(w) \in Holders /\ InSendRing' = InSendRing
  BY <1>1, HeldType, AfterStep, HolderNames, SendRingStays
<1>4. Held[InHand(w)] = <<>> /\ Held'[InHand(w)] = FreeBatch
  BY <1>1, HolderContents, AfterStep DEF IInv, Types
<1>5. ASSUME NEW h \in Holders \ {InHand(w)} PROVE Held'[h] = Held[h]
  <2>1. CASE \E v \in Workers : h = InHand(v) \/ h = InQueue(v)
    <3>1. \A v \in Workers : v # w => hand'[v] = hand[v]
      BY <1>1 DEF IInv, Types
    <3> QED
      BY <2>1, <3>1, <1>1, HolderContents, AfterStep
  <2>2. CASE h = Collecteds \/ h = Posted
    BY <2>2, <1>1, <1>3, HolderContents, AfterStep
  <2> QED
    BY <2>1, <2>2, HolderNames
<1>6. Elements(Held[InHand(w)]) = {}
  BY <1>4 DEF Elements
<1>7. /\ Elements(FreeBatch) \subseteq Gone /\ Gone' = Gone \ Elements(FreeBatch)
      /\ free_buf' \intersect leaked' = {}
  BY <1>1, <1>2 DEF Gone, Accounted
<1>8. Apart(Held', Gone \ Elements(Held'[InHand(w)]), Buffers)
  <2>1. /\ IsInjective(Held'[InHand(w)]) /\ Elements(Held'[InHand(w)]) \subseteq Gone
        /\ Apart(Held, Gone, Buffers)
    BY <1>2, <1>4, <1>7 DEF Accounted
  <2> QED
    BY <2>1, <1>3, <1>5, <1>6, Enters
<1>9. Gone \ Elements(Held'[InHand(w)]) = Gone'
  BY <1>4, <1>7
<1> QED
  BY <1>7, <1>8, <1>9 DEF Accounted

\* A packet goes from the hand to the worker's queue.
LEMMA EnqueuePktAccounted ==
  ASSUME IInv, IInv', Accounted, NEW w \in Workers, EnqueuePkt(w)
  PROVE  Accounted'
<1>1. /\ hand[w] # <<>> /\ hand' = [hand EXCEPT ![w] = Tail(hand[w])]
      /\ queue' = [queue EXCEPT ![w] = Append(queue[w], Head(hand[w]))]
      /\ UNCHANGED <<node, free_buf, leaked, tx_queue_, ringVars>>
  BY DEF EnqueuePkt
<1>2. /\ hand[w] \in Seq(Buffers) /\ queue[w] \in Seq(Buffers)
      /\ hand'[w] = Tail(hand[w]) /\ queue'[w] = Append(queue[w], Head(hand[w]))
      /\ \A v \in Workers : v # w => hand'[v] = hand[v] /\ queue'[v] = queue[v]
  BY <1>1 DEF IInv, Types
<1>3. /\ Held \in Contents /\ Held' \in Contents
      /\ InHand(w) \in Holders /\ InQueue(w) \in Holders /\ InHand(w) # InQueue(w)
      /\ InSendRing' = InSendRing
  BY <1>1, HeldType, AfterStep, HolderNames, SendRingStays
<1> DEFINE moved == <<Head(hand[w])>>
<1>4. /\ moved \in Seq(Buffers) /\ hand[w] = moved \o hand'[w]
      /\ queue'[w] = queue[w] \o moved
  <2>1. hand[w] \in Seq(Buffers) /\ hand[w] # <<>> /\ queue[w] \in Seq(Buffers)
    BY <1>1, <1>2
  <2>2. /\ moved \in Seq(Buffers) /\ hand[w] = moved \o Tail(hand[w])
        /\ Append(queue[w], Head(hand[w])) = queue[w] \o moved
    BY <2>1, HeadAndTailJoined
  <2> QED
    BY <2>2, <1>2
<1>5. /\ Held[InHand(w)] = moved \o Held'[InHand(w)]
      /\ Held'[InQueue(w)] = Held[InQueue(w)] \o moved
  BY <1>4, HolderContents, AfterStep
<1>6. ASSUME NEW h \in Holders \ {InHand(w), InQueue(w)} PROVE Held'[h] = Held[h]
  <2>1. CASE \E v \in Workers : h = InHand(v) \/ h = InQueue(v)
    BY <2>1, <1>2, HolderContents, AfterStep
  <2>2. CASE h = Collecteds \/ h = Posted
    BY <2>2, <1>1, <1>3, HolderContents, AfterStep
  <2> QED
    BY <2>1, <2>2, HolderNames
<1> HIDE DEF moved
<1>7. Apart(Held', Gone, Buffers)
  BY <1>3, <1>4, <1>5, <1>6, Moves DEF Accounted
<1> QED
  BY <1>1, <1>7 DEF Accounted, Gone

\* A dropped packet goes from the hand to nowhere.
LEMMA DropPktAccounted ==
  ASSUME IInv, IInv', Accounted, NEW w \in Workers, DropPkt(w)
  PROVE  Accounted'
<1>1. /\ hand[w] # <<>> /\ hand' = [hand EXCEPT ![w] = Tail(hand[w])]
      /\ leaked' = leaked \union {Head(hand[w])}
      /\ UNCHANGED <<node, free_buf, queue, tx_queue_, ringVars>>
  BY DEF DropPkt
<1>2. /\ hand[w] \in Seq(Buffers) /\ hand'[w] = Tail(hand[w])
      /\ \A v \in Workers : v # w => hand'[v] = hand[v]
  BY <1>1 DEF IInv, Types
<1>3. /\ Held \in Contents /\ Held' \in Contents
      /\ InHand(w) \in Holders /\ InSendRing' = InSendRing
  BY <1>1, HeldType, AfterStep, HolderNames, SendRingStays
<1> DEFINE moved == <<Head(hand[w])>>
<1>4. moved \in Seq(Buffers) /\ hand[w] = moved \o hand'[w] /\ Elements(moved) = {Head(hand[w])}
  <2>1. hand[w] \in Seq(Buffers) /\ hand[w] # <<>>
    BY <1>1, <1>2
  <2>2. moved \in Seq(Buffers) /\ hand[w] = moved \o Tail(hand[w])
    BY <2>1, HeadAndTailJoined
  <2>3. Elements(moved) = {Head(hand[w])}
    BY DEF Elements
  <2> QED
    BY <2>2, <2>3, <1>2
<1>5. Held[InHand(w)] = moved \o Held'[InHand(w)]
  BY <1>4, HolderContents, AfterStep
<1>6. ASSUME NEW h \in Holders \ {InHand(w)} PROVE Held'[h] = Held[h]
  <2>1. CASE \E v \in Workers : h = InHand(v) \/ h = InQueue(v)
    BY <2>1, <1>1, <1>2, HolderContents, AfterStep
  <2>2. CASE h = Collecteds \/ h = Posted
    BY <2>2, <1>1, <1>3, HolderContents, AfterStep
  <2> QED
    BY <2>1, <2>2, HolderNames
<1>7. Gone' = Gone \union Elements(moved)
  BY <1>1, <1>4 DEF Gone
<1> HIDE DEF moved
<1>8. Apart(Held', Gone \union Elements(moved), Buffers) /\ Elements(moved) \intersect Gone = {}
  BY <1>3, <1>4, <1>5, <1>6, Leaves DEF Accounted
<1>9. free_buf' \intersect leaked' = {}
  BY <1>1, <1>4, <1>8 DEF Accounted, Gone
<1> QED
  BY <1>7, <1>8, <1>9 DEF Accounted

\* The round robin stays among the workers.
LEMMA SelectedWorker == IInv => ws_queue_idx_ \in Workers
BY NodeFacts, TxRingAssumption DEF IInv, Types, Workers

\* What is dequeued goes from a worker's queue to tx_queue_.
LEMMA CollectDequeueAccounted ==
  ASSUME IInv, IInv', Accounted, CollectDequeue
  PROVE  Accounted'
<1> DEFINE w == ws_queue_idx_
           moved == SubSeq(queue[w], 1, tx_size)
<1>1. /\ w \in Workers /\ queue[w] \in Seq(Buffers) /\ tx_size \in 0 .. Len(queue[w])
      /\ hand' = hand
      /\ tx_queue_' = tx_queue_ \o moved
      /\ queue' = [queue EXCEPT ![w] = SubSeq(queue[w], tx_size + 1, Len(queue[w]))]
      /\ UNCHANGED <<node, free_buf, leaked, ringVars>>
  <2>1. w \in Workers
    BY SelectedWorker
  <2>2. queue[w] \in Seq(Buffers) /\ tx_size \in Nat /\ tx_size <= Len(queue[w])
    BY <2>1 DEF CollectDequeue, IInv, Types, SizeHolds
  <2>3. tx_size \in 0 .. Len(queue[w])
    BY <2>2, LenProperties
  <2>4. /\ hand' = hand /\ tx_queue_' = tx_queue_ \o moved
        /\ queue' = [queue EXCEPT ![w] = SubSeq(queue[w], tx_size + 1, Len(queue[w]))]
        /\ UNCHANGED <<node, free_buf, leaked, ringVars>>
    BY DEF CollectDequeue, Collected, SelectedQueue, workerVars
  <2> QED
    BY <2>1, <2>2, <2>3, <2>4
<1>2. /\ queue'[w] = SubSeq(queue[w], tx_size + 1, Len(queue[w]))
      /\ \A v \in Workers : v # w => queue'[v] = queue[v]
  BY <1>1 DEF IInv, Types
<1>3. /\ Held \in Contents /\ Held' \in Contents
      /\ InQueue(w) \in Holders /\ Collecteds \in Holders /\ InQueue(w) # Collecteds
      /\ InSendRing' = InSendRing
  BY <1>1, HeldType, AfterStep, HolderNames, SendRingStays
<1>4. moved \in Seq(Buffers) /\ queue[w] = moved \o queue'[w]
  BY <1>1, <1>2, CutSequence, CutAndJoined
<1> HIDE DEF w, moved
<1>5. /\ Held[InQueue(w)] = moved \o Held'[InQueue(w)]
      /\ Held'[Collecteds] = Held[Collecteds] \o moved
  BY <1>1, <1>4, HolderContents, AfterStep
<1>6. ASSUME NEW h \in Holders \ {InQueue(w), Collecteds} PROVE Held'[h] = Held[h]
  <2>1. ASSUME NEW v \in Workers, h = InHand(v) PROVE Held'[h] = Held[h]
    BY <2>1, <1>1, HolderContents, AfterStep
  <2>2. ASSUME NEW v \in Workers, h = InQueue(v) PROVE Held'[h] = Held[h]
    <3>1. queue'[v] = queue[v]
      BY <2>2, <1>2
    <3> QED
      BY <2>2, <3>1, HolderContents, AfterStep
  <2>3. CASE h = Posted
    BY <2>3, <1>3, HolderContents, AfterStep
  <2> QED
    BY <2>1, <2>2, <2>3, HolderNames
<1>7. Apart(Held', Gone, Buffers)
  <2> DEFINE x == InQueue(w)
             y == Collecteds
  <2>1. /\ x \in Holders /\ y \in Holders /\ x # y
        /\ Held[x] = moved \o Held'[x] /\ Held'[y] = Held[y] \o moved
        /\ \A h \in Holders \ {x, y} : Held'[h] = Held[h]
        /\ Apart(Held, Gone, Buffers)
    BY <1>3, <1>5, <1>6 DEF Accounted
  <2> HIDE DEF x, y
  <2> QED
    BY <2>1, <1>3, <1>4, Moves
<1> QED
  BY <1>1, <1>7 DEF Accounted, Gone

\* A burst frees what is done and posts the front of tx_queue_.
LEMMA TxBurstAccounted ==
  ASSUME IInv, IInv', Accounted, TxBurst
  PROVE  Accounted'
<1> DEFINE n == Lesser(free_send_wr_num_ + sendCq, Len(tx_queue_))
           done == Reaped(sendCq)
           moved == SubSeq(tx_queue_, 1, n)
           Between == [Held EXCEPT ![Posted] = nicQueue]
<1>1. /\ tx_queue_ \in Seq(Buffers) /\ n \in 0 .. Len(tx_queue_)
      /\ nicQueue \in Seq(Buffers) /\ sendCq \in Nat
  <2>1. free_send_wr_num_ \in Nat /\ sendCq \in Nat /\ tx_queue_ \in Seq(Buffers)
        /\ nicQueue \in Seq(Buffers) /\ Len(tx_queue_) \in Nat
    BY LenProperties DEF IInv, Types
  <2> QED
    BY <2>1 DEF Lesser
<1>2. /\ free_buf' = free_buf \union Elements(done) /\ leaked' = leaked
      /\ sendCq' = sendCq - sendCq
      /\ nicQueue' = nicQueue \o moved
      /\ tx_queue_' = SubSeq(tx_queue_, n + 1, Len(tx_queue_))
      /\ hand' = hand /\ queue' = queue
  BY DEF TxBurst, Polled, workerVars
<1>3. moved \in Seq(Buffers) /\ tx_queue_ = moved \o tx_queue_'
  BY <1>1, <1>2, CutSequence, CutAndJoined
<1> HIDE DEF n, done, moved
<1>4. /\ Held \in Contents /\ Held' \in Contents
      /\ Between \in Contents
      /\ Posted \in Holders /\ Collecteds \in Holders /\ Collecteds # Posted
  <2>1. Held \in Contents /\ Held' \in Contents
    BY HeldType, AfterStep
  <2> QED
    BY <1>1, <2>1, HolderNames DEF Contents
<1>5. Between[Posted] = nicQueue /\ \A h \in Holders \ {Posted} : Between[h] = Held[h]
  BY <1>4 DEF Contents
<1>6. done \in Seq(Buffers) /\ Held[Posted] = done \o Between[Posted]
  BY <1>5, RingHolds, HolderContents DEF done
<1> HIDE DEF Between
<1>7. /\ Apart(Between, Gone \union Elements(done), Buffers)
      /\ Elements(done) \intersect Gone = {}
  <2> DEFINE x == Posted
  <2>1. /\ x \in Holders /\ Held[x] = done \o Between[x]
        /\ \A h \in Holders \ {x} : Between[h] = Held[h]
        /\ Apart(Held, Gone, Buffers)
    BY <1>4, <1>5, <1>6 DEF Accounted
  <2> HIDE DEF x
  <2> QED
    BY <2>1, <1>4, <1>6, Leaves
<1>8. Held'[Posted] = Between[Posted] \o moved
  <2>1. sendCq' = 0
    BY <1>1, <1>2
  <2>2. Reaped(sendCq)' = <<>>
    BY <2>1 DEF Reaped
  <2>3. nicQueue' \in Seq(Buffers)
    BY DEF IInv, Types
  <2>4. InSendRing' = nicQueue'
    BY <2>2, <2>3, AfterStep
  <2> QED
    BY <2>4, <1>2, <1>5, AfterStep
<1>9. Between[Collecteds] = moved \o Held'[Collecteds]
  BY <1>3, <1>4, <1>5, HolderContents, AfterStep
<1>10. ASSUME NEW h \in Holders \ {Collecteds, Posted} PROVE Held'[h] = Between[h]
  <2>1. PICK v \in Workers : h = InHand(v) \/ h = InQueue(v)
    BY HolderNames
  <2> QED
    BY <2>1, <1>2, <1>5, HolderContents, AfterStep
<1>11. Apart(Held', Gone \union Elements(done), Buffers)
  <2> DEFINE x == Collecteds
             y == Posted
  <2>1. /\ x \in Holders /\ y \in Holders /\ x # y
        /\ Between[x] = moved \o Held'[x] /\ Held'[y] = Between[y] \o moved
        /\ \A h \in Holders \ {x, y} : Held'[h] = Between[h]
    BY <1>4, <1>8, <1>9, <1>10
  <2> HIDE DEF x, y
  <2> QED
    BY <2>1, <1>3, <1>4, <1>7, Moves
<1>12. Gone' = Gone \union Elements(done) /\ free_buf' \intersect leaked' = {}
  BY <1>2, <1>7 DEF Gone, Accounted
<1> QED
  BY <1>11, <1>12 DEF Accounted

\* Steps that move no buffer.
LEMMA HeldStays ==
  ASSUME IInv, IInv', Accounted,
         UNCHANGED <<node, free_buf, leaked, hand, queue, tx_queue_, ringVars>>
  PROVE  Accounted'
<1>1. InSendRing' = InSendRing
  BY SendRingStays
<1>2. Held' = Held
  BY <1>1 DEF Held, HeldBy
<1> QED
  BY <1>2 DEF Accounted, Gone

\* Every step keeps every buffer in one place.
LEMMA StepAccounted == IInv /\ IInv' /\ Accounted /\ [Next]_vars => Accounted'
<1> SUFFICES ASSUME IInv, IInv', Accounted, [Next]_vars PROVE Accounted'
  OBVIOUS
<1>1. ASSUME NEW w \in Workers, ApplyMbufs(w) PROVE Accounted'
  BY <1>1, ApplyMbufsAccounted
<1>2. ASSUME NEW w \in Workers, EnqueuePkt(w) PROVE Accounted'
  BY <1>2, EnqueuePktAccounted
<1>3. ASSUME NEW w \in Workers, DropPkt(w) PROVE Accounted'
  BY <1>3, DropPktAccounted
<1>4. ASSUME NEW w \in Workers, ReturnBudget(w) PROVE Accounted'
  BY <1>4, HeldStays DEF ReturnBudget
<1>5. CASE CollectBegin \/ CollectCompare \/ CollectReread \/ CollectEnd
  BY <1>5, HeldStays DEF CollectBegin, CollectCompare, CollectReread, CollectEnd, workerVars
<1>6. CASE CollectDequeue
  BY <1>6, CollectDequeueAccounted
<1>7. CASE TxBurst
  BY <1>7, TxBurstAccounted
<1>8. CASE CompleteSend
  BY <1>8, HeldStays DEF CompleteSend, workerVars
<1>9. CASE UNCHANGED vars
  BY <1>9, HeldStays DEF vars, workerVars
<1> QED
  BY <1>1, <1>2, <1>3, <1>4, <1>5, <1>6, <1>7, <1>8, <1>9 DEF Next

\* The invariant as the property has it.
LEMMA AccountedOwned == Accounted => BuffersAccounted
<1>1. /\ DOMAIN Held = Holders
      /\ \A h \in Holders : Held[h] = HeldBy(h)
  BY DEF Held
<1> QED
  BY <1>1 DEF Accounted, Apart, Gone, BuffersAccounted

(* Every buffer has exactly one holder, with the ring's invariant. *)
LEMMA AccountedAlways == Spec => [](IInv /\ Accounted)
<1>1. Init => Accounted
  BY InitAccounted
<1>2. IInv /\ IInv' /\ Accounted /\ [Next]_vars => Accounted'
  BY StepAccounted
<1> QED
  BY <1>1, <1>2, Invariance, PTL DEF Spec

\* Whatever the workers, the rings, the batches and the drops: a buffer is at any
\* time free, or dropped, or in exactly one place of exactly one list.
THEOREM BuffersAccountedAlways == Spec => []BuffersAccounted
BY AccountedAlways, AccountedOwned, PTL

-----------------------------------------------------------------------------
(* What budget bounds *)

\* A sequence without repetition has as many elements as entries.
LEMMA CountElements ==
  ASSUME NEW S, NEW s \in Seq(S), IsInjective(s)
  PROVE  IsFiniteSet(Elements(s)) /\ Cardinality(Elements(s)) = Len(s)
<1>1. Len(s) \in Nat /\ DOMAIN s = 1 .. Len(s) /\ s \in [1 .. Len(s) -> S]
  BY LenProperties
<1>2. s \in Bijection(1 .. Len(s), Elements(s))
  BY <1>1 DEF Bijection, Injection, Surjection, Elements
<1>3. ExistsBijection(1 .. Len(s), Elements(s))
  BY <1>2 DEF ExistsBijection
<1>4. IsFiniteSet(1 .. Len(s)) /\ Cardinality(1 .. Len(s)) = Len(s)
  BY <1>1, FS_Interval
<1> QED
  BY <1>1, <1>3, <1>4, FS_Bijection

Class(f, w) == {b \in DOMAIN f : f[b] = w}

\* Elements in N classes of at most c each, of which one has t less.
LEMMA ClassesBound ==
  ASSUME NEW S, IsFiniteSet(S), NEW N \in Nat, NEW c \in Nat, NEW f \in [S -> 0 .. N - 1],
         NEW v \in 0 .. N - 1, NEW t \in 0 .. c,
         \A w \in 0 .. N - 1 : Cardinality(Class(f, w)) <= c,
         Cardinality(Class(f, v)) <= c - t
  PROVE  Cardinality(S) <= N * c - t
<1> DEFINE class(w) == Class(f, w)
           number == [w \in 0 .. N - 1 |-> CHOOSE g : g \in Bijection(class(w), 1 .. Cardinality(class(w)))]
           pair == [b \in S |-> <<f[b], number[f[b]][b]>>]
           places == ((0 .. N - 1) \X (1 .. c)) \ ({v} \X (c - t + 1 .. c))
<1>1. \A w \in 0 .. N - 1 :
        /\ Cardinality(class(w)) \in Nat
        /\ number[w] \in Bijection(class(w), 1 .. Cardinality(class(w)))
  <2> SUFFICES ASSUME NEW w \in 0 .. N - 1
               PROVE  /\ Cardinality(class(w)) \in Nat
                      /\ number[w] \in Bijection(class(w), 1 .. Cardinality(class(w)))
    OBVIOUS
  <2>1. IsFiniteSet(class(w)) /\ class(w) \subseteq S
    <3>1. class(w) \in SUBSET S
      BY DEF Class
    <3> QED
      BY <3>1, FS_Subset
  <2> HIDE DEF class
  <2>2. /\ Cardinality(class(w)) \in Nat
        /\ ExistsBijection(1 .. Cardinality(class(w)), class(w))
    BY <2>1, FS_CardinalityType
  <2>3. ExistsBijection(class(w), 1 .. Cardinality(class(w)))
    BY <2>2, Fun_ExistsBijSymmetric
  <2> QED
    BY <2>2, <2>3 DEF ExistsBijection
<1>2. ASSUME NEW b \in S
      PROVE  /\ f[b] \in 0 .. N - 1 /\ b \in class(f[b])
             /\ number[f[b]][b] \in 1 .. Cardinality(class(f[b]))
             /\ pair[b] \in places
  <2>1. f[b] \in 0 .. N - 1 /\ b \in class(f[b])
    BY DEF Class
  <2>2. /\ number[f[b]] \in [class(f[b]) -> 1 .. Cardinality(class(f[b]))]
        /\ Cardinality(class(f[b])) \in Nat
    BY <1>1, <2>1 DEF Bijection, Injection
  <2>3. Cardinality(class(f[b])) <= c /\ (f[b] = v => Cardinality(class(f[b])) <= c - t)
    BY <2>1
  <2> HIDE DEF class, number
  <2>4. number[f[b]][b] \in 1 .. Cardinality(class(f[b]))
    BY <2>1, <2>2
  <2>5. number[f[b]][b] \in 1 .. c /\ (f[b] = v => number[f[b]][b] \notin c - t + 1 .. c)
    BY <2>2, <2>3, <2>4
  <2> QED
    BY <2>1, <2>4, <2>5
<1>3. pair \in Injection(S, places)
  <2>1. pair \in [S -> places]
    BY <1>2
  <2>2. ASSUME NEW a \in S, NEW b \in S, pair[a] = pair[b] PROVE a = b
    <3>1. f[a] = f[b] /\ number[f[a]][a] = number[f[b]][b]
      BY <2>2
    <3>2. number[f[a]] \in Bijection(class(f[a]), 1 .. Cardinality(class(f[a])))
      BY <1>1, <1>2
    <3>3. a \in class(f[a]) /\ b \in class(f[a])
      BY <1>2, <3>1
    <3> HIDE DEF class, number
    <3> QED
      BY <3>1, <3>2, <3>3 DEF Bijection, Injection, IsInjective
  <2> QED
    BY <2>1, <2>2 DEF Injection, IsInjective
<1>4. IsFiniteSet(places) /\ Cardinality(places) = N * c - t
  <2>1. /\ IsFiniteSet(0 .. N - 1) /\ Cardinality(0 .. N - 1) = N
        /\ IsFiniteSet(1 .. c) /\ Cardinality(1 .. c) = c
        /\ IsFiniteSet(c - t + 1 .. c) /\ Cardinality(c - t + 1 .. c) = t
    <3>1. 0 \in Int /\ N - 1 \in Int /\ 1 \in Int /\ c \in Int /\ c - t + 1 \in Int
      OBVIOUS
    <3>2. /\ IsFiniteSet(0 .. N - 1) /\ Cardinality(0 .. N - 1) = IF 0 > N - 1 THEN 0 ELSE N - 1 - 0 + 1
          /\ IsFiniteSet(1 .. c) /\ Cardinality(1 .. c) = IF 1 > c THEN 0 ELSE c - 1 + 1
          /\ IsFiniteSet(c - t + 1 .. c)
          /\ Cardinality(c - t + 1 .. c) = IF c - t + 1 > c THEN 0 ELSE c - (c - t + 1) + 1
      BY <3>1, FS_Interval
    <3> QED
      BY <3>2
  <2>2. IsFiniteSet({v}) /\ Cardinality({v}) = 1
    BY FS_Singleton
  <2> DEFINE all == (0 .. N - 1) \X (1 .. c)
             less == {v} \X (c - t + 1 .. c)
  <2>3. /\ IsFiniteSet(all) /\ Cardinality(all) = N * c
        /\ Cardinality(less) = t
    <3>1. /\ IsFiniteSet(all)
          /\ Cardinality(all) = Cardinality(0 .. N - 1) * Cardinality(1 .. c)
      BY <2>1, FS_Product
    <3>2. Cardinality(less) = Cardinality({v}) * Cardinality(c - t + 1 .. c)
      BY <2>1, <2>2, FS_Product
    <3>3. Cardinality(all) = N * c
      BY <2>1, <3>1
    <3>4. Cardinality(less) = 1 * t
      BY <2>1, <2>2, <3>2
    <3> HIDE DEF all, less
    <3> QED
      BY <3>1, <3>3, <3>4
  <2>4. all \intersect less = less
    BY SMT
  <2>5. places = all \ less
    OBVIOUS
  <2> HIDE DEF all, less, places
  <2>6. IsFiniteSet(all \ less) /\ Cardinality(all \ less) = Cardinality(all) - Cardinality(all \intersect less)
    BY <2>3, FS_Difference
  <2>7. Cardinality(all \intersect less) = t
    BY <2>3, <2>4, Zenon
  <2> QED
    BY <2>3, <2>5, <2>6, <2>7
<1> HIDE DEF pair, places
<1> QED
  BY <1>3, <1>4, FS_Injection

-----------------------------------------------------------------------------
(* A worker's budget is in its hands, with its packets or at its peers *)

\* The buffers whose packet the NIC has still to send, or that were dropped.
InFlight == Buffers \ (free_buf \union Elements(Reaped(sendCq)))
Of(w) == {b \in InFlight : source[b] = w}

Budgets ==
  /\ source \in [Buffers -> Workers]
  /\ infly_budget \in [Workers -> Nat] /\ unanswered \in [Workers -> Nat]

Conserved ==
  /\ Budgets
  /\ \A w \in Workers :
       infly_budget[w] + unanswered[w] + Cardinality(Of(w))
         = IF w < WorkerNum THEN node.budget ELSE 0

\* Buffers are finitely many.
LEMMA FiniteBuffers ==
  /\ IsFiniteSet(Buffers) /\ Cardinality(Buffers) = PoolSize /\ PoolSize \in Nat
  /\ IsFiniteSet(InFlight)
  /\ \A w : IsFiniteSet(Of(w)) /\ Cardinality(Of(w)) \in Nat
<1>1. IsFiniteSet(Buffers) /\ Cardinality(Buffers) = PoolSize /\ PoolSize \in Nat
  <2>1. PoolSize \in Nat \ {0}
    BY TxRingAssumption
  <2> QED
    BY <2>1, FS_Interval DEF Buffers
<1>2. IsFiniteSet(InFlight)
  BY <1>1, FS_Subset DEF InFlight
<1>3. ASSUME NEW w PROVE IsFiniteSet(Of(w)) /\ Cardinality(Of(w)) \in Nat
  <2>1. Of(w) \subseteq InFlight
    BY DEF Of
  <2> QED
    BY <1>2, <2>1, FS_Subset, FS_CardinalityType
<1> QED
  BY <1>1, <1>2, <1>3

\* The parts of the send ring have nothing in common with each other or with
\* what is free or dropped.
LEMMA RingApart ==
  ASSUME IInv, Accounted
  PROVE  /\ Elements(InSendRing) = Elements(Reaped(sendCq)) \union Elements(nicQueue)
         /\ Elements(Reaped(sendCq)) \intersect Elements(nicQueue) = {}
         /\ IsInjective(Reaped(sendCq)) /\ IsInjective(nicQueue)
         /\ Elements(InSendRing) \intersect Gone = {}
         /\ Elements(InSendRing) \subseteq Buffers
<1>1. /\ Reaped(sendCq) \in Seq(Buffers) /\ nicQueue \in Seq(Buffers)
      /\ InSendRing = Reaped(sendCq) \o nicQueue
  BY RingHolds DEF IInv, Types
<1>2. /\ Posted \in DOMAIN Held /\ Held[Posted] = InSendRing
  BY HolderNames, HolderContents DEF Held
<1>3. /\ IsInjective(InSendRing) /\ Elements(InSendRing) \intersect Gone = {}
      /\ Elements(InSendRing) \subseteq Buffers
  BY <1>2 DEF Accounted, Apart
<1> QED
  BY <1>1, <1>3, JoinElements

\* The same of the state after a step.
LEMMA RingApartAfter ==
  ASSUME IInv', Accounted'
  PROVE  /\ Elements(InSendRing') = Elements(Reaped(sendCq)') \union Elements(nicQueue')
         /\ Elements(Reaped(sendCq)') \intersect Elements(nicQueue') = {}
<1>1. /\ Reaped(sendCq)' \in Seq(Buffers) /\ nicQueue' \in Seq(Buffers)
      /\ InSendRing' = Reaped(sendCq)' \o nicQueue' /\ Held'[Posted] = InSendRing'
      /\ Held' \in Contents
  BY AfterStep DEF IInv, Types
<1>2. Posted \in DOMAIN Held'
  BY <1>1, HolderNames DEF Contents
<1>3. IsInjective(InSendRing')
  BY <1>1, <1>2 DEF Accounted, Apart
<1> QED
  BY <1>1, <1>3, JoinElements

\* Nothing is in flight at the start.
LEMMA InitConserved == Init => Conserved
<1> SUFFICES ASSUME Init PROVE Conserved
  OBVIOUS
<1>1. node \in Nodes /\ WorkerNum \in Nat \ {0} /\ node.budget \in Nat /\ WorkerNum <= MaxWorkers
      /\ MaxWorkers \in Nat
  BY NodeFacts, TxRingAssumption DEF Init
<1>2. 0 \in Workers
  BY <1>1 DEF Workers
<1>3. Budgets
  BY <1>1, <1>2 DEF Init, Budgets
<1>4. InFlight = {}
  BY DEF Init, InFlight
<1>5. \A w \in Workers : Of(w) = {}
  BY <1>4 DEF Of
<1>6. \A w \in Workers : Cardinality(Of(w)) = 0
  BY <1>5, FS_EmptySet
<1>7. \A w \in Workers : infly_budget[w] = (IF w < WorkerNum THEN node.budget ELSE 0)
                         /\ unanswered[w] = 0
  BY DEF Init
<1> QED
  BY <1>1, <1>3, <1>6, <1>7 DEF Conserved

\* Steps that neither spend nor return.
LEMMA ConservedStays ==
  ASSUME Conserved,
         UNCHANGED <<node, free_buf, source, infly_budget, sw_ring_, send_head_, sendCq, unanswered>>
  PROVE  Conserved'
<1>1. Reaped(sendCq)' = Reaped(sendCq)
  BY DEF Reaped, SlotFrom, RingSize
<1>2. InFlight' = InFlight
  BY <1>1 DEF InFlight
<1>3. \A w : Of(w)' = Of(w)
  BY <1>2 DEF Of
<1> QED
  BY <1>3 DEF Conserved, Budgets, WorkerNum

\* A batch's budget goes with its buffers.
LEMMA ApplyMbufsConserved ==
  ASSUME IInv, Accounted, Conserved, NEW w \in Workers, ApplyMbufs(w)
  PROVE  Conserved'
<1> DEFINE E == Elements(FreeBatch)
<1>1. /\ infly_budget[w] >= TxBatch
      /\ infly_budget' = [infly_budget EXCEPT ![w] = infly_budget[w] - TxBatch]
      /\ source' = [b \in Buffers |-> IF b \in E THEN w ELSE source[b]]
      /\ free_buf' = free_buf \ E
      /\ UNCHANGED <<node, sw_ring_, send_head_, sendCq, unanswered>>
  BY DEF ApplyMbufs, ringVars, nicVars
<1>2. /\ E \subseteq free_buf /\ Cardinality(E) = TxBatch /\ free_buf \subseteq Buffers
      /\ TxBatch \in Nat \ {0}
  BY FreeBatchApart, TxRingAssumption DEF IInv, Types, ApplyMbufs
<1> HIDE DEF E
<1>3. Elements(Reaped(sendCq)) \intersect free_buf = {} /\ Reaped(sendCq)' = Reaped(sendCq)
  <2>1. Reaped(sendCq)' = Reaped(sendCq)
    BY <1>1 DEF Reaped, SlotFrom, RingSize
  <2> QED
    BY <2>1, RingApart DEF Gone
<1>4. InFlight' = InFlight \union E /\ InFlight \intersect E = {}
  BY <1>1, <1>2, <1>3 DEF InFlight
<1>5. /\ Of(w)' = Of(w) \union E /\ Of(w) \intersect E = {}
      /\ \A v \in Workers : v # w => Of(v)' = Of(v)
  <2>1. \A b \in InFlight : source'[b] = source[b]
    BY <1>1, <1>4 DEF InFlight
  <2>2. \A b \in E : source'[b] = w
    BY <1>1, <1>2
  <2> QED
    BY <1>4, <2>1, <2>2 DEF Of
<1>6. Cardinality(Of(w)') = Cardinality(Of(w)) + TxBatch
  <2>1. IsFiniteSet(Of(w)) /\ IsFiniteSet(E) /\ Cardinality(Of(w)) \in Nat
    BY <1>2, FiniteBuffers, FS_Subset
  <2>2. Cardinality(Of(w) \union E)
          = Cardinality(Of(w)) + Cardinality(E) - Cardinality(Of(w) \intersect E)
    BY <2>1, FS_Union
  <2>3. Cardinality(Of(w) \intersect E) = 0
    BY <1>5, FS_EmptySet
  <2> QED
    BY <1>2, <1>5, <2>1, <2>2, <2>3
<1>7. infly_budget \in [Workers -> Nat] /\ unanswered \in [Workers -> Nat]
      /\ source \in [Buffers -> Workers]
  BY DEF Conserved, Budgets
<1>8. Budgets'
  BY <1>1, <1>2, <1>7 DEF Budgets
<1>9. ASSUME NEW v \in Workers
      PROVE  infly_budget'[v] + unanswered'[v] + Cardinality(Of(v)')
               = infly_budget[v] + unanswered[v] + Cardinality(Of(v))
  <2>1. CASE v = w
    <3>1. /\ infly_budget'[w] = infly_budget[w] - TxBatch /\ unanswered'[w] = unanswered[w]
          /\ infly_budget[w] \in Nat /\ unanswered[w] \in Nat /\ Cardinality(Of(w)) \in Nat
      BY <1>1, <1>7, FiniteBuffers
    <3> QED
      BY <1>2, <1>6, <2>1, <3>1
  <2>2. CASE v # w
    BY <1>1, <1>5, <1>7, <2>2
  <2> QED
    BY <2>1, <2>2
<1>10. WorkerNum' = WorkerNum /\ node' = node
  BY <1>1 DEF WorkerNum
<1> QED
  BY <1>8, <1>9, <1>10 DEF Conserved

\* A response returns what it was waited for.
LEMMA ReturnBudgetConserved ==
  ASSUME Conserved, NEW w \in Workers, ReturnBudget(w)
  PROVE  Conserved'
<1>1. /\ unanswered[w] > 0 /\ unanswered' = [unanswered EXCEPT ![w] = unanswered[w] - 1]
      /\ infly_budget' = [infly_budget EXCEPT ![w] = infly_budget[w] + 1]
      /\ UNCHANGED <<node, free_buf, source, sw_ring_, send_head_, sendCq>>
  BY DEF ReturnBudget, ringVars
<1>2. infly_budget \in [Workers -> Nat] /\ unanswered \in [Workers -> Nat]
      /\ source \in [Buffers -> Workers]
  BY DEF Conserved, Budgets
<1>3. Budgets'
  BY <1>1, <1>2 DEF Budgets
<1>4. Reaped(sendCq)' = Reaped(sendCq)
  BY <1>1 DEF Reaped, SlotFrom, RingSize
<1>5. \A v : Of(v)' = Of(v)
  BY <1>1, <1>4 DEF Of, InFlight
<1>6. \A v \in Workers :
        /\ infly_budget'[v] + unanswered'[v] = infly_budget[v] + unanswered[v]
        /\ infly_budget'[v] \in Nat /\ unanswered'[v] \in Nat
  BY <1>1, <1>2
<1>7. WorkerNum' = WorkerNum /\ node' = node
  BY <1>1 DEF WorkerNum
<1> QED
  BY <1>3, <1>5, <1>6, <1>7 DEF Conserved

\* A packet that is sent leaves its budget with the response it will have.
LEMMA CompleteSendConserved ==
  ASSUME IInv, IInv', Accounted, Accounted', Conserved, CompleteSend
  PROVE  Conserved'
<1>1. /\ nicQueue # <<>> /\ nicQueue' = Tail(nicQueue)
      /\ unanswered' = [unanswered EXCEPT ![source[Head(nicQueue)]] = @ + 1]
      /\ UNCHANGED <<node, free_buf, leaked, source, infly_budget, ringVars>>
  BY DEF CompleteSend, workerVars
<1>2. /\ infly_budget \in [Workers -> Nat] /\ unanswered \in [Workers -> Nat]
      /\ source \in [Buffers -> Workers]
  BY DEF Conserved, Budgets
<1>3. PICK b \in Buffers :
        /\ b = Head(nicQueue) /\ Elements(nicQueue) = {b} \union Elements(nicQueue')
        /\ b \notin Elements(nicQueue')
  <2>1. nicQueue \in Seq(Buffers) /\ nicQueue # <<>> /\ IsInjective(nicQueue)
    BY <1>1, RingApart DEF IInv, Types
  <2> QED
    BY <1>1, <2>1, HeadElements
<1>4. PICK w \in Workers : w = source[b]
  BY <1>2
<1>5. unanswered' = [unanswered EXCEPT ![w] = unanswered[w] + 1]
  BY <1>1, <1>3, <1>4
<1>6. /\ Elements(Reaped(sendCq)') = Elements(Reaped(sendCq)) \union {b}
      /\ b \notin Elements(Reaped(sendCq)) /\ b \notin free_buf
  <2>1. /\ Elements(InSendRing) = Elements(Reaped(sendCq)) \union Elements(nicQueue)
        /\ Elements(Reaped(sendCq)) \intersect Elements(nicQueue) = {}
        /\ Elements(InSendRing) \intersect Gone = {}
    BY RingApart
  <2>2. /\ Elements(InSendRing') = Elements(Reaped(sendCq)') \union Elements(nicQueue')
        /\ Elements(Reaped(sendCq)') \intersect Elements(nicQueue') = {}
    BY RingApartAfter
  <2>3. InSendRing' = InSendRing
    BY <1>1, SendRingStays
  <2> QED
    BY <2>1, <2>2, <2>3, <1>3 DEF Gone
<1>7. InFlight' = InFlight \ {b} /\ b \in InFlight
  BY <1>1, <1>6 DEF InFlight
<1>8. /\ Of(w)' = Of(w) \ {b} /\ b \in Of(w)
      /\ \A v \in Workers : v # w => Of(v)' = Of(v)
  BY <1>1, <1>7, <1>4 DEF Of
<1>9. Cardinality(Of(w)') = Cardinality(Of(w)) - 1
  BY <1>8, FiniteBuffers, FS_RemoveElement
<1>10. Budgets'
  <2>1. unanswered[w] + 1 \in Nat
    BY <1>2, <1>4
  <2> QED
    BY <1>1, <1>2, <1>5, <2>1 DEF Budgets
<1>11. ASSUME NEW v \in Workers
       PROVE  infly_budget'[v] + unanswered'[v] + Cardinality(Of(v)')
                = infly_budget[v] + unanswered[v] + Cardinality(Of(v))
  <2>1. CASE v = w
    <3>1. /\ infly_budget'[w] = infly_budget[w] /\ unanswered'[w] = unanswered[w] + 1
          /\ infly_budget[w] \in Nat /\ unanswered[w] \in Nat /\ Cardinality(Of(w)) \in Nat
      BY <1>1, <1>2, <1>4, <1>5, FiniteBuffers
    <3> QED
      BY <1>9, <2>1, <3>1
  <2>2. CASE v # w
    BY <1>1, <1>2, <1>8, <1>5, <2>2
  <2> QED
    BY <2>1, <2>2
<1>12. WorkerNum' = WorkerNum /\ node' = node
  BY <1>1 DEF WorkerNum
<1> QED
  BY <1>10, <1>11, <1>12 DEF Conserved

\* A burst frees what was not in flight any more.
LEMMA TxBurstConserved ==
  ASSUME IInv, Conserved, TxBurst
  PROVE  Conserved'
<1>1. /\ free_buf' = free_buf \union Elements(Reaped(sendCq)) /\ sendCq' = sendCq - sendCq
      /\ UNCHANGED <<node, source, infly_budget, unanswered>>
  BY DEF TxBurst, Polled, workerVars
<1>2. sendCq' = 0
  BY <1>1 DEF IInv, Types
<1>3. Elements(Reaped(sendCq)') = {}
  BY <1>2 DEF Reaped, Elements
<1>4. InFlight' = InFlight
  BY <1>1, <1>3 DEF InFlight
<1>5. \A v : Of(v)' = Of(v)
  BY <1>1, <1>4 DEF Of
<1> QED
  BY <1>1, <1>5 DEF Conserved, Budgets, WorkerNum

\* Every step conserves the budgets.
LEMMA StepConserved ==
  IInv /\ IInv' /\ Accounted /\ Accounted' /\ Conserved /\ [Next]_vars => Conserved'
<1> SUFFICES ASSUME IInv, IInv', Accounted, Accounted', Conserved, [Next]_vars PROVE Conserved'
  OBVIOUS
<1>1. ASSUME NEW w \in Workers, ApplyMbufs(w) PROVE Conserved'
  BY <1>1, ApplyMbufsConserved
<1>2. ASSUME NEW w \in Workers, EnqueuePkt(w) \/ DropPkt(w) PROVE Conserved'
  BY <1>2, ConservedStays DEF EnqueuePkt, DropPkt, ringVars, nicVars
<1>3. ASSUME NEW w \in Workers, ReturnBudget(w) PROVE Conserved'
  BY <1>3, ReturnBudgetConserved
<1>4. CASE CollectBegin \/ CollectCompare \/ CollectReread \/ CollectDequeue \/ CollectEnd
  BY <1>4, ConservedStays
  DEF CollectBegin, CollectCompare, CollectReread, CollectDequeue, CollectEnd, workerVars,
      ringVars, nicVars
<1>5. CASE TxBurst
  BY <1>5, TxBurstConserved
<1>6. CASE CompleteSend
  BY <1>6, CompleteSendConserved
<1>7. CASE UNCHANGED vars
  BY <1>7, ConservedStays DEF vars, workerVars, ringVars, nicVars
<1> QED
  BY <1>1, <1>2, <1>3, <1>4, <1>5, <1>6, <1>7 DEF Next

\* All that holds of every reachable state.
AccountInv == IInv /\ Accounted /\ Conserved

(* The counts and budgets of AccountInv hold in every reachable state. *)
LEMMA AccountInvariance == Spec => []AccountInv
<1>1. Init => AccountInv
  BY InitIInv, InitAccounted, InitConserved DEF AccountInv
<1>2. AccountInv /\ [Next]_vars => AccountInv'
  BY StepIInv, StepAccounted, StepConserved DEF AccountInv
<1> QED
  BY <1>1, <1>2, PTL DEF Spec

\* A worker that is no worker of the node has no budget; the others have no more
\* than they started with.
LEMMA BudgetBounds ==
  ASSUME IInv, Conserved, NEW w \in Workers
  PROVE  /\ infly_budget[w] \in 0 .. node.budget /\ unanswered[w] \in 0 .. node.budget
         /\ Cardinality(Of(w)) \in 0 .. node.budget
         /\ infly_budget[w] + Cardinality(Of(w)) <= node.budget
         /\ w >= WorkerNum => infly_budget[w] = 0 /\ unanswered[w] = 0 /\ Of(w) = {}
<1>1. /\ node.budget \in Nat /\ infly_budget[w] \in Nat /\ unanswered[w] \in Nat
      /\ Cardinality(Of(w)) \in Nat /\ IsFiniteSet(Of(w))
  BY NodeFacts, FiniteBuffers DEF IInv, Types, Conserved, Budgets
<1>2. infly_budget[w] + unanswered[w] + Cardinality(Of(w)) = IF w < WorkerNum THEN node.budget ELSE 0
  BY DEF Conserved
<1>3. w \in Nat /\ WorkerNum \in Nat
  BY NodeFacts DEF IInv, Types, Workers
<1>4. infly_budget[w] + unanswered[w] + Cardinality(Of(w)) <= node.budget
  BY <1>1, <1>2
<1>5. w >= WorkerNum => infly_budget[w] = 0 /\ unanswered[w] = 0 /\ Cardinality(Of(w)) = 0
  BY <1>1, <1>2, <1>3
<1>6. Cardinality(Of(w)) = 0 => Of(w) = {}
  BY <1>1, FS_EmptySet
<1> QED
  BY <1>1, <1>4, <1>5, <1>6

\* Budget that is still there bounds the packets in flight.
LEMMA InFlightBound ==
  ASSUME IInv, Conserved, NEW v \in 0 .. WorkerNum - 1, NEW t \in 0 .. infly_budget[v]
  PROVE  Cardinality(InFlight) <= WorkerNum * node.budget - t
<1> DEFINE N == WorkerNum
           c == node.budget
           f == [b \in InFlight |-> source[b]]
<1>1. N \in Nat /\ c \in Nat /\ \A w \in 0 .. N - 1 : w \in Workers
  BY NodeFacts, TxRingAssumption DEF IInv, Types, Workers
<1>2. f \in [InFlight -> 0 .. N - 1]
  <2> SUFFICES ASSUME NEW b \in InFlight PROVE source[b] \in 0 .. N - 1
    OBVIOUS
  <2>1. source[b] \in Workers
    BY DEF Conserved, Budgets, InFlight
  <2>2. b \in Of(source[b])
    BY DEF Of
  <2>3. ~(source[b] >= WorkerNum)
    BY <2>1, <2>2, BudgetBounds
  <2> QED
    BY <2>1, <2>3, <1>1 DEF Workers
<1>3. \A w \in 0 .. N - 1 : Class(f, w) = Of(w)
  BY DEF Of, Class
<1>4. /\ \A w \in 0 .. N - 1 : Cardinality(Of(w)) <= c
      /\ Cardinality(Of(v)) <= c - t /\ t \in 0 .. c
  <2>1. ASSUME NEW w \in 0 .. N - 1
        PROVE  /\ infly_budget[w] \in 0 .. c /\ Cardinality(Of(w)) \in 0 .. c
               /\ infly_budget[w] + Cardinality(Of(w)) <= c
    BY <1>1, BudgetBounds
  <2>2. v \in 0 .. N - 1
    OBVIOUS
  <2> HIDE DEF c, N
  <2>3. /\ infly_budget[v] \in 0 .. c /\ Cardinality(Of(v)) \in 0 .. c
        /\ infly_budget[v] + Cardinality(Of(v)) <= c
    BY <2>1, <2>2
  <2>4. t \in Nat /\ t <= infly_budget[v] /\ Cardinality(Of(v)) \in Nat /\ c \in Nat
    BY <1>1, <2>3
  <2>5. Cardinality(Of(v)) <= c - t /\ t \in 0 .. c
    BY <2>3, <2>4
  <2> QED
    BY <2>1, <2>5
<1>5. IsFiniteSet(InFlight)
  BY FiniteBuffers
<1> HIDE DEF N, c, f
<1>6. v \in 0 .. N - 1
  BY DEF N
<1>7. Cardinality(InFlight) <= N * c - t
  BY <1>1, <1>2, <1>3, <1>4, <1>5, <1>6, ClassesBound
<1> QED
  BY <1>7 DEF N, c

\* A buffer is free, done or in flight.
LEMMA PoolShared ==
  ASSUME IInv, Accounted
  PROVE  /\ Cardinality(free_buf) \in Nat /\ Cardinality(InFlight) \in Nat
         /\ Cardinality(free_buf) + sendCq + Cardinality(InFlight) = PoolSize
<1> DEFINE done == Elements(Reaped(sendCq))
<1>1. /\ Reaped(sendCq) \in Seq(Buffers) /\ Len(Reaped(sendCq)) = sendCq
      /\ IsInjective(Reaped(sendCq)) /\ done \intersect free_buf = {}
      /\ done \subseteq Buffers /\ free_buf \subseteq Buffers
  BY RingHolds, RingApart DEF IInv, Types, Gone
<1>2. IsFiniteSet(done) /\ Cardinality(done) = sendCq /\ sendCq \in Nat
  BY <1>1, CountElements DEF IInv, Types
<1> HIDE DEF done
<1>3. /\ IsFiniteSet(Buffers) /\ Cardinality(Buffers) = PoolSize /\ PoolSize \in Nat
      /\ IsFiniteSet(free_buf) /\ Cardinality(free_buf) \in Nat
      /\ IsFiniteSet(InFlight) /\ Cardinality(InFlight) \in Nat
  BY <1>1, FiniteBuffers, FS_Subset, FS_CardinalityType
<1>4. /\ IsFiniteSet(free_buf \union done)
      /\ Cardinality(free_buf \union done) = Cardinality(free_buf) + sendCq
  <2>1. /\ IsFiniteSet(free_buf \union done)
        /\ Cardinality(free_buf \union done)
             = Cardinality(free_buf) + Cardinality(done) - Cardinality(free_buf \intersect done)
    BY <1>2, <1>3, FS_Union
  <2>2. Cardinality(free_buf \intersect done) = 0
    BY <1>1, FS_EmptySet
  <2> QED
    BY <1>2, <1>3, <2>1, <2>2
<1>5. Cardinality(InFlight)
        = Cardinality(Buffers) - Cardinality(Buffers \intersect (free_buf \union done))
  BY <1>3, FS_Difference DEF InFlight, done
<1>6. Buffers \intersect (free_buf \union done) = free_buf \union done
  BY <1>1
<1> QED
  BY <1>2, <1>3, <1>4, <1>5, <1>6

\* A worker that has budget for a batch finds a batch: the budgets leave at least
\* that many buffers neither in flight nor waiting to be reaped.
LEMMA AccountPoolSuffices == AccountInv => PoolSuffices
<1> SUFFICES ASSUME AccountInv, PoolSize >= WorkerNum * node.budget + RingSize,
                    NEW w \in Workers, infly_budget[w] >= TxBatch
             PROVE  Cardinality(free_buf) >= TxBatch
  BY DEF PoolSuffices
<1> USE DEF AccountInv
<1>1. /\ TxBatch \in Nat \ {0} /\ RingSize \in Nat /\ node.budget \in Nat /\ WorkerNum \in Nat
      /\ infly_budget[w] \in Nat /\ w \in Nat
  BY NodeFacts, TxRingAssumption DEF IInv, Types, Conserved, Budgets, Workers
<1>2. w \in 0 .. WorkerNum - 1
  BY <1>1, BudgetBounds
<1>3. TxBatch \in 0 .. infly_budget[w]
  BY <1>1
<1>4. Cardinality(InFlight) <= WorkerNum * node.budget - TxBatch
  BY <1>2, <1>3, InFlightBound
<1>5. sendCq \in Nat /\ sendCq <= RingSize
  <2>1. /\ sendCq \in Nat /\ free_send_wr_num_ \in Nat /\ nicQueue \in Seq(Buffers)
        /\ sendCq + Len(nicQueue) + free_send_wr_num_ = RingSize
    BY DEF IInv, Types, Parts
  <2>2. Len(nicQueue) \in Nat
    BY <2>1, LenProperties
  <2> QED
    BY <1>1, <2>1, <2>2
<1>6. /\ Cardinality(free_buf) \in Nat /\ Cardinality(InFlight) \in Nat
      /\ Cardinality(free_buf) + sendCq + Cardinality(InFlight) = PoolSize
  BY PoolShared
<1>7. WorkerNum * node.budget \in Nat /\ PoolSize \in Nat
  BY <1>1, FiniteBuffers
<1> DEFINE all == WorkerNum * node.budget
<1> HIDE DEF all
<1>8. /\ all \in Nat /\ PoolSize >= all + RingSize /\ Cardinality(InFlight) <= all - TxBatch
  BY <1>4, <1>7 DEF all
<1> QED
  BY <1>1, <1>5, <1>6, <1>7, <1>8

\* However many workers, however they interleave and however much is dropped: with
\* a pool for all budgets and the ring, alloc_bulk always finds its batch.
THEOREM PoolSufficesAlways == Spec => []PoolSuffices
BY AccountInvariance, AccountPoolSuffices, PTL

-----------------------------------------------------------------------------
(* Room in tx_queue_ *)

\* The dispatcher's own workers are all there are.
AtHome == node.home = 0 .. WorkerNum - 1

\* Either so, or the ring has an entry for whatever the budgets allow.
Room == AtHome \/ WorkerNum * node.budget <= RingSize

RoomForAll ==
  \A n \in Nodes : n.home = 0 .. n.workerNum - 1 \/ n.workerNum * n.budget <= n.ringSize

\* The counters of collect_tx_pkts, and the workers that are none.
Counters ==
  /\ flushing \in BOOLEAN
  /\ nb_collect_queue \in 0 .. WorkerNum
  /\ collecting \in {"compared", "sized"} => nb_collect_queue < WorkerNum
  /\ collecting # "sized" => tx_size = 0
  /\ collecting = "no" => remain_ring_size = 0
  /\ \A w \in Workers : Len(queue[w]) <= QueueCap
  /\ \A w \in Workers : w >= WorkerNum => hand[w] = <<>>

\* While the dispatcher collects, its own workers enqueue nothing.
HandsRest == AtHome /\ collecting # "no" => \A w \in Workers : hand[w] = <<>>

\* What the dispatcher has read of sizes while collecting is still true.
InRoom ==
  /\ Len(tx_queue_) <= RingSize
  /\ collecting # "no" => remain_ring_size = RingSize - Len(tx_queue_)
  /\ collecting = "compared" => Len(SelectedQueue) <= remain_ring_size
  /\ collecting = "sized" => tx_size <= remain_ring_size

\* Everything starts at zero.
LEMMA InitRoom == Init => Counters /\ HandsRest /\ InRoom
<1> SUFFICES ASSUME Init PROVE Counters /\ HandsRest /\ InRoom
  OBVIOUS
<1>1. WorkerNum \in Nat \ {0} /\ RingSize \in Nat \ {0} /\ QueueCap \in Nat \ {0}
  BY NodeFacts, TxRingAssumption DEF Init
<1>2. Counters
  <2>1. flushing \in BOOLEAN
    BY Zenon DEF Init
  <2>2. /\ nb_collect_queue \in 0 .. WorkerNum /\ collecting = "no" /\ tx_size = 0
        /\ remain_ring_size = 0 /\ \A w \in Workers : queue[w] = <<>> /\ hand[w] = <<>>
    BY <1>1 DEF Init
  <2>3. \A w \in Workers : Len(queue[w]) <= QueueCap
    BY <1>1, <2>2
  <2> QED
    BY <2>1, <2>2, <2>3 DEF Counters
<1>3. HandsRest /\ InRoom
  BY <1>1 DEF Init, HandsRest, InRoom
<1> QED
  BY <1>2, <1>3

\* The worker steps and the counters.
LEMMA WorkerCounters ==
  ASSUME IInv, Conserved, Counters, NEW w \in Workers,
         ApplyMbufs(w) \/ EnqueuePkt(w) \/ DropPkt(w) \/ ReturnBudget(w)
  PROVE  Counters'
<1>1. /\ UNCHANGED <<node, collectVars, flushing>> /\ WorkerNum' = WorkerNum
      /\ hand \in [Workers -> Seq(Buffers)] /\ queue \in [Workers -> Seq(Buffers)]
  BY DEF ApplyMbufs, EnqueuePkt, DropPkt, ReturnBudget, WorkerNum, IInv, Types
<1>2. ASSUME w >= WorkerNum PROVE hand'[w] = <<>>
  <2>1. infly_budget[w] = 0 /\ hand[w] = <<>> /\ TxBatch \in Nat \ {0}
    BY <1>2, BudgetBounds, TxRingAssumption DEF Counters
  <2>2. ~ ApplyMbufs(w) /\ ~ EnqueuePkt(w) /\ ~ DropPkt(w)
    BY <2>1 DEF ApplyMbufs, EnqueuePkt, DropPkt
  <2> QED
    BY <2>1, <2>2 DEF ReturnBudget
<1>3. \A v \in Workers : v # w => hand'[v] = hand[v] /\ queue'[v] = queue[v]
  BY <1>1 DEF ApplyMbufs, EnqueuePkt, DropPkt, ReturnBudget
<1>4. Len(queue'[w]) <= QueueCap
  <2>1. CASE EnqueuePkt(w)
    <3>1. /\ queue'[w] = Append(queue[w], Head(hand[w])) /\ Len(queue[w]) < QueueCap
          /\ hand[w] # <<>> /\ hand[w] \in Seq(Buffers) /\ queue[w] \in Seq(Buffers)
      BY <2>1, <1>1 DEF EnqueuePkt
    <3>2. Head(hand[w]) \in Buffers
      BY <3>1, HeadTailProperties
    <3>3. Len(queue'[w]) = Len(queue[w]) + 1 /\ Len(queue[w]) \in Nat /\ QueueCap \in Nat
      BY <3>1, <3>2, AppendProperties, LenProperties, TxRingAssumption
    <3> QED
      BY <3>1, <3>3
  <2>2. CASE ~ EnqueuePkt(w)
    BY <2>2 DEF ApplyMbufs, DropPkt, ReturnBudget, Counters
  <2> QED
    BY <2>1, <2>2
<1> QED
  BY <1>1, <1>2, <1>3, <1>4 DEF Counters, collectVars

\* The dispatcher's and the NIC's steps and the counters.
LEMMA DispatcherCounters ==
  ASSUME IInv, Counters,
         \/ CollectBegin \/ CollectCompare \/ CollectReread \/ CollectDequeue \/ CollectEnd
         \/ TxBurst \/ CompleteSend
  PROVE  Counters'
<1>1. /\ WorkerNum \in Nat \ {0} /\ node' = node /\ WorkerNum' = WorkerNum /\ hand' = hand
      /\ nb_collect_queue \in Nat
  BY NodeFacts DEF IInv, Types, Counters, CollectBegin, CollectCompare, CollectReread,
     CollectDequeue, CollectEnd, TxBurst, CompleteSend, workerVars, WorkerNum
<1>2. \A w \in Workers : Len(queue'[w]) <= QueueCap
  <2>1. CASE CollectDequeue
    <3> DEFINE i == ws_queue_idx_
    <3>1. /\ i \in Workers /\ queue[i] \in Seq(Buffers) /\ queue \in [Workers -> Seq(Buffers)]
          /\ tx_size \in Nat /\ tx_size <= Len(queue[i])
          /\ queue' = [queue EXCEPT ![i] = SubSeq(queue[i], tx_size + 1, Len(queue[i]))]
      BY <2>1, SelectedWorker DEF CollectDequeue, IInv, Types, SizeHolds
    <3> HIDE DEF i
    <3>2. \A v \in Workers : v # i => queue'[v] = queue[v]
      BY <3>1
    <3>3. Len(queue[i]) \in Nat /\ \A k \in 1 .. Len(queue[i]) : queue[i][k] \in Buffers
      BY <3>1, LenProperties, ElementOfSeq
    <3>4. Len(SubSeq(queue[i], tx_size + 1, Len(queue[i])))
            = IF tx_size + 1 <= Len(queue[i]) THEN Len(queue[i]) - (tx_size + 1) + 1 ELSE 0
      <4>1. \A k \in tx_size + 1 .. Len(queue[i]) : queue[i][k] \in Buffers
        BY <3>1, <3>3
      <4> QED
        BY <3>1, <3>3, <4>1, SubSeqProperties
    <3>5. Len(queue'[i]) <= Len(queue[i]) /\ Len(queue'[i]) \in Nat /\ QueueCap \in Nat
      BY <3>1, <3>3, <3>4, TxRingAssumption
    <3>6. Len(queue[i]) <= QueueCap
      BY <3>1 DEF Counters
    <3>7. Len(queue'[i]) <= QueueCap
      BY <3>3, <3>5, <3>6
    <3> QED
      BY <3>2, <3>7 DEF Counters
  <2>2. CASE ~ CollectDequeue
    <3>1. queue' = queue
      BY <2>2 DEF CollectBegin, CollectCompare, CollectReread, CollectEnd, TxBurst, CompleteSend
    <3> QED
      BY <3>1 DEF Counters
  <2> QED
    BY <2>1, <2>2
<1>3. /\ nb_collect_queue' \in 0 .. WorkerNum
      /\ collecting' \in {"compared", "sized"} => nb_collect_queue' < WorkerNum
  <2>1. CASE CollectBegin
    BY <2>1, <1>1 DEF CollectBegin
  <2>2. CASE CollectCompare
    BY <2>2, <1>1 DEF CollectCompare, Counters
  <2>3. CASE CollectReread
    BY <2>3, <1>1 DEF CollectReread, Counters
  <2>4. CASE CollectDequeue
    BY <2>4, <1>1 DEF CollectDequeue, Counters
  <2>5. CASE CollectEnd
    BY <2>5, <1>1 DEF CollectEnd
  <2>6. CASE TxBurst \/ CompleteSend
    BY <2>6, <1>1 DEF TxBurst, CompleteSend, collectVars, Counters
  <2> QED
    BY <2>1, <2>2, <2>3, <2>4, <2>5, <2>6
<1>4. /\ collecting' # "sized" => tx_size' = 0
      /\ collecting' = "no" => remain_ring_size' = 0
  <2>1. CASE CollectBegin \/ CollectEnd
    BY <2>1 DEF CollectBegin, CollectEnd, DispatcherBetweenPhases, Counters
  <2>2. CASE CollectCompare \/ CollectReread \/ CollectDequeue
    BY <2>2 DEF CollectCompare, CollectReread, CollectDequeue
  <2>3. CASE TxBurst \/ CompleteSend
    BY <2>3 DEF TxBurst, CompleteSend, collectVars, Counters
  <2> QED
    BY <2>1, <2>2, <2>3
<1>5. flushing' \in BOOLEAN
  <2>1. CASE TxBurst
    <3>1. flushing' = (Lesser(free_send_wr_num_ + Polled, Len(tx_queue_)) < Len(tx_queue_))
      BY <2>1, Zenon DEF TxBurst
    <3>2. (Lesser(free_send_wr_num_ + Polled, Len(tx_queue_)) < Len(tx_queue_)) \in BOOLEAN
      BY SMT
    <3> QED
      BY <3>1, <3>2, Zenon
  <2>2. CASE ~ TxBurst
    <3>1. flushing' = flushing
      BY <2>2 DEF CollectBegin, CollectCompare, CollectReread, CollectDequeue, CollectEnd,
         CompleteSend
    <3>2. flushing \in BOOLEAN
      BY DEF Counters
    <3> QED
      BY <3>1, <3>2, Zenon
  <2> QED
    BY <2>1, <2>2
<1> QED
  BY <1>1, <1>2, <1>3, <1>4, <1>5 DEF Counters

\* A queue and tx_queue_ hold packets that are in flight.
LEMMA QueuesInFlight ==
  ASSUME AccountInv, NEW w \in Workers
  PROVE  Len(queue[w]) + Len(tx_queue_) <= WorkerNum * node.budget
<1> USE DEF AccountInv
<1> DEFINE q == Elements(queue[w])
           t == Elements(tx_queue_)
<1>1. /\ queue[w] \in Seq(Buffers) /\ tx_queue_ \in Seq(Buffers)
      /\ Len(queue[w]) \in Nat /\ Len(tx_queue_) \in Nat
  BY LenProperties DEF IInv, Types
<1>2. /\ InQueue(w) \in DOMAIN Held /\ Collecteds \in DOMAIN Held /\ Posted \in DOMAIN Held
      /\ InQueue(w) # Collecteds /\ InQueue(w) # Posted /\ Collecteds # Posted
      /\ Held[InQueue(w)] = queue[w] /\ Held[Collecteds] = tx_queue_ /\ Held[Posted] = InSendRing
  BY HolderNames, HolderContents DEF Held
<1>3. /\ IsInjective(queue[w]) /\ IsInjective(tx_queue_) /\ q \intersect t = {}
      /\ q \intersect Gone = {} /\ t \intersect Gone = {}
      /\ q \intersect Elements(InSendRing) = {} /\ t \intersect Elements(InSendRing) = {}
      /\ q \subseteq Buffers /\ t \subseteq Buffers
  BY <1>2 DEF Accounted, Apart
<1>4. /\ IsFiniteSet(q) /\ Cardinality(q) = Len(queue[w])
      /\ IsFiniteSet(t) /\ Cardinality(t) = Len(tx_queue_)
  BY <1>1, <1>3, CountElements
<1>5. Elements(Reaped(sendCq)) \subseteq Elements(InSendRing)
  BY RingApart
<1> HIDE DEF q, t
<1>6. q \union t \subseteq InFlight
  BY <1>3, <1>5 DEF InFlight, Gone
<1>7. Cardinality(q \union t) = Len(queue[w]) + Len(tx_queue_)
  <2>1. Cardinality(q \union t) = Cardinality(q) + Cardinality(t) - Cardinality(q \intersect t)
    BY <1>4, FS_Union
  <2>2. Cardinality(q \intersect t) = 0
    BY <1>3, FS_EmptySet
  <2> QED
    BY <1>1, <1>4, <2>1, <2>2
<1>8. Cardinality(q \union t) <= Cardinality(InFlight) /\ Cardinality(InFlight) \in Nat
  BY <1>6, FiniteBuffers, FS_Subset, FS_CardinalityType
<1>9. Cardinality(InFlight) <= WorkerNum * node.budget
  <2>1. /\ WorkerNum \in Nat \ {0} /\ node.budget \in Nat /\ 0 \in Workers
    BY NodeFacts, TxRingAssumption DEF IInv, Types, Workers
  <2>2. 0 \in 0 .. WorkerNum - 1 /\ 0 \in 0 .. infly_budget[0]
    BY <2>1 DEF Conserved, Budgets
  <2>3. Cardinality(InFlight) <= WorkerNum * node.budget - 0
    BY <2>2, InFlightBound
  <2> DEFINE all == WorkerNum * node.budget
  <2>4. all \in Nat
    BY <2>1
  <2> HIDE DEF all
  <2>5. Cardinality(InFlight) <= all - 0
    BY <2>3 DEF all
  <2>6. Cardinality(InFlight) <= all
    BY <2>4, <2>5, <1>8
  <2> QED
    BY <2>6 DEF all
<1> DEFINE all == WorkerNum * node.budget
<1>10. all \in Nat
  BY NodeFacts DEF IInv, Types
<1> HIDE DEF all
<1>11. Cardinality(InFlight) <= all
  BY <1>9 DEF all
<1>12. Len(queue[w]) + Len(tx_queue_) <= all
  BY <1>1, <1>7, <1>8, <1>10, <1>11
<1> QED
  BY <1>12 DEF all

\* Where the budgets fit the ring, whatever is queued fits what is left of it.
InBudget ==
  AccountInv /\ WorkerNum * node.budget <= RingSize =>
    \A w \in Workers : Len(queue[w]) + Len(tx_queue_) <= RingSize

(* A worker's packets on their way are within its budget, before a step. *)
LEMMA InBudgetNow == InBudget
<1> SUFFICES ASSUME AccountInv, WorkerNum * node.budget <= RingSize, NEW w \in Workers
             PROVE  Len(queue[w]) + Len(tx_queue_) <= RingSize
  BY DEF InBudget
<1> DEFINE all == WorkerNum * node.budget
<1>1. all \in Nat /\ RingSize \in Nat
  BY NodeFacts DEF AccountInv, IInv, Types
<1>2. Len(queue[w]) + Len(tx_queue_) <= all /\ all <= RingSize
  BY QueuesInFlight
<1>3. Len(queue[w]) \in Nat /\ Len(tx_queue_) \in Nat
  BY LenProperties DEF AccountInv, IInv, Types
<1> HIDE DEF all
<1> QED
  BY <1>1, <1>2, <1>3

(* The same after it. *)
LEMMA InBudgetNext == InBudget'
BY InBudgetNow, PTL

RoomInv == AccountInv /\ Counters /\ HandsRest /\ InRoom

\* What tx_queue_ and the workers' queues hold is countable.
LEMMA Lengths ==
  ASSUME IInv
  PROVE  /\ node \in Nodes /\ RingSize \in Nat \ {0} /\ Len(tx_queue_) \in Nat
         /\ Len(SelectedQueue) \in Nat /\ remain_ring_size \in Nat /\ tx_size \in Nat
<1>1. node \in Nodes /\ ws_queue_idx_ \in Workers
  BY NodeFacts, TxRingAssumption DEF IInv, Types, Workers
<1> QED
  BY <1>1, NodeFacts, LenProperties DEF IInv, Types, SelectedQueue

\* At home, who has budget or packets is a worker of the dispatcher.
LEMMA WorkerAtHome ==
  ASSUME RoomInv, AtHome, NEW w \in Workers,
         ApplyMbufs(w) \/ EnqueuePkt(w) \/ DropPkt(w) \/ ReturnBudget(w)
  PROVE  collecting = "no"
<1>1. TxBatch \in Nat \ {0} /\ WorkerNum \in Nat /\ w \in Nat
  BY NodeFacts, TxRingAssumption DEF RoomInv, AccountInv, IInv, Types, Workers
<1>2. CASE ApplyMbufs(w) \/ ReturnBudget(w)
  <2>1. infly_budget[w] # 0 \/ unanswered[w] # 0
    BY <1>1, <1>2 DEF ApplyMbufs, ReturnBudget
  <2>2. ~(w >= WorkerNum)
    BY <2>1, BudgetBounds DEF RoomInv, AccountInv
  <2>3. w \in node.home
    BY <1>1, <2>2 DEF AtHome
  <2> QED
    BY <1>2, <2>3 DEF ApplyMbufs, ReturnBudget, WorkerMayRun, DispatcherBetweenPhases
<1>3. CASE EnqueuePkt(w) \/ DropPkt(w)
  BY <1>3 DEF EnqueuePkt, DropPkt, RoomInv, HandsRest
<1> QED
  BY <1>2, <1>3

\* A worker's step leaves the sizes true.
LEMMA WorkerRoom ==
  ASSUME Room, RoomInv, AccountInv', NEW w \in Workers,
         ApplyMbufs(w) \/ EnqueuePkt(w) \/ DropPkt(w) \/ ReturnBudget(w)
  PROVE  HandsRest' /\ InRoom'
<1>1. /\ UNCHANGED <<node, collectVars, tx_queue_>> /\ WorkerNum' = WorkerNum
      /\ RingSize' = RingSize /\ (AtHome' <=> AtHome)
  BY DEF ApplyMbufs, EnqueuePkt, DropPkt, ReturnBudget, WorkerNum, RingSize, AtHome
<1>2. CASE AtHome
  <2>1. collecting = "no"
    BY <1>2, WorkerAtHome
  <2> QED
    BY <1>1, <2>1 DEF HandsRest, InRoom, RoomInv, collectVars
<1>3. CASE ~AtHome
  <2>1. WorkerNum' * node'.budget <= RingSize'
    BY <1>1, <1>3 DEF Room
  <2>2. \A v \in Workers : Len(queue'[v]) + Len(tx_queue_') <= RingSize'
    BY <2>1, InBudgetNext DEF InBudget
  <2>3. ws_queue_idx_' \in Workers /\ IInv'
    BY <1>1, SelectedWorker DEF RoomInv, AccountInv, collectVars
  <2>4. Len(queue'[ws_queue_idx_']) \in Nat /\ Len(tx_queue_') \in Nat /\ RingSize' \in Nat
    <3>1. queue' \in [Workers -> Seq(Buffers)] /\ tx_queue_' \in Seq(Buffers)
      BY <2>3 DEF IInv, Types
    <3>2. RingSize \in Nat
      BY NodeFacts DEF RoomInv, AccountInv, IInv, Types
    <3> QED
      BY <1>1, <2>3, <3>1, <3>2, LenProperties
  <2>5. Len(queue'[ws_queue_idx_']) <= RingSize' - Len(tx_queue_')
    BY <2>2, <2>3, <2>4
  <2>6. SelectedQueue' = queue'[ws_queue_idx_']
    BY DEF SelectedQueue
  <2>7. InRoom'
    BY <1>1, <2>5, <2>6 DEF RoomInv, InRoom, collectVars
  <2> QED
    BY <1>1, <1>3, <2>7 DEF HandsRest
<1> QED
  BY <1>2, <1>3

\* What is collected was measured, and fits.
LEMMA CollectRoom ==
  ASSUME Room, RoomInv,
         CollectBegin \/ CollectCompare \/ CollectReread \/ CollectDequeue \/ CollectEnd
  PROVE  HandsRest' /\ InRoom'
<1> USE DEF RoomInv, AccountInv
<1>1. /\ RingSize \in Nat \ {0} /\ Len(tx_queue_) \in Nat /\ Len(SelectedQueue) \in Nat
      /\ remain_ring_size \in Nat /\ tx_size \in Nat
  BY Lengths
<1>2. /\ UNCHANGED <<node, hand>> /\ WorkerNum' = WorkerNum /\ RingSize' = RingSize
      /\ (AtHome' <=> AtHome)
  BY DEF CollectBegin, CollectCompare, CollectReread, CollectDequeue, CollectEnd, workerVars,
     WorkerNum, RingSize, AtHome
<1>3. HandsRest'
  <2>1. CASE CollectBegin
    <3>1. ASSUME AtHome, NEW w \in Workers PROVE hand[w] = <<>>
      <4>1. WorkerNum \in Nat /\ w \in Nat
        BY NodeFacts DEF IInv, Types, Workers
      <4>2. w \in node.home \/ w >= WorkerNum
        BY <3>1, <4>1 DEF AtHome
      <4> QED
        BY <2>1, <4>2 DEF CollectBegin, DispatcherMayRun, Counters
    <3> QED
      BY <1>2, <3>1 DEF HandsRest
  <2>2. CASE ~ CollectBegin
    <3>1. collecting # "no"
      BY <2>2 DEF CollectCompare, CollectReread, CollectDequeue, CollectEnd
    <3> QED
      BY <1>2, <3>1 DEF HandsRest
  <2> QED
    BY <2>1, <2>2
<1>4. InRoom'
  <2>1. CASE CollectBegin
    BY <2>1, <1>1, <1>2 DEF CollectBegin, InRoom
  <2>2. CASE CollectCompare
    <3>1. /\ UNCHANGED <<tx_queue_, queue, ws_queue_idx_, remain_ring_size>>
          /\ collecting = "next" /\ SelectedQueue' = SelectedQueue
      BY <2>2 DEF CollectCompare, SelectedQueue
    <3>2. /\ collecting' = "compared" => Len(SelectedQueue) <= remain_ring_size
          /\ collecting' = "sized" => tx_size' <= remain_ring_size
      <4>1. CASE Len(SelectedQueue) > remain_ring_size
        BY <4>1, <2>2, <1>1 DEF CollectCompare
      <4>2. CASE ~(Len(SelectedQueue) > remain_ring_size)
        BY <4>2, <2>2, <1>1 DEF CollectCompare
      <4> QED
        BY <4>1, <4>2
    <3> QED
      BY <1>2, <3>1, <3>2 DEF InRoom
  <2>3. CASE CollectReread
    <3>1. /\ UNCHANGED <<tx_queue_, remain_ring_size>> /\ collecting = "compared"
          /\ tx_size' = Len(SelectedQueue) /\ collecting' = "sized"
      BY <2>3 DEF CollectReread
    <3> QED
      BY <1>2, <3>1 DEF InRoom
  <2>4. CASE CollectDequeue
    <3>1. /\ collecting = "sized" /\ collecting' = "next"
          /\ tx_queue_' = tx_queue_ \o SubSeq(SelectedQueue, 1, tx_size)
          /\ tx_size <= remain_ring_size /\ remain_ring_size = RingSize - Len(tx_queue_)
      BY <2>4 DEF CollectDequeue, Collected, InRoom
    <3>2. remain_ring_size' = remain_ring_size - tx_size
      BY <2>4, <3>1 DEF CollectDequeue
    <3>3. Len(tx_queue_') = Len(tx_queue_) + tx_size
      <4>1. /\ SelectedQueue \in Seq(Buffers) /\ tx_queue_ \in Seq(Buffers)
            /\ tx_size \in 0 .. Len(SelectedQueue)
        BY <1>1, <3>1, SelectedWorker DEF IInv, Types, SizeHolds, SelectedQueue
      <4>2. /\ SubSeq(SelectedQueue, 1, tx_size) \in Seq(Buffers)
            /\ Len(SubSeq(SelectedQueue, 1, tx_size)) = tx_size
        BY <4>1, CutSequence
      <4> QED
        BY <3>1, <4>1, <4>2, ConcatProperties
    <3>4. Len(tx_queue_') <= RingSize /\ remain_ring_size' = RingSize - Len(tx_queue_')
      BY <1>1, <3>1, <3>2, <3>3
    <3> QED
      BY <1>2, <3>1, <3>4 DEF InRoom
  <2>5. CASE CollectEnd
    BY <2>5, <1>2 DEF CollectEnd, InRoom
  <2> QED
    BY <2>1, <2>2, <2>3, <2>4, <2>5
<1> QED
  BY <1>3, <1>4

\* A burst only takes from tx_queue_, the NIC does not touch it.
LEMMA SendRoom ==
  ASSUME RoomInv, TxBurst \/ CompleteSend
  PROVE  HandsRest' /\ InRoom'
<1> USE DEF RoomInv, AccountInv
<1>1. /\ UNCHANGED <<node, hand, collectVars>> /\ RingSize' = RingSize /\ (AtHome' <=> AtHome)
  BY DEF TxBurst, CompleteSend, workerVars, RingSize, AtHome, WorkerNum
<1>2. HandsRest'
  BY <1>1 DEF HandsRest, collectVars
<1>3. InRoom'
  <2>1. CASE TxBurst
    <3> DEFINE n == Lesser(free_send_wr_num_ + sendCq, Len(tx_queue_))
    <3>1. /\ RingSize \in Nat \ {0} /\ Len(tx_queue_) \in Nat /\ tx_queue_ \in Seq(Buffers)
          /\ n \in 0 .. Len(tx_queue_)
      <4>1. free_send_wr_num_ \in Nat /\ sendCq \in Nat /\ tx_queue_ \in Seq(Buffers)
        BY DEF IInv, Types
      <4> QED
        BY <4>1, Lengths DEF Lesser
    <3>2. tx_queue_' = SubSeq(tx_queue_, n + 1, Len(tx_queue_)) /\ collecting = "no"
      BY <2>1 DEF TxBurst, Polled
    <3>3. \A i \in n + 1 .. Len(tx_queue_) : tx_queue_[i] \in Buffers
      BY <3>1, ElementOfSeq
    <3>4. n + 1 \in Int /\ Len(tx_queue_) \in Int
      BY <3>1
    <3> HIDE DEF n
    <3>5. Len(SubSeq(tx_queue_, n + 1, Len(tx_queue_)))
            = IF n + 1 <= Len(tx_queue_) THEN Len(tx_queue_) - (n + 1) + 1 ELSE 0
      BY <3>3, <3>4, SubSeqProperties
    <3>6. Len(tx_queue_') <= RingSize
      BY <3>1, <3>2, <3>5 DEF InRoom
    <3> QED
      BY <1>1, <3>2, <3>6 DEF InRoom, collectVars
  <2>2. CASE CompleteSend
    BY <2>2, <1>1 DEF CompleteSend, InRoom, SelectedQueue, collectVars
  <2> QED
    BY <2>1, <2>2
<1> QED
  BY <1>2, <1>3

\* Every step keeps the counters, and the room.
LEMMA StepCounters == AccountInv /\ Counters /\ [Next]_vars => Counters'
<1> SUFFICES ASSUME AccountInv, Counters, [Next]_vars PROVE Counters'
  OBVIOUS
<1>1. ASSUME NEW w \in Workers, ApplyMbufs(w) \/ EnqueuePkt(w) \/ DropPkt(w) \/ ReturnBudget(w)
      PROVE  Counters'
  BY <1>1, WorkerCounters DEF AccountInv
<1>2. CASE \/ CollectBegin \/ CollectCompare \/ CollectReread \/ CollectDequeue \/ CollectEnd
           \/ TxBurst \/ CompleteSend
  BY <1>2, DispatcherCounters DEF AccountInv
<1>3. CASE UNCHANGED vars
  BY <1>3 DEF vars, workerVars, collectVars, Counters, WorkerNum
<1> QED
  BY <1>1, <1>2, <1>3 DEF Next

(* A step keeps what the hands hold and the room in tx_queue_. *)
LEMMA StepRoom == Room /\ RoomInv /\ AccountInv' /\ [Next]_vars => HandsRest' /\ InRoom'
<1> SUFFICES ASSUME Room, RoomInv, AccountInv', [Next]_vars PROVE HandsRest' /\ InRoom'
  OBVIOUS
<1>1. ASSUME NEW w \in Workers, ApplyMbufs(w) \/ EnqueuePkt(w) \/ DropPkt(w) \/ ReturnBudget(w)
      PROVE  HandsRest' /\ InRoom'
  BY <1>1, WorkerRoom
<1>2. CASE CollectBegin \/ CollectCompare \/ CollectReread \/ CollectDequeue \/ CollectEnd
  BY <1>2, CollectRoom
<1>3. CASE TxBurst \/ CompleteSend
  BY <1>3, SendRoom
<1>4. CASE UNCHANGED vars
  BY <1>4
  DEF vars, workerVars, collectVars, RoomInv, HandsRest, InRoom, SelectedQueue, AtHome, RingSize,
      WorkerNum
<1> QED
  BY <1>1, <1>2, <1>3, <1>4 DEF Next

(* With room for all, RoomInv holds in every reachable state. *)
LEMMA RoomInvariance == ASSUME RoomForAll PROVE Spec => []RoomInv
<1>1. AccountInv => Room
  BY DEF RoomForAll, AccountInv, IInv, Types, Room, AtHome, WorkerNum, RingSize
<1>2. Init => RoomInv
  BY InitIInv, InitAccounted, InitConserved, InitRoom DEF AccountInv, RoomInv
<1>3. AccountInv /\ [Next]_vars => AccountInv'
  BY StepIInv, StepAccounted, StepConserved DEF AccountInv
<1>4. RoomInv /\ [Next]_vars => RoomInv'
  BY <1>1, <1>3, StepCounters, StepRoom DEF RoomInv
<1> QED
  BY <1>2, <1>4, PTL DEF Spec

\* Where the dispatcher serves only workers of its own thread (a workspace in both
\* roles), the two calls of get_size() in collect_tx_pkts agree; where the budgets
\* fit the ring, they need not.  Either way tx_queue_ is never written past its end.
THEOREM TxQueueFitsWithRoom == ASSUME RoomForAll PROVE Spec => []TxQueueFits
<1>1. RoomInv => TxQueueFits
  BY DEF RoomInv, InRoom, TxQueueFits
<1> QED
  BY <1>1, RoomInvariance, PTL

\* The types of the variables follow.
LEMMA RoomTypes == RoomInv => TypeOK
<1> SUFFICES ASSUME RoomInv PROVE TypeOK
  OBVIOUS
<1> USE DEF RoomInv, AccountInv
<1>1. /\ RingSize \in Nat \ {0} /\ WorkerNum \in Nat /\ node.budget \in Nat /\ node \in Nodes
      /\ QueueCap \in Nat
  BY NodeFacts, TxRingAssumption DEF IInv, Types
<1>2. leaked \subseteq Buffers /\ free_buf \subseteq Buffers
  BY DEF Accounted, Apart, Gone
<1>3. /\ source \in [Buffers -> Workers]
      /\ infly_budget \in [Workers -> 0 .. node.budget]
      /\ unanswered \in [Workers -> 0 .. node.budget]
  <2>1. source \in [Buffers -> Workers] /\ infly_budget \in [Workers -> Nat]
        /\ unanswered \in [Workers -> Nat]
    BY DEF Conserved, Budgets
  <2>2. \A w \in Workers : infly_budget[w] \in 0 .. node.budget /\ unanswered[w] \in 0 .. node.budget
    BY BudgetBounds
  <2> QED
    BY <2>1, <2>2
<1>4. remain_ring_size \in 0 .. RingSize
  <2>1. Len(tx_queue_) \in Nat /\ remain_ring_size \in Nat
    BY LenProperties DEF IInv, Types
  <2> QED
    BY <1>1, <2>1 DEF Counters, InRoom
<1>5. tx_size \in 0 .. QueueCap
  <2>1. ws_queue_idx_ \in Workers /\ tx_size \in Nat
    BY SelectedWorker DEF IInv, Types
  <2>2. Len(queue[ws_queue_idx_]) <= QueueCap /\ Len(queue[ws_queue_idx_]) \in Nat
    BY <2>1, LenProperties DEF Counters, IInv, Types
  <2> QED
    BY <1>1, <2>1, <2>2 DEF Counters, IInv, SizeHolds
<1>6. sendCq \in 0 .. RingSize /\ free_send_wr_num_ \in 0 .. RingSize
  <2>1. /\ sendCq \in Nat /\ free_send_wr_num_ \in Nat /\ nicQueue \in Seq(Buffers)
        /\ sendCq + Len(nicQueue) + free_send_wr_num_ = RingSize
    BY DEF IInv, Types, Parts
  <2>2. Len(nicQueue) \in Nat
    BY <2>1, LenProperties
  <2> QED
    BY <1>1, <2>1, <2>2
<1>7. flushing \in BOOLEAN /\ nb_collect_queue \in 0 .. WorkerNum
  BY DEF Counters
<1>8. ws_queue_idx_ \in Workers
  BY SelectedWorker
<1>9. /\ hand \in [Workers -> Seq(Buffers)] /\ queue \in [Workers -> Seq(Buffers)]
      /\ collecting \in {"no", "next", "compared", "sized"}
      /\ tx_queue_ \in Seq(Buffers) /\ nicQueue \in Seq(Buffers)
      /\ sw_ring_ \in [Slots -> Buffers \union {0}]
      /\ send_head_ \in Slots /\ send_tail_ \in Slots
  BY DEF IInv, Types
<1> HIDE DEF RoomInv, AccountInv
<1> QED
  BY <1>1, <1>2, <1>3, <1>4, <1>5, <1>6, <1>7, <1>8, <1>9 DEF TypeOK

\* Every counter stays within its ring, its queue or its budget.
THEOREM TypeCorrect == ASSUME RoomForAll PROVE Spec => []TypeOK
BY RoomInvariance, RoomTypes, PTL

-----------------------------------------------------------------------------
(* Induction over the numbers and over sequences, for sets instead of       *)
(* predicates                                                               *)

\* A set of numbers that has one has a smallest.
LEMMA SmallestNumber ==
  ASSUME NEW T \in SUBSET Nat, T # {}
  PROVE  \E x \in T : \A y \in T : x <= y
<1> DEFINE R == OpToRel(<, Nat)
<1>1. IsWellFoundedOn(R, Nat)
  BY NatLessThanWellFounded
<1>2. \A x, y \in Nat : x < y => <<x, y>> \in R
  BY DEF OpToRel
<1> HIDE DEF R
<1>3. PICK x \in T : \A y \in T : ~(<<y, x>> \in R)
  BY <1>1, WFMin
<1>4. ASSUME NEW y \in T PROVE x <= y
  <2>1. x \in Nat /\ y \in Nat /\ ~(<<y, x>> \in R)
    BY <1>3
  <2> QED
    BY <1>2, <2>1
<1> QED
  BY <1>4

\* A set with 0 and the successor of each of its numbers has all.
LEMMA AllNumbers ==
  ASSUME NEW T \in SUBSET Nat, 0 \in T, \A n \in T : n + 1 \in T
  PROVE  T = Nat
<1> DEFINE missing == Nat \ T
<1> SUFFICES ASSUME missing # {} PROVE FALSE
  OBVIOUS
<1>1. missing \in SUBSET Nat
  OBVIOUS
<1> HIDE DEF missing
<1>2. PICK x \in missing : \A y \in missing : x <= y
  BY <1>1, SmallestNumber
<1>3. x \in Nat /\ x # 0 /\ x \notin T
  BY <1>1, <1>2 DEF missing
<1>4. x - 1 \in Nat /\ x - 1 \notin missing
  BY <1>1, <1>2, <1>3
<1> QED
  BY <1>3, <1>4 DEF missing

\* A set with the empty sequence and each of its sequences with one more
\* element has all.
LEMMA AllSequences ==
  ASSUME NEW S, NEW T, <<>> \in T,
         \A s \in Seq(S), b \in S : s \in T => Append(s, b) \in T
  PROVE  Seq(S) \subseteq T
<1> DEFINE N == {n \in Nat : \A s \in Seq(S) : Len(s) = n => s \in T}
<1>1. 0 \in N
  <2>1. ASSUME NEW s \in Seq(S), Len(s) = 0 PROVE s \in T
    BY <2>1, EmptySeq
  <2> QED
    BY <2>1
<1>2. ASSUME NEW n \in N PROVE n + 1 \in N
  <2>1. ASSUME NEW s \in Seq(S), Len(s) = n + 1 PROVE s \in T
    <3>1. n \in Nat /\ s # <<>>
      BY <1>2, <2>1
    <3>2. PICK r \in Seq(S), b \in S : s = Append(r, b)
      BY <3>1, SequenceEmptyOrAppend
    <3>3. Len(s) = Len(r) + 1 /\ Len(r) \in Nat
      BY <3>2, AppendProperties, LenProperties
    <3>4. Len(r) = n
      BY <2>1, <3>1, <3>3
    <3> QED
      BY <1>2, <3>2, <3>4
  <2> QED
    BY <1>2, <2>1
<1>3. N \in SUBSET Nat
  OBVIOUS
<1> HIDE DEF N
<1>4. N = Nat
  BY <1>1, <1>2, <1>3, AllNumbers
<1>5. ASSUME NEW s \in Seq(S) PROVE s \in T
  <2>1. Len(s) \in N
    BY <1>4, LenProperties
  <2> QED
    BY <2>1 DEF N
<1> QED
  BY <1>5

-----------------------------------------------------------------------------
(* The packets of one worker *)

\* A packet comes behind those taken before it if it is the worker's.
WithPacket(w, src, taken, b) == IF src[b] = w THEN Append(taken, b) ELSE taken

\* f is what is taken of seq after each element up to the n-th.
TakenUpTo(w, src, seq, n, f) ==
  f = [i \in 0 .. n |-> IF i = 0 THEN <<>> ELSE WithPacket(w, src, f[i - 1], seq[i])]

\* There is such a function.
LEMMA TakenExists ==
  ASSUME NEW w, NEW src, NEW seq
  PROVE  \A n \in Nat : \E f : TakenUpTo(w, src, seq, n, f)
<1> DEFINE T == {n \in Nat : \E f : TakenUpTo(w, src, seq, n, f)}
<1>1. 0 \in T
  <2> DEFINE f == [i \in 0 .. 0 |-> <<>>]
  <2>1. TakenUpTo(w, src, seq, 0, f)
    BY DEF TakenUpTo
  <2> QED
    BY <2>1
<1>2. ASSUME NEW n \in T PROVE n + 1 \in T
  <2>1. PICK f : TakenUpTo(w, src, seq, n, f)
    OBVIOUS
  <2> DEFINE e(i) == IF i <= n THEN f[i] ELSE WithPacket(w, src, f[n], seq[n + 1])
             g == [i \in 0 .. n + 1 |-> e(i)]
             h == [i \in 0 .. n + 1 |->
                     IF i = 0 THEN <<>> ELSE WithPacket(w, src, g[i - 1], seq[i])]
  <2>2. ASSUME NEW i \in 0 .. n + 1 PROVE g[i] = h[i]
    <3>1. CASE i = 0
      BY <3>1, <2>1 DEF TakenUpTo
    <3>2. CASE i # 0 /\ i <= n
      <4>1. i \in 0 .. n /\ i - 1 \in 0 .. n + 1 /\ i - 1 <= n
        BY <3>2
      <4>2. g[i] = f[i] /\ g[i - 1] = f[i - 1]
        BY <4>1, <3>2
      <4>3. f[i] = WithPacket(w, src, f[i - 1], seq[i])
        BY <4>1, <3>2, <2>1 DEF TakenUpTo
      <4>4. h[i] = WithPacket(w, src, g[i - 1], seq[i])
        BY <3>2
      <4> QED
        BY <4>2, <4>3, <4>4
    <3>3. CASE i = n + 1
      <4>1. i - 1 \in 0 .. n + 1 /\ i - 1 = n /\ ~(i <= n) /\ i # 0
        BY <3>3
      <4>2. g[i - 1] = f[n] /\ g[i] = WithPacket(w, src, f[n], seq[i])
        BY <4>1, <3>3
      <4>3. h[i] = WithPacket(w, src, g[i - 1], seq[i])
        BY <4>1
      <4> QED
        BY <4>2, <4>3
    <3> QED
      BY <3>1, <3>2, <3>3
  <2>3. DOMAIN g = 0 .. n + 1 /\ DOMAIN h = 0 .. n + 1
    OBVIOUS
  <2>4. g = h
    BY <2>2, <2>3
  <2>5. TakenUpTo(w, src, seq, n + 1, g)
    BY <2>4 DEF TakenUpTo
  <2> QED
    BY <2>5
<1>3. T \in SUBSET Nat
  OBVIOUS
<1> HIDE DEF T
<1>4. T = Nat
  BY <1>1, <1>2, <1>3, AllNumbers
<1> QED
  BY <1>4 DEF T

\* PacketsOf goes packet by packet.
LEMMA PacketByPacket ==
  ASSUME NEW w, NEW src, NEW seq, Len(seq) \in Nat
  PROVE  \E f : /\ f[0] = <<>>
                /\ \A i \in 1 .. Len(seq) : f[i] = WithPacket(w, src, f[i - 1], seq[i])
                /\ PacketsOf(w, src, seq) = f[Len(seq)]
<1> DEFINE f == CHOOSE f : f = [i \in 0 .. Len(seq) |->
                     IF i = 0 THEN <<>> ELSE IF src[seq[i]] = w THEN Append(f[i - 1], seq[i])
                     ELSE f[i - 1]]
<1>1. PacketsOf(w, src, seq) = f[Len(seq)]
  BY DEF PacketsOf
<1>2. \E g : TakenUpTo(w, src, seq, Len(seq), g)
  BY TakenExists
<1>3. f = CHOOSE g : TakenUpTo(w, src, seq, Len(seq), g)
  BY DEF TakenUpTo, WithPacket
<1> HIDE DEF f
<1>4. TakenUpTo(w, src, seq, Len(seq), f)
  BY <1>2, <1>3
<1>5. /\ f[0] = <<>>
      /\ \A i \in 1 .. Len(seq) : f[i] = WithPacket(w, src, f[i - 1], seq[i])
  BY <1>4 DEF TakenUpTo
<1> QED
  BY <1>1, <1>5

\* Nothing is taken of nothing.
LEMMA PacketsOfNone == ASSUME NEW w, NEW src PROVE PacketsOf(w, src, <<>>) = <<>>
<1>1. Len(<<>>) = 0
  OBVIOUS
<1>2. PICK f : f[0] = <<>> /\ PacketsOf(w, src, <<>>) = f[Len(<<>>)]
  BY <1>1, PacketByPacket
<1> QED
  BY <1>1, <1>2

\* One packet more.
LEMMA PacketsOfAppend ==
  ASSUME NEW w, NEW src, NEW S, NEW s \in Seq(S), NEW b \in S
  PROVE  PacketsOf(w, src, Append(s, b)) = WithPacket(w, src, PacketsOf(w, src, s), b)
<1> DEFINE t == Append(s, b)
           n == Len(s)
<1>1. /\ n \in Nat /\ Len(t) = n + 1
      /\ \A i \in 1 .. n : t[i] = s[i]
      /\ t[n + 1] = b
  BY AppendProperties, LenProperties
<1> HIDE DEF t, n
<1> DEFINE Steps(f, last) ==
             /\ f[0] = <<>>
             /\ \A i \in 1 .. last : f[i] = WithPacket(w, src, f[i - 1], t[i])
             /\ PacketsOf(w, src, t) = f[last]
<1>2. PICK f : Steps(f, n + 1)
  <2>1. Len(t) \in Nat
    BY <1>1
  <2>2. PICK f : Steps(f, Len(t))
    BY <2>1, PacketByPacket
  <2>3. Steps(f, n + 1)
    BY <1>1, <2>2
  <2> QED
    BY <2>3
<1>3. PICK g : /\ g[0] = <<>>
               /\ \A i \in 1 .. n : g[i] = WithPacket(w, src, g[i - 1], s[i])
               /\ PacketsOf(w, src, s) = g[n]
  BY <1>1, PacketByPacket DEF n
<1> DEFINE T == {i \in Nat : i <= n => f[i] = g[i]}
<1>4. T \in SUBSET Nat /\ 0 \in T
  BY <1>2, <1>3
<1>5. ASSUME NEW i \in T PROVE i + 1 \in T
  <2>1. i \in Nat
    BY <1>5
  <2>2. ASSUME i + 1 <= n PROVE f[i + 1] = g[i + 1]
    <3>1. i + 1 \in 1 .. n /\ i + 1 \in 1 .. n + 1 /\ (i + 1) - 1 = i /\ i <= n
      BY <1>1, <2>1, <2>2
    <3>2. f[i] = g[i]
      BY <1>5, <3>1
    <3>3. /\ f[i + 1] = WithPacket(w, src, f[i], t[i + 1])
          /\ g[i + 1] = WithPacket(w, src, g[i], s[i + 1])
      BY <1>2, <1>3, <3>1
    <3> QED
      BY <1>1, <3>1, <3>2, <3>3
  <2> QED
    BY <2>1, <2>2
<1> HIDE DEF T
<1>6. T = Nat
  BY <1>4, <1>5, AllNumbers
<1>7. f[n] = g[n]
  BY <1>1, <1>6 DEF T
<1>8. f[n + 1] = WithPacket(w, src, f[n], t[n + 1])
  <2>1. n + 1 \in 1 .. n + 1 /\ (n + 1) - 1 = n
    BY <1>1
  <2> QED
    BY <1>2, <2>1
<1> QED
  BY <1>1, <1>2, <1>3, <1>7, <1>8 DEF t

\* Joined and appended to, or appended to and joined.
LEMMA AppendToJoined ==
  ASSUME NEW S, NEW r \in Seq(S), NEW s \in Seq(S), NEW b \in S
  PROVE  r \o Append(s, b) = Append(r \o s, b)
<1>1. <<b>> \in Seq(S) /\ r \o s \in Seq(S)
  BY ConcatProperties
<1>2. Append(s, b) = s \o <<b>> /\ Append(r \o s, b) = (r \o s) \o <<b>>
  BY <1>1, AppendIsConcat
<1>3. (r \o s) \o <<b>> = r \o (s \o <<b>>)
  BY <1>1, ConcatAssociative
<1> QED
  BY <1>2, <1>3

\* One element more.
LEMMA AppendElements ==
  ASSUME NEW S, NEW s \in Seq(S), NEW b \in S
  PROVE  Append(s, b) \in Seq(S) /\ Elements(Append(s, b)) = Elements(s) \union {b}
<1> DEFINE one == <<b>>
<1>1. one \in Seq(S) /\ Elements(one) = {b}
  BY DEF Elements
<1>2. Append(s, b) = s \o one
  BY AppendIsConcat
<1> HIDE DEF one
<1> QED
  BY <1>1, <1>2, JoinElements

\* What is taken are packets.
LEMMA PacketsOfType ==
  ASSUME NEW w, NEW src, NEW S
  PROVE  \A s \in Seq(S) : PacketsOf(w, src, s) \in Seq(S)
<1> DEFINE T == {s \in Seq(S) : PacketsOf(w, src, s) \in Seq(S)}
<1>1. <<>> \in T
  BY PacketsOfNone, EmptySeq
<1>2. ASSUME NEW s \in Seq(S), NEW b \in S, s \in T PROVE Append(s, b) \in T
  <2>1. PacketsOf(w, src, s) \in Seq(S)
    BY <1>2
  <2>2. WithPacket(w, src, PacketsOf(w, src, s), b) \in Seq(S)
    BY <2>1, AppendProperties DEF WithPacket
  <2>3. Append(s, b) \in Seq(S)
    BY AppendProperties
  <2> QED
    BY <2>2, <2>3, PacketsOfAppend
<1>3. Seq(S) \subseteq T
  <2> HIDE DEF T
  <2> QED
    BY <1>1, <1>2, AllSequences
<1> QED
  BY <1>3

\* Those of two parts, one after the other.
LEMMA PacketsOfJoined ==
  ASSUME NEW w, NEW src, NEW S, NEW r \in Seq(S)
  PROVE  \A s \in Seq(S) : PacketsOf(w, src, r \o s) = PacketsOf(w, src, r) \o PacketsOf(w, src, s)
<1> DEFINE T == {s \in Seq(S) :
                   PacketsOf(w, src, r \o s) = PacketsOf(w, src, r) \o PacketsOf(w, src, s)}
<1>1. <<>> \in T
  <2>1. r \o <<>> = r /\ PacketsOf(w, src, r) \o <<>> = PacketsOf(w, src, r)
    BY PacketsOfType, ConcatEmptySeq
  <2> QED
    BY <2>1, PacketsOfNone, EmptySeq
<1>2. ASSUME NEW s \in Seq(S), NEW b \in S, s \in T PROVE Append(s, b) \in T
  <2>1. /\ Append(s, b) \in Seq(S) /\ r \o s \in Seq(S)
    BY AppendProperties, ConcatProperties
  <2>2. r \o Append(s, b) = Append(r \o s, b)
    BY <2>1, AppendToJoined
  <2> DEFINE p == PacketsOf(w, src, r)
             q == PacketsOf(w, src, s)
  <2>3. /\ p \in Seq(S) /\ q \in Seq(S)
        /\ PacketsOf(w, src, r \o s) = p \o q
        /\ PacketsOf(w, src, r \o Append(s, b)) = WithPacket(w, src, p \o q, b)
        /\ PacketsOf(w, src, Append(s, b)) = WithPacket(w, src, q, b)
    <3>1. PacketsOf(w, src, r \o s) = p \o q
      BY <1>2
    <3>2. PacketsOf(w, src, Append(r \o s, b)) = WithPacket(w, src, PacketsOf(w, src, r \o s), b)
      <4> DEFINE rs == r \o s
      <4>1. rs \in Seq(S)
        BY <2>1
      <4> HIDE DEF rs
      <4>2. PacketsOf(w, src, Append(rs, b)) = WithPacket(w, src, PacketsOf(w, src, rs), b)
        BY <4>1, PacketsOfAppend
      <4> QED
        BY <4>2 DEF rs
    <3>3. PacketsOf(w, src, Append(s, b)) = WithPacket(w, src, q, b)
      BY PacketsOfAppend
    <3>4. p \in Seq(S) /\ q \in Seq(S)
      BY PacketsOfType
    <3> HIDE DEF p, q
    <3> QED
      BY <2>2, <3>1, <3>2, <3>3, <3>4
  <2> HIDE DEF p, q
  <2>4. WithPacket(w, src, p \o q, b) = p \o WithPacket(w, src, q, b)
    <3>1. p \o Append(q, b) = Append(p \o q, b)
      BY <2>3, AppendToJoined
    <3> QED
      BY <3>1 DEF WithPacket
  <2>5. PacketsOf(w, src, r \o Append(s, b)) = p \o PacketsOf(w, src, Append(s, b))
    BY <2>3, <2>4
  <2> QED
    BY <2>1, <2>5 DEF p
<1>3. Seq(S) \subseteq T
  <2> HIDE DEF T
  <2> QED
    BY <1>1, <1>2, AllSequences
<1> QED
  BY <1>3

\* Packets of others are passed over; what is the worker's is all taken; and what
\* is taken depends on nothing but whose the packets are.
LEMMA PacketsOfOthers ==
  ASSUME NEW w, NEW src, NEW S
  PROVE  \A s \in Seq(S) : (\A b \in Elements(s) : src[b] # w) => PacketsOf(w, src, s) = <<>>
<1> DEFINE T == {s \in Seq(S) :
                   (\A b \in Elements(s) : src[b] # w) => PacketsOf(w, src, s) = <<>>}
<1>1. <<>> \in T
  BY PacketsOfNone, EmptySeq
<1>2. ASSUME NEW s \in Seq(S), NEW b \in S, s \in T PROVE Append(s, b) \in T
  <2>1. Append(s, b) \in Seq(S) /\ Elements(Append(s, b)) = Elements(s) \union {b}
    BY AppendElements
  <2>2. ASSUME \A c \in Elements(Append(s, b)) : src[c] # w
        PROVE  PacketsOf(w, src, Append(s, b)) = <<>>
    <3>1. PacketsOf(w, src, s) = <<>> /\ src[b] # w
      BY <1>2, <2>1, <2>2
    <3> QED
      BY <3>1, PacketsOfAppend DEF WithPacket
  <2> QED
    BY <2>1, <2>2
<1>3. Seq(S) \subseteq T
  <2> HIDE DEF T
  <2> QED
    BY <1>1, <1>2, AllSequences
<1> QED
  BY <1>3

LEMMA PacketsOfOwn ==
  ASSUME NEW w, NEW src, NEW S
  PROVE  \A s \in Seq(S) : (\A b \in Elements(s) : src[b] = w) => PacketsOf(w, src, s) = s
<1> DEFINE T == {s \in Seq(S) :
                   (\A b \in Elements(s) : src[b] = w) => PacketsOf(w, src, s) = s}
<1>1. <<>> \in T
  BY PacketsOfNone, EmptySeq
<1>2. ASSUME NEW s \in Seq(S), NEW b \in S, s \in T PROVE Append(s, b) \in T
  <2>1. Append(s, b) \in Seq(S) /\ Elements(Append(s, b)) = Elements(s) \union {b}
    BY AppendElements
  <2>2. ASSUME \A c \in Elements(Append(s, b)) : src[c] = w
        PROVE  PacketsOf(w, src, Append(s, b)) = Append(s, b)
    <3>1. PacketsOf(w, src, s) = s /\ src[b] = w
      BY <1>2, <2>1, <2>2
    <3> QED
      BY <3>1, PacketsOfAppend DEF WithPacket
  <2> QED
    BY <2>1, <2>2
<1>3. Seq(S) \subseteq T
  <2> HIDE DEF T
  <2> QED
    BY <1>1, <1>2, AllSequences
<1> QED
  BY <1>3

LEMMA PacketsOfSame ==
  ASSUME NEW w, NEW src, NEW src2, NEW S
  PROVE  \A s \in Seq(S) :
           (\A b \in Elements(s) : src2[b] = src[b]) => PacketsOf(w, src2, s) = PacketsOf(w, src, s)
<1> DEFINE T == {s \in Seq(S) :
                   (\A b \in Elements(s) : src2[b] = src[b])
                     => PacketsOf(w, src2, s) = PacketsOf(w, src, s)}
<1>1. <<>> \in T
  BY PacketsOfNone, EmptySeq
<1>2. ASSUME NEW s \in Seq(S), NEW b \in S, s \in T PROVE Append(s, b) \in T
  <2>1. Append(s, b) \in Seq(S) /\ Elements(Append(s, b)) = Elements(s) \union {b}
    BY AppendElements
  <2>2. ASSUME \A c \in Elements(Append(s, b)) : src2[c] = src[c]
        PROVE  PacketsOf(w, src2, Append(s, b)) = PacketsOf(w, src, Append(s, b))
    <3>1. PacketsOf(w, src2, s) = PacketsOf(w, src, s) /\ src2[b] = src[b]
      BY <1>2, <2>1, <2>2
    <3>2. /\ PacketsOf(w, src2, Append(s, b)) = WithPacket(w, src2, PacketsOf(w, src2, s), b)
          /\ PacketsOf(w, src, Append(s, b)) = WithPacket(w, src, PacketsOf(w, src, s), b)
      BY PacketsOfAppend
    <3> QED
      BY <3>1, <3>2 DEF WithPacket
  <2> QED
    BY <2>1, <2>2
<1>3. Seq(S) \subseteq T
  <2> HIDE DEF T
  <2> QED
    BY <1>1, <1>2, AllSequences
<1> QED
  BY <1>3

\* What joins at the end leaves a prefix, what leaves at the front a suffix.
LEMMA PartsOfJoined ==
  ASSUME NEW S, NEW r \in Seq(S), NEW s \in Seq(S)
  PROVE  IsPrefix(r, r \o s) /\ IsSuffix(s, r \o s)
<1> DEFINE t == r \o s
<1>1. /\ t \in Seq(S) /\ Len(t) = Len(r) + Len(s) /\ Len(r) \in Nat /\ Len(s) \in Nat
      /\ \A i \in 1 .. Len(r) + Len(s) : t[i] = IF i <= Len(r) THEN r[i] ELSE s[i - Len(r)]
      /\ \A i \in 1 .. Len(r) : r[i] \in S
      /\ \A i \in 1 .. Len(s) : s[i] \in S
  BY ConcatProperties, LenProperties, ElementOfSeq
<1> HIDE DEF t
<1>2. SubSeq(r, 1, Len(r)) = SubSeq(t, 1, Len(r))
  <2>1. \A i \in 1 .. Len(r) : t[i] = r[i]
    BY <1>1
  <2>2. \A i \in 1 .. Len(r) : t[i] \in S
    BY <1>1, <2>1
  <2>3. /\ SubSeq(r, 1, Len(r)) \in Seq(S) /\ SubSeq(t, 1, Len(r)) \in Seq(S)
        /\ Len(SubSeq(r, 1, Len(r))) = Len(SubSeq(t, 1, Len(r)))
    BY <1>1, <2>2, SubSeqProperties
  <2>4. ASSUME NEW i \in 1 .. Len(SubSeq(r, 1, Len(r)))
        PROVE  SubSeq(r, 1, Len(r))[i] = SubSeq(t, 1, Len(r))[i]
    <3>1. Len(SubSeq(r, 1, Len(r))) = Len(r)
      BY <1>1
    <3>2. i \in 1 .. Len(r)
      BY <3>1
    <3> QED
      BY <1>1, <2>1, <3>2
  <2> QED
    BY <2>3, <2>4, SeqEqual
<1>3. IsPrefix(r, t)
  BY <1>1, <1>2 DEF IsPrefix
<1>4. /\ Reverse(s) \in Seq(S) /\ Len(Reverse(s)) = Len(s)
      /\ \A i \in 1 .. Len(s) : Reverse(s)[i] = s[Len(s) - i + 1]
  <2>1. \A i \in 1 .. Len(s) : s[Len(s) - i + 1] \in S
    BY <1>1
  <2> QED
    BY <1>1, <2>1, IsASeq DEF Reverse
<1>5. /\ Reverse(t) \in Seq(S) /\ Len(Reverse(t)) = Len(t)
      /\ \A i \in 1 .. Len(t) : Reverse(t)[i] = t[Len(t) - i + 1]
  <2>1. \A i \in 1 .. Len(t) : t[Len(t) - i + 1] \in S
    BY <1>1, ElementOfSeq
  <2> QED
    BY <1>1, <2>1, IsASeq DEF Reverse
<1>6. \A i \in 1 .. Len(s) : Reverse(t)[i] = Reverse(s)[i]
  <2> SUFFICES ASSUME NEW i \in 1 .. Len(s) PROVE Reverse(t)[i] = Reverse(s)[i]
    OBVIOUS
  <2> DEFINE j == Len(t) - i + 1
  <2>1. /\ i \in 1 .. Len(t) /\ j \in 1 .. Len(r) + Len(s) /\ ~(j <= Len(r))
        /\ j - Len(r) = Len(s) - i + 1
    BY <1>1
  <2>2. t[j] = s[j - Len(r)]
    BY <1>1, <2>1
  <2> QED
    BY <1>4, <1>5, <2>1, <2>2
<1>7. SubSeq(Reverse(s), 1, Len(s)) = SubSeq(Reverse(t), 1, Len(s))
  <2> DEFINE u == Reverse(s)
             v == Reverse(t)
  <2>1. /\ \A i \in 1 .. Len(s) : v[i] = u[i]
        /\ \A i \in 1 .. Len(s) : u[i] \in S
    BY <1>1, <1>4, <1>6, ElementOfSeq
  <2>2. \A i \in 1 .. Len(s) : v[i] \in S
    BY <2>1
  <2> HIDE DEF u, v
  <2>3. /\ SubSeq(u, 1, Len(s)) \in Seq(S) /\ Len(SubSeq(u, 1, Len(s))) = Len(s)
        /\ SubSeq(v, 1, Len(s)) \in Seq(S) /\ Len(SubSeq(v, 1, Len(s))) = Len(s)
        /\ \A i \in 1 .. Len(s) : SubSeq(u, 1, Len(s))[i] = u[i]
        /\ \A i \in 1 .. Len(s) : SubSeq(v, 1, Len(s))[i] = v[i]
    BY <1>1, <2>1, <2>2, SubSeqProperties
  <2>4. SubSeq(u, 1, Len(s)) = SubSeq(v, 1, Len(s))
    BY <2>1, <2>3, SeqEqual
  <2> QED
    BY <2>4 DEF u, v
<1>8. IsSuffix(s, t)
  BY <1>1, <1>4, <1>5, <1>7 DEF IsSuffix, IsPrefix
<1> QED
  BY <1>3, <1>8 DEF t

-----------------------------------------------------------------------------
(* The packets of a worker stay in their order *)

Chain == nicQueue \o tx_queue_

\* The header of a packet a worker has, or has queued, names the worker.
SourceKnown == \A v \in Workers : \A b \in Elements(hand[v]) \union Elements(queue[v]) : source[b] = v

InOrder(w) == IsPrefix(Pending(w), Pending(w)') \/ IsSuffix(Pending(w)', Pending(w))

\* What a worker has enqueued, and what is on the wire side, is not free.
LEMMA BusyBuffers ==
  ASSUME IInv, Accounted
  PROVE  /\ Chain \in Seq(Buffers) /\ Elements(Chain) \subseteq Buffers \ free_buf
         /\ \A v \in Workers : /\ Elements(hand[v]) \subseteq Buffers \ free_buf
                               /\ Elements(queue[v]) \subseteq Buffers \ free_buf
<1>1. /\ tx_queue_ \in Seq(Buffers) /\ nicQueue \in Seq(Buffers)
      /\ \A v \in Workers : hand[v] \in Seq(Buffers) /\ queue[v] \in Seq(Buffers)
  BY DEF IInv, Types
<1>2. Chain \in Seq(Buffers) /\ Elements(Chain) = Elements(nicQueue) \union Elements(tx_queue_)
  BY <1>1, JoinElements DEF Chain
<1>3. \A h \in Holders : Elements(Held[h]) \intersect Gone = {} /\ Elements(Held[h]) \subseteq Buffers
  BY DEF Accounted, Apart, Held
<1>4. Elements(nicQueue) \subseteq Buffers \ free_buf
  BY RingApart DEF Gone
<1>5. Elements(tx_queue_) \subseteq Buffers \ free_buf
  BY <1>3, HolderNames, HolderContents DEF Gone
<1>6. \A v \in Workers : /\ Elements(hand[v]) \subseteq Buffers \ free_buf
                         /\ Elements(queue[v]) \subseteq Buffers \ free_buf
  BY <1>3, HolderNames, HolderContents DEF Gone
<1> QED
  BY <1>2, <1>4, <1>5, <1>6

\* apply_mbufs writes headers of packets that were free.
LEMMA HeadersWritten ==
  ASSUME IInv, NEW v \in Workers, ApplyMbufs(v)
  PROVE  /\ \A b \in Buffers \ free_buf : source'[b] = source[b]
         /\ hand' = [hand EXCEPT ![v] = FreeBatch]
         /\ \A b \in Elements(FreeBatch) : source'[b] = v
         /\ UNCHANGED <<queue, nicQueue, tx_queue_>>
<1>1. /\ source' = [b \in Buffers |-> IF b \in Elements(FreeBatch) THEN v ELSE source[b]]
      /\ hand' = [hand EXCEPT ![v] = FreeBatch]
      /\ UNCHANGED <<queue, nicQueue, tx_queue_>>
  BY DEF ApplyMbufs, nicVars
<1>2. Elements(FreeBatch) \subseteq free_buf /\ free_buf \subseteq Buffers
  BY FreeBatchApart DEF IInv, Types, ApplyMbufs
<1> QED
  BY <1>1, <1>2

\* What is collected from a queue, and what is left in it.
LEMMA CollectedParts ==
  ASSUME IInv, CollectDequeue
  PROVE  \E taken \in Seq(Buffers), rest \in Seq(Buffers) :
           /\ queue[ws_queue_idx_] = taken \o rest
           /\ queue' = [queue EXCEPT ![ws_queue_idx_] = rest]
           /\ tx_queue_' = tx_queue_ \o taken
<1> DEFINE q == queue[ws_queue_idx_]
           taken == SubSeq(q, 1, tx_size)
           rest == SubSeq(q, tx_size + 1, Len(q))
<1>1. /\ q \in Seq(Buffers) /\ tx_size \in Nat /\ Len(q) \in Nat /\ tx_size <= Len(q)
  BY SelectedWorker, LenProperties DEF IInv, Types, SizeHolds, CollectDequeue
<1>2. tx_size \in 0 .. Len(q)
  BY <1>1
<1>3. /\ queue' = [queue EXCEPT ![ws_queue_idx_] = rest] /\ tx_queue_' = tx_queue_ \o taken
  BY DEF CollectDequeue, Collected, SelectedQueue
<1>4. \A i \in 1 .. Len(q) : q[i] \in Buffers
  BY <1>1, ElementOfSeq
<1> HIDE DEF q
<1>5. q = taken \o rest
  BY <1>1, <1>2, CutAndJoined
<1>6. taken \in Seq(Buffers)
  BY <1>1, <1>4, SubSeqProperties
<1>7. rest \in Seq(Buffers)
  BY <1>1, <1>4, SubSeqProperties
<1> HIDE DEF taken, rest
<1> QED
  BY <1>3, <1>5, <1>6, <1>7 DEF q

\* Headers keep naming whoever holds the packet.
LEMMA StepSourceKnown == IInv /\ Accounted /\ SourceKnown /\ [Next]_vars => SourceKnown'
<1> SUFFICES ASSUME IInv, Accounted, SourceKnown, [Next]_vars PROVE SourceKnown'
  OBVIOUS
<1>1. /\ hand \in [Workers -> Seq(Buffers)] /\ queue \in [Workers -> Seq(Buffers)]
  BY DEF IInv, Types
<1>2. ASSUME NEW w \in Workers, ApplyMbufs(w) PROVE SourceKnown'
  <2> SUFFICES ASSUME NEW v \in Workers, NEW b \in Elements(hand'[v]) \union Elements(queue'[v])
               PROVE  source'[b] = v
    BY DEF SourceKnown, Elements
  <2>1. CASE v = w /\ b \in Elements(hand'[v])
    BY <1>1, <1>2, <2>1, HeadersWritten
  <2>2. CASE ~(v = w /\ b \in Elements(hand'[v]))
    <3>1. b \in Elements(hand[v]) \union Elements(queue[v])
      BY <1>1, <1>2, <2>2, HeadersWritten
    <3>2. b \in Buffers \ free_buf /\ source[b] = v
      BY <3>1, BusyBuffers DEF SourceKnown
    <3> QED
      BY <1>2, <3>2, HeadersWritten
  <2> QED
    BY <2>1, <2>2
<1>3. ASSUME NEW w \in Workers, EnqueuePkt(w) \/ DropPkt(w) PROVE SourceKnown'
  <2>1. /\ hand[w] # <<>> /\ source' = source /\ hand' = [hand EXCEPT ![w] = Tail(hand[w])]
        /\ queue' = [queue EXCEPT ![w] = Append(queue[w], Head(hand[w]))] \/ queue' = queue
    BY <1>3 DEF EnqueuePkt, DropPkt
  <2>2. /\ Elements(hand[w]) = {Head(hand[w])} \union Elements(Tail(hand[w]))
        /\ Head(hand[w]) \in Buffers
    <3>1. IsInjective(hand[w])
      BY HolderNames, HolderContents DEF Accounted, Apart, Held
    <3> QED
      BY <1>1, <2>1, <3>1, HeadElements
  <2>3. Elements(Append(queue[w], Head(hand[w]))) = Elements(queue[w]) \union {Head(hand[w])}
    BY <1>1, <2>2, AppendElements
  <2> SUFFICES ASSUME NEW v \in Workers, NEW b \in Elements(hand'[v]) \union Elements(queue'[v])
               PROVE  source'[b] = v
    BY DEF SourceKnown, Elements
  <2>4. b \in Elements(hand[v]) \union Elements(queue[v])
    <3>1. CASE v # w
      BY <1>1, <2>1, <3>1
    <3>2. CASE v = w
      <4>1. hand'[v] = Tail(hand[w])
        BY <1>1, <2>1, <3>2
      <4>2. queue'[v] = Append(queue[w], Head(hand[w])) \/ queue'[v] = queue[w]
        BY <1>1, <2>1, <3>2
      <4> QED
        BY <2>2, <2>3, <3>2, <4>1, <4>2
    <3> QED
      BY <3>1, <3>2
  <2> QED
    BY <2>1, <2>4 DEF SourceKnown
<1>4. CASE CollectDequeue
  <2>1. PICK taken \in Seq(Buffers), rest \in Seq(Buffers) :
          /\ queue[ws_queue_idx_] = taken \o rest
          /\ queue' = [queue EXCEPT ![ws_queue_idx_] = rest]
    BY <1>4, CollectedParts
  <2>2. Elements(rest) \subseteq Elements(queue[ws_queue_idx_])
    BY <2>1, JoinElements
  <2>3. source' = source /\ hand' = hand
    BY <1>4 DEF CollectDequeue, workerVars
  <2> SUFFICES ASSUME NEW v \in Workers, NEW b \in Elements(hand'[v]) \union Elements(queue'[v])
               PROVE  source'[b] = v
    BY DEF SourceKnown, Elements
  <2>4. queue'[v] = queue[v] \/ (v = ws_queue_idx_ /\ queue'[v] = rest)
    BY <1>1, <2>1
  <2>5. b \in Elements(hand[v]) \union Elements(queue[v])
    BY <2>2, <2>3, <2>4
  <2> QED
    BY <2>3, <2>5 DEF SourceKnown
<1>5. ASSUME UNCHANGED <<hand, queue, source>> PROVE SourceKnown'
  BY <1>5 DEF SourceKnown, Elements
<1>6. ASSUME NEW w \in Workers, ReturnBudget(w) PROVE SourceKnown'
  BY <1>5, <1>6 DEF ReturnBudget
<1>7. CASE \/ CollectBegin \/ CollectCompare \/ CollectReread \/ CollectEnd
           \/ TxBurst \/ CompleteSend \/ UNCHANGED vars
  BY <1>5, <1>7
  DEF CollectBegin, CollectCompare, CollectReread, CollectEnd, TxBurst, CompleteSend, vars,
      workerVars
<1> QED
  BY <1>2, <1>3, <1>4, <1>6, <1>7 DEF Next

\* The parts of Pending are sequences.
LEMMA PendingParts ==
  ASSUME IInv, Accounted, NEW w \in Workers
  PROVE  /\ Chain \in Seq(Buffers) /\ PacketsOf(w, source, Chain) \in Seq(Buffers)
         /\ queue[w] \in Seq(Buffers) /\ Pending(w) \in Seq(Buffers)
         /\ Pending(w) = PacketsOf(w, source, Chain) \o queue[w]
<1>1. Chain \in Seq(Buffers) /\ queue[w] \in Seq(Buffers)
  BY BusyBuffers DEF IInv, Types
<1>2. PacketsOf(w, source, Chain) \in Seq(Buffers)
  BY <1>1, PacketsOfType
<1>3. Pending(w) = PacketsOf(w, source, Chain) \o queue[w]
  BY DEF Pending, Chain
<1> QED
  BY <1>1, <1>2, <1>3, ConcatProperties

\* Nothing lost and nothing added is in order.
LEMMA SameInOrder ==
  ASSUME IInv, Accounted, NEW w \in Workers, Pending(w)' = Pending(w)
  PROVE  InOrder(w)
<1> DEFINE p == Pending(w)
<1>1. p \in Seq(Buffers)
  BY PendingParts
<1>2. <<>> \in Seq(Buffers)
  BY EmptySeq
<1>3. Pending(w)' = p
  OBVIOUS
<1> HIDE DEF p
<1>4. IsPrefix(p, p \o <<>>) /\ p \o <<>> = p
  BY <1>1, <1>2, PartsOfJoined, ConcatEmptySeq
<1>5. IsPrefix(p, p)
  BY <1>4
<1>6. IsPrefix(p, Pending(w)')
  BY <1>3, <1>5
<1> QED
  BY <1>6 DEF InOrder, p

\* New headers are those of packets that nobody has enqueued.
LEMMA ApplyMbufsInOrder ==
  ASSUME IInv, Accounted, NEW v \in Workers, ApplyMbufs(v), NEW w \in Workers
  PROVE  InOrder(w)
<1>1. \A b \in Elements(Chain) : source'[b] = source[b]
  BY BusyBuffers, HeadersWritten
<1>2. Chain \in Seq(Buffers) /\ Chain' = Chain /\ queue' = queue
  BY BusyBuffers, HeadersWritten DEF Chain
<1> DEFINE src == source
           src2 == source'
           seq == Chain
<1>3. (\A b \in Elements(seq) : src2[b] = src[b]) /\ seq \in Seq(Buffers)
  BY <1>1, <1>2
<1> HIDE DEF src, src2, seq
<1>4. PacketsOf(w, src2, seq) = PacketsOf(w, src, seq)
  BY <1>3, PacketsOfSame
<1>5. Pending(w)' = PacketsOf(w, src2, seq) \o queue[w]
  BY <1>2 DEF Pending, Chain, src2, seq
<1>6. Pending(w) = PacketsOf(w, src, seq) \o queue[w]
  BY DEF Pending, Chain, src, seq
<1> QED
  BY <1>4, <1>5, <1>6, SameInOrder

\* generate_pkts puts one packet at the end of its worker's queue.
LEMMA EnqueuePktInOrder ==
  ASSUME IInv, Accounted, NEW v \in Workers, EnqueuePkt(v), NEW w \in Workers
  PROVE  InOrder(w)
<1>1. /\ hand[v] # <<>> /\ hand[v] \in Seq(Buffers) /\ queue \in [Workers -> Seq(Buffers)]
      /\ queue' = [queue EXCEPT ![v] = Append(queue[v], Head(hand[v]))]
      /\ UNCHANGED <<source, nicQueue, tx_queue_>>
  BY DEF EnqueuePkt, IInv, Types, nicVars
<1> DEFINE p == PacketsOf(w, source, Chain)
           q == queue[w]
           one == <<Head(hand[v])>>
<1>2. p \in Seq(Buffers) /\ q \in Seq(Buffers) /\ Pending(w) = p \o q
  BY PendingParts
<1>3. one \in Seq(Buffers) /\ Append(queue[v], Head(hand[v])) = queue[v] \o one
  BY <1>1, HeadAndTailJoined
<1>4. Pending(w)' = p \o queue'[w]
  BY <1>1 DEF Pending, Chain
<1> HIDE DEF p
<1>5. CASE w = v
  <2>1. queue'[w] = q \o one
    BY <1>1, <1>3, <1>5
  <2> HIDE DEF q, one
  <2>2. Pending(w)' = (p \o q) \o one
    BY <1>2, <1>3, <1>4, <2>1, ConcatAssociative
  <2> DEFINE before == p \o q
  <2>3. before \in Seq(Buffers)
    BY <1>2, ConcatProperties
  <2> HIDE DEF before
  <2>4. IsPrefix(before, before \o one)
    BY <1>3, <2>3, PartsOfJoined
  <2> QED
    BY <1>2, <2>2, <2>4 DEF InOrder, before
<1>6. CASE w # v
  <2>1. queue'[w] = q
    BY <1>1, <1>6
  <2> QED
    BY <1>2, <1>4, <2>1, SameInOrder
<1> QED
  BY <1>5, <1>6

\* What is dequeued goes behind what was collected before, for its worker and
\* for nobody else.
LEMMA CollectDequeueInOrder ==
  ASSUME IInv, Accounted, SourceKnown, CollectDequeue, NEW w \in Workers
  PROVE  InOrder(w)
<1> DEFINE v == ws_queue_idx_
<1>1. PICK taken \in Seq(Buffers), rest \in Seq(Buffers) :
        /\ queue[v] = taken \o rest
        /\ queue' = [queue EXCEPT ![v] = rest]
        /\ tx_queue_' = tx_queue_ \o taken
  BY CollectedParts
<1>2. /\ v \in Workers /\ queue \in [Workers -> Seq(Buffers)]
      /\ nicQueue \in Seq(Buffers) /\ tx_queue_ \in Seq(Buffers)
      /\ source' = source /\ nicQueue' = nicQueue
  BY SelectedWorker DEF IInv, Types, CollectDequeue, workerVars, nicVars
<1>3. \A b \in Elements(taken) : source[b] = v
  <2>1. Elements(taken) \subseteq Elements(queue[v])
    BY <1>1, JoinElements
  <2> QED
    BY <1>2, <2>1 DEF SourceKnown
<1> DEFINE seq == Chain
           p == PacketsOf(w, source, seq)
           t == PacketsOf(w, source, taken)
<1>4. p \in Seq(Buffers) /\ seq \in Seq(Buffers) /\ Pending(w) = p \o queue[w]
  BY PendingParts
<1>5. Chain' = seq \o taken
  <2>1. (nicQueue \o tx_queue_) \o taken = nicQueue \o (tx_queue_ \o taken)
    <3>1. nicQueue \in Seq(Buffers) /\ tx_queue_ \in Seq(Buffers) /\ taken \in Seq(Buffers)
      BY <1>2
    <3> QED
      BY <3>1, ConcatAssociative
  <2>2. Chain' = nicQueue \o (tx_queue_ \o taken)
    BY <1>1, <1>2 DEF Chain
  <2> QED
    BY <2>1, <2>2 DEF Chain
<1>6. Pending(w)' = PacketsOf(w, source, seq \o taken) \o queue'[w]
  BY <1>2, <1>5 DEF Pending, Chain
<1> HIDE DEF seq
<1>7. PacketsOf(w, source, seq \o taken) = p \o t
  BY <1>1, <1>4, PacketsOfJoined
<1>8. t \in Seq(Buffers)
  BY <1>1, PacketsOfType
<1>9. t \o queue'[w] = queue[w]
  <2>1. CASE w = v
    <3>1. t = taken
      BY <1>1, <1>3, <2>1, PacketsOfOwn
    <3>2. queue'[w] = rest
      BY <1>1, <1>2, <2>1
    <3> QED
      BY <1>1, <2>1, <3>1, <3>2
  <2>2. CASE w # v
    <3>1. t = <<>>
      BY <1>1, <1>3, <2>2, PacketsOfOthers
    <3>2. queue'[w] = queue[w] /\ queue[w] \in Seq(Buffers)
      BY <1>1, <1>2, <2>2
    <3> QED
      BY <3>1, <3>2, ConcatEmptySeq
  <2> QED
    BY <2>1, <2>2
<1>10. queue'[w] \in Seq(Buffers)
  BY <1>1, <1>2
<1> HIDE DEF p, t
<1>11. Pending(w)' = p \o (t \o queue'[w])
  <2> DEFINE left == queue'[w]
  <2>1. left \in Seq(Buffers) /\ Pending(w)' = (p \o t) \o left
    BY <1>6, <1>7, <1>10
  <2> HIDE DEF left
  <2>2. (p \o t) \o left = p \o (t \o left)
    <3>1. p \in Seq(Buffers) /\ t \in Seq(Buffers) /\ left \in Seq(Buffers)
      BY <1>4, <1>8, <2>1
    <3> QED
      BY <3>1, ConcatAssociative
  <2> QED
    BY <2>1, <2>2 DEF left
<1> QED
  BY <1>4, <1>9, <1>11, SameInOrder

\* What is posted goes behind what the NIC has, and in front of the rest.
LEMMA TxBurstInOrder ==
  ASSUME IInv, Accounted, TxBurst, NEW w \in Workers
  PROVE  InOrder(w)
<1> DEFINE n == Lesser(free_send_wr_num_ + sendCq, Len(tx_queue_))
           front == SubSeq(tx_queue_, 1, n)
           rest == SubSeq(tx_queue_, n + 1, Len(tx_queue_))
<1>1. /\ nicQueue \in Seq(Buffers) /\ tx_queue_ \in Seq(Buffers) /\ Len(tx_queue_) \in Nat
      /\ n \in 0 .. Len(tx_queue_)
  <2>1. free_send_wr_num_ \in Nat /\ sendCq \in Nat /\ tx_queue_ \in Seq(Buffers)
    BY DEF IInv, Types
  <2> QED
    BY <2>1, Lengths DEF Lesser, IInv, Types
<1>2. /\ nicQueue' = nicQueue \o front /\ tx_queue_' = rest
      /\ source' = source /\ queue' = queue
  BY DEF TxBurst, Polled, workerVars
<1>3. \A i \in 1 .. Len(tx_queue_) : tx_queue_[i] \in Buffers
  BY <1>1, ElementOfSeq
<1> HIDE DEF n
<1>4. tx_queue_ = front \o rest
  BY <1>1, CutAndJoined
<1>5. front \in Seq(Buffers)
  BY <1>1, <1>3, SubSeqProperties
<1>6. rest \in Seq(Buffers)
  BY <1>1, <1>3, SubSeqProperties
<1> HIDE DEF front, rest
<1>7. Chain' = Chain
  BY <1>1, <1>2, <1>4, <1>5, <1>6, ConcatAssociative DEF Chain
<1>8. Pending(w)' = Pending(w)
  BY <1>2, <1>7 DEF Pending, Chain
<1> QED
  BY <1>8, SameInOrder

\* The NIC sends the first.
LEMMA CompleteSendInOrder ==
  ASSUME IInv, Accounted, CompleteSend, NEW w \in Workers
  PROVE  InOrder(w)
<1> DEFINE first == <<Head(nicQueue)>>
           rest == Tail(nicQueue) \o tx_queue_
<1>1. /\ nicQueue # <<>> /\ nicQueue \in Seq(Buffers) /\ tx_queue_ \in Seq(Buffers)
      /\ nicQueue' = Tail(nicQueue) /\ UNCHANGED <<source, queue, tx_queue_>>
  BY DEF CompleteSend, IInv, Types, workerVars
<1>2. first \in Seq(Buffers) /\ Tail(nicQueue) \in Seq(Buffers) /\ nicQueue = first \o Tail(nicQueue)
  BY <1>1, HeadAndTailJoined
<1>3. rest \in Seq(Buffers) /\ Chain' = rest
  BY <1>1, <1>2, ConcatProperties DEF Chain
<1>4. Chain = first \o rest
  <2> DEFINE tail == Tail(nicQueue)
  <2>1. tail \in Seq(Buffers) /\ nicQueue = first \o tail
    BY <1>2
  <2> HIDE DEF tail, first
  <2>2. nicQueue \o tx_queue_ = first \o (tail \o tx_queue_)
    BY <1>1, <1>2, <2>1, ConcatAssociative
  <2> QED
    BY <2>2 DEF Chain, tail
<1>5. Pending(w)' = PacketsOf(w, source, rest) \o queue[w]
  BY <1>1, <1>3 DEF Pending, Chain
<1> HIDE DEF first, rest
<1> DEFINE p == PacketsOf(w, source, first)
           r == PacketsOf(w, source, rest)
           q == queue[w]
<1>6. /\ p \in Seq(Buffers) /\ r \in Seq(Buffers) /\ q \in Seq(Buffers)
      /\ PacketsOf(w, source, Chain) = p \o r
  <2>1. p \in Seq(Buffers) /\ r \in Seq(Buffers)
    BY <1>2, <1>3, PacketsOfType
  <2>2. PacketsOf(w, source, first \o rest) = p \o r
    <3>1. \A s \in Seq(Buffers) :
            PacketsOf(w, source, first \o s) = p \o PacketsOf(w, source, s)
      BY <1>2, PacketsOfJoined
    <3> QED
      BY <1>3, <3>1
  <2> QED
    BY <1>4, <2>1, <2>2, PendingParts
<1>7. Pending(w) = (p \o r) \o q /\ Pending(w)' = r \o q
  BY <1>5, <1>6, PendingParts
<1> HIDE DEF p, r, q
<1> DEFINE after == r \o q
<1>8. after \in Seq(Buffers) /\ Pending(w) = p \o after
  BY <1>6, <1>7, ConcatProperties, ConcatAssociative
<1> HIDE DEF after
<1>9. IsSuffix(after, p \o after)
  BY <1>6, <1>8, PartsOfJoined
<1> QED
  BY <1>7, <1>8, <1>9 DEF InOrder, after

\* Each step leaves every worker's packets in order.
LEMMA StepInOrder ==
  ASSUME IInv, Accounted, SourceKnown, [Next]_vars, NEW w \in Workers
  PROVE  InOrder(w)
<1>1. ASSUME NEW v \in Workers, ApplyMbufs(v) \/ EnqueuePkt(v) PROVE InOrder(w)
  BY <1>1, ApplyMbufsInOrder, EnqueuePktInOrder
<1>2. ASSUME UNCHANGED <<source, queue, nicQueue, tx_queue_>> PROVE InOrder(w)
  <2>1. Pending(w)' = Pending(w)
    BY <1>2 DEF Pending
  <2> QED
    BY <2>1, SameInOrder
<1>3. ASSUME NEW v \in Workers, DropPkt(v) \/ ReturnBudget(v) PROVE InOrder(w)
  BY <1>2, <1>3 DEF DropPkt, ReturnBudget, nicVars
<1>4. CASE CollectBegin \/ CollectCompare \/ CollectReread \/ CollectEnd \/ UNCHANGED vars
  BY <1>2, <1>4
  DEF CollectBegin, CollectCompare, CollectReread, CollectEnd, vars, workerVars, nicVars
<1>5. CASE CollectDequeue \/ TxBurst \/ CompleteSend
  BY <1>5, CollectDequeueInOrder, TxBurstInOrder, CompleteSendInOrder
<1> QED
  BY <1>1, <1>3, <1>4, <1>5 DEF Next

\* Whatever the other workers, the round robin and the ring do, the packets of one
\* worker go to the wire in the order in which generate_pkts enqueued them.
THEOREM FifoPerWorkerAlways == Spec => FifoPerWorker
<1>1. Init => SourceKnown
  BY DEF Init, SourceKnown, Elements
<1>2. IInv /\ Accounted /\ SourceKnown /\ [Next]_vars
        => [\A w \in Workers : IsPrefix(Pending(w), Pending(w)') \/ IsSuffix(Pending(w)', Pending(w))]_vars
  BY StepInOrder DEF InOrder
<1> QED
  BY <1>1, <1>2, StepSourceKnown, AccountedAlways, PTL DEF Spec, FifoPerWorker

================================================================================
