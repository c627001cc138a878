-------------------------- MODULE LockFreeQueueProofs --------------------------
(***************************************************************************)
(* For a ring of any size and any set of packets: the types, the absence of *)
(* a race on a slot, the reliability of get_size(), and that the two        *)
(* unsynchronised threads implement an atomic bounded FIFO.                 *)
(*                                                                          *)
(* The argument: between its check and its publication the producer's room  *)
(* cannot disappear, because the consumer only frees slots; between its     *)
(* check and its advance the consumer's packet cannot disappear, because    *)
(* the producer only adds packets.  Both facts, with what the threads have  *)
(* in their hands, make the inductive invariant.                            *)
(***************************************************************************)
EXTENDS LockFreeQueue, SequenceTheorems, TLAPS

ProducerHasRoom ==
  producer \in {"write", "publish"} => After(tail_) # head_ /\ pkt \in Packets

ProducerWrote == producer = "publish" => queue_[tail_] = pkt

ConsumerHasPacket == consumer \in {"read", "advance"} => head_ # tail_

ConsumerLoaded == consumer = "advance" => ret = queue_[head_]

QueueInv ==
  /\ TypeOK
  /\ ProducerHasRoom
  /\ ProducerWrote
  /\ ConsumerHasPacket
  /\ ConsumerLoaded
  /\ SizeIsAPromise

-----------------------------------------------------------------------------
(* Arithmetic of the ring *)

\* The mask folds an index less than two rings back into the ring.
LEMMA Folding ==
  ASSUME NEW i \in Nat, i < 2 * QueueSize
  PROVE  i % QueueSize = IF i < QueueSize THEN i ELSE i - QueueSize
<1>1. CASE i < QueueSize
  BY <1>1, QueueSizeAssumption, SMT
<1>2. CASE i >= QueueSize
  BY <1>2, QueueSizeAssumption, SMTT(30)
<1>3. QED
  BY <1>1, <1>2, QueueSizeAssumption

\* The mask's increment, without the modulus.
LEMMA AfterFolded ==
  ASSUME NEW i \in Slots
  PROVE  After(i) = IF i = QueueSize - 1 THEN 0 ELSE i + 1
BY Folding, QueueSizeAssumption DEF After, Slots

\* The masked difference, without the modulus.
LEMMA DistanceFolded ==
  ASSUME NEW h \in Slots, NEW t \in Slots
  PROVE  (t + QueueSize - h) % QueueSize = IF t >= h THEN t - h ELSE t + QueueSize - h
<1>1. t + QueueSize - h \in Nat /\ t + QueueSize - h < 2 * QueueSize
  BY QueueSizeAssumption DEF Slots
<1>2. QED
  BY <1>1, Folding, QueueSizeAssumption DEF Slots

LEMMA SizeFolded ==
  ASSUME head_ \in Slots, tail_ \in Slots
  PROVE  get_size = IF tail_ >= head_ THEN tail_ - head_
                                      ELSE tail_ + QueueSize - head_
BY DistanceFolded DEF get_size

\* A slot reached from the head, without the modulus.
LEMMA SlotFolded ==
  ASSUME head_ \in Slots, NEW k \in Slots
  PROVE  SlotAt(k) = IF head_ + k < QueueSize THEN head_ + k
                                              ELSE head_ + k - QueueSize
<1>1. head_ + k \in Nat /\ head_ + k < 2 * QueueSize
  BY QueueSizeAssumption DEF Slots
<1>2. QED
  BY <1>1, Folding, QueueSizeAssumption DEF SlotAt, Slots

-----------------------------------------------------------------------------
(* The invariant *)

LEMMA InvariantInit == Init => QueueInv
<1> SUFFICES ASSUME Init PROVE QueueInv
  OBVIOUS
<1>1. 0 \in Slots
  BY QueueSizeAssumption DEF Slots
<1>2. get_size = 0
  BY <1>1, SizeFolded DEF Init
<1>3. QED
  BY <1>1, <1>2 DEF Init, QueueInv, TypeOK, ProducerHasRoom, ProducerWrote,
                    ConsumerHasPacket, ConsumerLoaded, SizeIsAPromise

LEMMA InvariantStep == QueueInv /\ [Next]_vars => QueueInv'
<1> SUFFICES ASSUME QueueInv, [Next]_vars PROVE QueueInv'
  OBVIOUS
<1> USE DEF QueueInv, TypeOK, ProducerHasRoom, ProducerWrote,
            ConsumerHasPacket, ConsumerLoaded, SizeIsAPromise
<1>1. CASE EnqueueFull
  BY <1>1 DEF EnqueueFull, consumerVars, get_size
<1>2. ASSUME NEW p \in Packets, EnqueueBegin(p) PROVE QueueInv'
  BY <1>2 DEF EnqueueBegin, consumerVars, get_size
<1>3. CASE WriteSlot
  <2>1. consumer = "advance" => queue_'[head_] = queue_[head_]
    BY <1>3 DEF WriteSlot
  <2>2. QED
    BY <1>3, <2>1 DEF WriteSlot, consumerVars, get_size
<1>4. CASE PublishTail
  <2>1. tail_' \in Slots
    BY <1>4, AfterFolded, QueueSizeAssumption DEF PublishTail, Slots
  <2>2. tail_' = IF tail_ = QueueSize - 1 THEN 0 ELSE tail_ + 1
    BY <1>4, AfterFolded DEF PublishTail
  <2>3. head_' = head_
    BY <1>4 DEF PublishTail
  <2>4. get_size' = get_size + 1
    <3>1. get_size' = IF tail_' >= head_' THEN tail_' - head_'
                                          ELSE tail_' + QueueSize - head_'
      BY <2>1, <2>3, DistanceFolded DEF get_size
    <3>2. tail_' # head_
      BY <1>4 DEF PublishTail
    <3>3. QED
      BY <3>1, <3>2, <2>2, <2>3, SizeFolded, QueueSizeAssumption DEF Slots
  <2>5. SizeIsAPromise'
    BY <1>4, <2>4, SizeFolded, QueueSizeAssumption DEF PublishTail, consumerVars, Slots
  <2>6. ConsumerHasPacket'
    BY <1>4 DEF PublishTail, consumerVars
  <2>7. QED
    BY <1>4, <2>1, <2>5, <2>6 DEF PublishTail, consumerVars
<1>5. CASE GetSize
  <2>1. get_size \in Slots /\ get_size' = get_size
    BY <1>5, SizeFolded, QueueSizeAssumption DEF GetSize, get_size, Slots
  <2>2. QED
    BY <1>5, <2>1, QueueSizeAssumption DEF GetSize, producerVars, Slots
<1>6. CASE DequeueEmpty
  BY <1>6 DEF DequeueEmpty, producerVars, get_size
<1>7. CASE DequeueBegin
  BY <1>7 DEF DequeueBegin, producerVars, get_size
<1>8. CASE ReadSlot
  BY <1>8 DEF ReadSlot, producerVars, get_size
<1>9. CASE AdvanceHead
  <2>1. head_' = IF head_ = QueueSize - 1 THEN 0 ELSE head_ + 1
    BY <1>9, AfterFolded DEF AdvanceHead
  <2>2. head_' \in Slots
    BY <2>1, QueueSizeAssumption DEF Slots
  <2>3. tail_' = tail_
    BY <1>9 DEF AdvanceHead
  <2>4. get_size' = get_size - 1
    <3>1. get_size' = IF tail_' >= head_' THEN tail_' - head_'
                                          ELSE tail_' + QueueSize - head_'
      BY <2>2, <2>3, DistanceFolded DEF get_size
    <3>2. head_ # tail_
      BY <1>9 DEF AdvanceHead
    <3>3. QED
      BY <3>1, <3>2, <2>1, <2>3, SizeFolded, QueueSizeAssumption DEF Slots
  <2>5. SizeIsAPromise'
    BY <1>9, <2>4, SizeFolded, QueueSizeAssumption DEF AdvanceHead, Slots
  <2>6. promised' \in Slots
    BY <1>9, QueueSizeAssumption DEF AdvanceHead, Slots
  <2>7. ProducerHasRoom'
    <3>1. After(tail_)' = After(tail_)
      BY <2>3 DEF After
    <3>2. ASSUME producer \in {"write", "publish"} PROVE After(tail_) # head_'
      BY <1>9, <3>2, <2>1, AfterFolded, QueueSizeAssumption DEF AdvanceHead, Slots
    <3>3. QED
      BY <1>9, <3>1, <3>2 DEF AdvanceHead, producerVars
  <2>8. QED
    BY <1>9, <2>2, <2>5, <2>6, <2>7 DEF AdvanceHead, producerVars
<1>10. CASE UNCHANGED vars
  BY <1>10 DEF vars, get_size, After
<1>11. QED
  BY <1>1, <1>2, <1>3, <1>4, <1>5, <1>6, <1>7, <1>8, <1>9, <1>10
     DEF Next, Producer, Consumer

LEMMA Invariant == Spec => []QueueInv
BY InvariantInit, InvariantStep, PTL DEF Spec

\* Every variable keeps its type, for every ring size and packet set.
THEOREM TypeCorrect == Spec => []TypeOK
<1>1. QueueInv => TypeOK
  BY DEF QueueInv
<1>2. QED
  BY <1>1, Invariant, PTL

\* enqueue()'s slot store never coincides with dequeue()'s slot load
\* (lock_free_queue.h:28 and :34), although nothing orders the two threads.
THEOREM SlotRaceFreedom == Spec => []NoSlotRace
<1>1. QueueInv => NoSlotRace
  BY DEF QueueInv, ConsumerHasPacket, NoSlotRace
<1>2. QED
  BY <1>1, Invariant, PTL

\* What get_size() answered remains available to the consumer that asked.
THEOREM SizeIsReliable == Spec => []SizeIsAPromise
<1>1. QueueInv => SizeIsAPromise
  BY DEF QueueInv
<1>2. QED
  BY <1>1, Invariant, PTL

-----------------------------------------------------------------------------
(* Refinement *)

\* The packets in the ring, as a sequence of get_size() packets.
LEMMA ContentsAreASequence ==
  ASSUME QueueInv
  PROVE  /\ get_size \in 0 .. QueueSize - 1
         /\ Contents \in Seq(Packets \union {Nullptr})
         /\ Len(Contents) = get_size
         /\ \A k \in 1 .. get_size : Contents[k] = queue_[SlotAt(k - 1)]
<1>1. head_ \in Slots /\ tail_ \in Slots
  BY DEF QueueInv, TypeOK
<1>2. get_size \in 0 .. QueueSize - 1
  BY <1>1, SizeFolded, QueueSizeAssumption DEF Slots
<1>3. ASSUME NEW k \in 1 .. get_size PROVE SlotAt(k - 1) \in Slots
  <2>1. k - 1 \in Slots
    BY <1>2, QueueSizeAssumption DEF Slots
  <2>2. QED
    BY <2>1, <1>1, SlotFolded, QueueSizeAssumption DEF Slots
<1>4. \A k \in 1 .. get_size : queue_[SlotAt(k - 1)] \in Packets \union {Nullptr}
  BY <1>3 DEF QueueInv, TypeOK
<1>5. Contents \in [1 .. get_size -> Packets \union {Nullptr}]
  BY <1>4 DEF Contents
<1>6. QED
  BY <1>2, <1>5, QueueSizeAssumption DEF Contents

LEMMA FifoInit == Init => Fifo!Init
<1> SUFFICES ASSUME Init PROVE Fifo!Init
  OBVIOUS
<1>1. QueueInv
  BY InvariantInit
<1>2. get_size = 0
  BY SizeFolded, QueueSizeAssumption DEF Init, Slots
<1>3. Contents \in Seq(Packets \union {Nullptr}) /\ Len(Contents) = 0
  BY <1>1, <1>2, ContentsAreASequence
<1>4. Contents = <<>>
  BY <1>3
<1>5. QED
  BY <1>4 DEF Init, Fifo!Init

\* A step that leaves the indices and the occupied slots alone is invisible.
LEMMA ContentsUnchanged ==
  ASSUME QueueInv, head_' = head_, tail_' = tail_,
         \A k \in 1 .. get_size : queue_'[SlotAt(k - 1)] = queue_[SlotAt(k - 1)]
  PROVE  Contents' = Contents
<1>1. get_size' = get_size
  BY DEF get_size
<1>2. \A k \in Nat : SlotAt(k - 1)' = SlotAt(k - 1)
  BY DEF SlotAt
<1>3. Contents' = [k \in 1 .. get_size |-> queue_'[SlotAt(k - 1)]]
  BY <1>1, <1>2 DEF Contents
<1>4. QED
  BY <1>3 DEF Contents

\* PublishTail appends the packet that WriteSlot left behind the tail.
LEMMA PublishAppends ==
  ASSUME QueueInv, QueueInv', PublishTail
  PROVE  Contents' = Append(Contents, pkt) /\ get_size < QueueSize - 1
<1>1. head_ \in Slots /\ tail_ \in Slots /\ tail_' \in Slots /\ head_' = head_ /\ queue_' = queue_
  BY DEF QueueInv, TypeOK, PublishTail
<1>2. tail_' = IF tail_ = QueueSize - 1 THEN 0 ELSE tail_ + 1
  BY <1>1, AfterFolded DEF PublishTail
<1>3. tail_' # head_
  BY DEF PublishTail, QueueInv, ProducerHasRoom
<1>4. get_size' = IF tail_' >= head_ THEN tail_' - head_ ELSE tail_' + QueueSize - head_
  BY <1>1, DistanceFolded DEF get_size
<1>5. get_size' = get_size + 1 /\ get_size < QueueSize - 1
  BY <1>1, <1>2, <1>3, <1>4, SizeFolded, QueueSizeAssumption DEF Slots
<1>6. SlotAt(get_size) = tail_
  <2>1. get_size \in Slots
    BY <1>1, SizeFolded, QueueSizeAssumption DEF Slots
  <2>2. QED
    BY <2>1, <1>1, SlotFolded, SizeFolded, QueueSizeAssumption DEF Slots
<1>7. \A k \in Nat : SlotAt(k - 1)' = SlotAt(k - 1)
  BY <1>1 DEF SlotAt
<1>8. pkt = queue_[SlotAt(get_size)]
  BY <1>6 DEF QueueInv, ProducerWrote, PublishTail
<1>9. /\ Contents \in Seq(Packets \union {Nullptr})
      /\ Len(Contents) = get_size
      /\ get_size \in 0 .. QueueSize - 1
      /\ \A k \in 1 .. get_size : Contents[k] = queue_[SlotAt(k - 1)]
  BY ContentsAreASequence
<1>10. Contents' = [k \in 1 .. get_size + 1 |-> queue_[SlotAt(k - 1)]]
  BY <1>1, <1>5, <1>7, <1>9 DEF Contents
<1>11. ASSUME NEW k \in 1 .. get_size + 1
       PROVE  queue_[SlotAt(k - 1)] = Append(Contents, pkt)[k]
  <2>1. CASE k <= get_size
    BY <2>1, <1>9
  <2>2. CASE ~(k <= get_size)
    <3>1. k - 1 = get_size
      BY <2>2, <1>9
    <3>2. QED
      BY <3>1, <2>2, <1>8, <1>9
  <2>3. QED
    BY <2>1, <2>2
<1>12. pkt \in Packets \union {Nullptr}
  BY DEF QueueInv, TypeOK
<1>13. Append(Contents, pkt) \in Seq(Packets \union {Nullptr}) /\ Len(Append(Contents, pkt)) = get_size + 1
  BY <1>9, <1>12, AppendProperties
<1>14. Append(Contents, pkt) \in [1 .. get_size + 1 -> Packets \union {Nullptr}]
  BY <1>13, LenProperties
<1>15. Append(Contents, pkt) = [k \in 1 .. get_size + 1 |-> Append(Contents, pkt)[k]]
  BY <1>14
<1>16. QED
  BY <1>5, <1>10, <1>11, <1>15

\* AdvanceHead removes the oldest packet, which is the one ReadSlot loaded.
LEMMA AdvanceRemoves ==
  ASSUME QueueInv, QueueInv', AdvanceHead
  PROVE  Contents # <<>> /\ Contents' = Tail(Contents) /\ ret = Head(Contents)
<1>1. head_ \in Slots /\ tail_ \in Slots /\ head_' \in Slots /\ tail_' = tail_ /\ queue_' = queue_
  BY DEF QueueInv, TypeOK, AdvanceHead
<1>2. head_' = IF head_ = QueueSize - 1 THEN 0 ELSE head_ + 1
  BY <1>1, AfterFolded DEF AdvanceHead
<1>3. head_ # tail_ /\ ret = queue_[head_]
  BY DEF AdvanceHead, QueueInv, ConsumerHasPacket, ConsumerLoaded
<1>4. get_size' = IF tail_ >= head_' THEN tail_ - head_' ELSE tail_ + QueueSize - head_'
  BY <1>1, DistanceFolded DEF get_size
<1>5. get_size' = get_size - 1 /\ get_size > 0
  BY <1>1, <1>2, <1>3, <1>4, SizeFolded, QueueSizeAssumption DEF Slots
<1>6. /\ Contents \in Seq(Packets \union {Nullptr})
      /\ Len(Contents) = get_size
      /\ get_size \in 0 .. QueueSize - 1
      /\ \A k \in 1 .. get_size : Contents[k] = queue_[SlotAt(k - 1)]
  BY ContentsAreASequence
<1>7. ASSUME NEW k \in 1 .. get_size - 1 PROVE SlotAt(k - 1)' = SlotAt(k)
  <2>1. k - 1 \in Slots /\ k \in Slots
    BY <1>6, QueueSizeAssumption DEF Slots
  <2>2. SlotAt(k - 1)' = (head_' + (k - 1)) % QueueSize
    BY DEF SlotAt
  <2>3. SlotAt(k - 1)' = IF head_' + (k - 1) < QueueSize THEN head_' + (k - 1)
                                                         ELSE head_' + (k - 1) - QueueSize
    <3>1. ASSUME NEW h \in Slots, NEW d \in Slots
          PROVE  (h + d) % QueueSize = IF h + d < QueueSize THEN h + d ELSE h + d - QueueSize
      BY Folding, QueueSizeAssumption DEF Slots
    <3>2. QED
      BY <3>1, <2>1, <2>2, <1>1
  <2>4. QED
    BY <2>1, <2>3, <1>1, <1>2, SlotFolded, QueueSizeAssumption DEF Slots
<1>8. SlotAt(0) = head_
  BY <1>1, SlotFolded, QueueSizeAssumption DEF Slots
<1>9. Contents # <<>> /\ ret = Head(Contents)
  BY <1>3, <1>5, <1>6, <1>8
<1>10. Contents' = [k \in 1 .. get_size - 1 |-> queue_[SlotAt(k)]]
  BY <1>1, <1>5, <1>7 DEF Contents
<1>11. /\ Tail(Contents) \in Seq(Packets \union {Nullptr})
       /\ Len(Tail(Contents)) = get_size - 1
       /\ \A k \in 1 .. get_size - 1 : Tail(Contents)[k] = Contents[k + 1]
  BY <1>6, <1>9, HeadTailProperties
<1>12. \A k \in 1 .. get_size - 1 : Contents[k + 1] = queue_[SlotAt(k)]
  BY <1>6
<1>13. Tail(Contents) = [k \in 1 .. get_size - 1 |-> Tail(Contents)[k]]
  BY <1>11, LenProperties
<1>14. QED
  BY <1>9, <1>10, <1>11, <1>12, <1>13

LEMMA FifoStep ==
  QueueInv /\ QueueInv' /\ [Next]_vars => [Fifo!Next]_(Fifo!vars)
<1> SUFFICES ASSUME QueueInv, QueueInv', [Next]_vars PROVE [Fifo!Next]_(Fifo!vars)
  OBVIOUS
<1>0. head_ \in Slots /\ tail_ \in Slots
  BY DEF QueueInv, TypeOK
<1>1. CASE EnqueueFull
  <2>1. Contents' = Contents
    BY <1>1, ContentsUnchanged DEF EnqueueFull
  <2>2. get_size = QueueSize - 1
    BY <1>0, <1>1, AfterFolded, SizeFolded, QueueSizeAssumption DEF EnqueueFull, Slots
  <2>3. Fifo!Refuse
    BY <1>1, <2>1, <2>2, ContentsAreASequence DEF EnqueueFull, consumerVars, Fifo!Refuse
  <2>4. QED
    BY <2>3 DEF Fifo!Next
<1>2. ASSUME NEW p \in Packets, EnqueueBegin(p) PROVE [Fifo!Next]_(Fifo!vars)
  <2>1. Contents' = Contents
    BY <1>2, ContentsUnchanged DEF EnqueueBegin
  <2>2. QED
    BY <1>2, <2>1 DEF EnqueueBegin, consumerVars, Fifo!vars
<1>3. CASE WriteSlot
  <2>1. ASSUME NEW k \in 1 .. get_size PROVE SlotAt(k - 1) # tail_
    <3>1. get_size \in 0 .. QueueSize - 1
      BY ContentsAreASequence
    <3>2. k - 1 \in Slots
      BY <3>1, QueueSizeAssumption DEF Slots
    <3>3. QED
      BY <3>1, <3>2, <1>0, SlotFolded, SizeFolded, QueueSizeAssumption DEF Slots
  <2>2. \A k \in 1 .. get_size : queue_'[SlotAt(k - 1)] = queue_[SlotAt(k - 1)]
    BY <2>1, <1>3 DEF WriteSlot, QueueInv, TypeOK
  <2>3. Contents' = Contents
    BY <1>3, <2>2, ContentsUnchanged DEF WriteSlot
  <2>4. QED
    BY <1>3, <2>3 DEF WriteSlot, consumerVars, Fifo!vars
<1>4. CASE PublishTail
  <2>1. pkt \in Packets
    BY <1>4 DEF PublishTail, QueueInv, ProducerHasRoom
  <2>2. Fifo!Store(pkt)
    BY <1>4, PublishAppends, ContentsAreASequence
       DEF PublishTail, consumerVars, Fifo!Store
  <2>3. QED
    BY <2>1, <2>2 DEF Fifo!Next
<1>5. CASE GetSize
  <2>1. Contents' = Contents
    BY <1>5, ContentsUnchanged DEF GetSize
  <2>2. QED
    BY <1>5, <2>1 DEF GetSize, producerVars, Fifo!vars
<1>6. CASE DequeueEmpty
  <2>1. Contents' = Contents
    BY <1>6, ContentsUnchanged DEF DequeueEmpty
  <2>2. get_size = 0
    BY <1>0, <1>6, SizeFolded, QueueSizeAssumption DEF DequeueEmpty, Slots
  <2>3. Contents = <<>>
    BY <2>2, ContentsAreASequence
  <2>4. Fifo!AnswerEmpty
    BY <1>6, <2>1, <2>3 DEF DequeueEmpty, producerVars, Fifo!AnswerEmpty
  <2>5. QED
    BY <2>4 DEF Fifo!Next
<1>7. CASE DequeueBegin
  <2>1. Contents' = Contents
    BY <1>7, ContentsUnchanged DEF DequeueBegin
  <2>2. QED
    BY <1>7, <2>1 DEF DequeueBegin, producerVars, Fifo!vars
<1>8. CASE ReadSlot
  <2>1. Contents' = Contents
    BY <1>8, ContentsUnchanged DEF ReadSlot
  <2>2. QED
    BY <1>8, <2>1 DEF ReadSlot, producerVars, Fifo!vars
<1>9. CASE AdvanceHead
  <2>1. Fifo!HandOut
    BY <1>9, AdvanceRemoves DEF AdvanceHead, producerVars, Fifo!HandOut
  <2>2. QED
    BY <2>1 DEF Fifo!Next
<1>10. CASE UNCHANGED vars
  <2>1. Contents' = Contents
    BY <1>10, ContentsUnchanged DEF vars
  <2>2. QED
    BY <1>10, <2>1 DEF vars, Fifo!vars
<1>11. QED
  BY <1>1, <1>2, <1>3, <1>4, <1>5, <1>6, <1>7, <1>8, <1>9, <1>10
     DEF Next, Producer, Consumer

\* The lock-free ring implements the bounded FIFO: whatever the interleaving of
\* the two threads, packets come out once, in order, and only if they went in.
THEOREM RingImplementsFifo == Spec => FifoSpec
<1>1. Init => Fifo!Init
  BY FifoInit
<1>2. QueueInv /\ QueueInv' /\ [Next]_vars => [Fifo!Next]_(Fifo!vars)
  BY FifoStep
<1>3. QED
  BY <1>1, <1>2, Invariant, PTL DEF Spec, FifoSpec, Fifo!Spec
================================================================================
