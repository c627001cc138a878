----------------------------- MODULE LockFreeQueue -----------------------------
(***************************************************************************)
(* dperf::lock_free_queue (src/src/util/lock_free_queue.h), the ring that   *)
(* connects a worker thread with a dispatcher thread, and the way both      *)
(* sides use it.  There is no lock: the producer alone writes tail_, the    *)
(* consumer alone writes head_, and each reads the other's index whenever   *)
(* it likes.  One shared access is one step, in program order, which is     *)
(* what the volatile indices and x86 stores give.                           *)
(*                                                                          *)
(*   producer   "idle"    -> reads head_: full, or goes on to               *)
(*              "write"   -> stores the packet in queue_[tail_]             *)
(*              "publish" -> stores the new tail_                           *)
(*   consumer   "idle"    -> reads tail_: empty, or goes on to              *)
(*              "read"    -> loads queue_[head_]                            *)
(*              "advance" -> stores the new head_                           *)
(*                                                                          *)
(* The consumers of the program (collect_tx_pkts, app_handler) first ask    *)
(* get_size() and then call dequeue() up to that many times without ever    *)
(* looking at emptiness themselves; "promised" is what is left of that      *)
(* number.                                                                  *)
(***************************************************************************)
EXTENDS Naturals, Sequences

CONSTANTS
  Packets,     \* the buffers that travel through the queue
  QueueSize,   \* kWsQueueSize: slots of the ring
  Nullptr      \* the content of an unused slot, and dequeue()'s empty answer

\* The constructor asserts a power of two; the proofs need only two slots.
ASSUME QueueSizeAssumption == QueueSize \in Nat /\ QueueSize >= 2

VARIABLES
  queue_, head_, tail_,        \* the shared memory
  producer, pkt,               \* the producer's position and its argument
  consumer, ret,               \* the consumer's position and its loaded value
  promised,                    \* dequeues the last get_size() still covers
  stored, got                  \* the last answers of enqueue() and dequeue()

vars == <<queue_, head_, tail_, producer, pkt, consumer, ret, promised, stored, got>>
producerVars == <<producer, pkt, stored>>
consumerVars == <<consumer, ret, promised, got>>

Slots == 0 .. QueueSize - 1

\* (i + 1) & mask_
After(i) == (i + 1) % QueueSize

\* (tail_ - head_) & mask_, an unsigned difference
get_size == (tail_ + QueueSize - head_) % QueueSize

Init ==
  /\ queue_ = [i \in Slots |-> Nullptr]
  /\ head_ = 0
  /\ tail_ = 0
  /\ producer = "idle"
  /\ pkt = Nullptr
  /\ consumer = "idle"
  /\ ret = Nullptr
  /\ promised = 0
  /\ stored = TRUE
  /\ got = Nullptr

-----------------------------------------------------------------------------
(* enqueue(pkt) *)

EnqueueFull ==
  /\ producer = "idle"
  /\ After(tail_) = head_
  /\ stored' = FALSE
  /\ UNCHANGED <<queue_, head_, tail_, producer, pkt, consumerVars>>

\* Faulty EnqueueBegin, for a mutant: no look at head_.
EnqueueUnchecked(p) ==
  /\ producer = "idle"
  /\ producer' = "write"
  /\ pkt' = p
  /\ UNCHANGED <<queue_, head_, tail_, stored, consumerVars>>

EnqueueBegin(p) ==
  /\ producer = "idle"
  /\ After(tail_) # head_
  /\ producer' = "write"
  /\ pkt' = p
  /\ UNCHANGED <<queue_, head_, tail_, stored, consumerVars>>

\* Faulty WriteSlot, for a mutant: one slot too far.
WriteNextSlot ==
  /\ producer = "write"
  /\ queue_' = [queue_ EXCEPT ![After(tail_)] = pkt]
  /\ producer' = "publish"
  /\ UNCHANGED <<head_, tail_, pkt, stored, consumerVars>>

WriteSlot ==
  /\ producer = "write"
  /\ queue_' = [queue_ EXCEPT ![tail_] = pkt]
  /\ producer' = "publish"
  /\ UNCHANGED <<head_, tail_, pkt, stored, consumerVars>>

PublishTail ==
  /\ producer = "publish"
  /\ tail_' = After(tail_)
  /\ stored' = TRUE
  /\ producer' = "idle"
  /\ UNCHANGED <<queue_, head_, pkt, consumerVars>>

-----------------------------------------------------------------------------
(* get_size() and dequeue() *)

\* Faulty GetSize, for a mutant: counts a slot the producer has not published.
GetSizeAhead ==
  /\ consumer = "idle"
  /\ promised' = After(get_size)
  /\ UNCHANGED <<queue_, head_, tail_, consumer, ret, got, producerVars>>

GetSize ==
  /\ consumer = "idle"
  /\ promised' = get_size
  /\ UNCHANGED <<queue_, head_, tail_, consumer, ret, got, producerVars>>

DequeueEmpty ==
  /\ consumer = "idle"
  /\ head_ = tail_
  /\ got' = Nullptr
  /\ UNCHANGED <<queue_, head_, tail_, consumer, ret, promised, producerVars>>

DequeueBegin ==
  /\ consumer = "idle"
  /\ head_ # tail_
  /\ consumer' = "read"
  /\ UNCHANGED <<queue_, head_, tail_, ret, promised, got, producerVars>>

ReadSlot ==
  /\ consumer = "read"
  /\ ret' = queue_[head_]
  /\ consumer' = "advance"
  /\ UNCHANGED <<queue_, head_, tail_, promised, got, producerVars>>

AdvanceHead ==
  /\ consumer = "advance"
  /\ head_' = After(head_)
  /\ got' = ret
  /\ promised' = IF promised = 0 THEN 0 ELSE promised - 1
  /\ consumer' = "idle"
  /\ UNCHANGED <<queue_, tail_, ret, producerVars>>

Producer ==
  \/ EnqueueFull
  \/ \E p \in Packets : EnqueueBegin(p)
  \/ WriteSlot
  \/ PublishTail

Consumer ==
  \/ GetSize
  \/ DequeueEmpty
  \/ DequeueBegin
  \/ ReadSlot
  \/ AdvanceHead

Next == Producer \/ Consumer

Spec == Init /\ [][Next]_vars

-----------------------------------------------------------------------------
(* Properties *)

\* The values every variable may take.
TypeOK ==
  /\ queue_ \in [Slots -> Packets \union {Nullptr}]
  /\ head_ \in Slots
  /\ tail_ \in Slots
  /\ producer \in {"idle", "write", "publish"}
  /\ pkt \in Packets \union {Nullptr}
  /\ consumer \in {"idle", "read", "advance"}
  /\ ret \in Packets \union {Nullptr}
  /\ promised \in Slots
  /\ stored \in BOOLEAN
  /\ got \in Packets \union {Nullptr}

\* queue_'s slots are plain memory: the producer must never be storing into the
\* slot the consumer is loading (lock_free_queue.h:28 against :34).
NoSlotRace ==
  producer = "write" /\ consumer \in {"read", "advance"} => tail_ # head_

\* A get_size() answer never overstates what dequeue() will find: while part of
\* it is outstanding the queue is not empty, so app_handler's
\* rt_assert(... != nullptr, "Get invalid mbuf!") (workspace.h:224, :237) cannot
\* fire and collect_tx_pkts never stores a null buffer in its tx_queue_.
SizeIsAPromise == promised <= get_size

-----------------------------------------------------------------------------
(* The ring as the sequence of packets it holds *)

\* The slot k places after the head, k < QueueSize.
SlotAt(k) == (head_ + k) % QueueSize

Contents == [k \in 1 .. get_size |-> queue_[SlotAt(k - 1)]]

Fifo == INSTANCE BoundedFifo
          WITH fifo <- Contents, Capacity <- QueueSize - 1

\* The two threads' unsynchronised steps implement an atomic bounded FIFO: no
\* packet is lost, duplicated, reordered or invented, "full" is answered only
\* with QueueSize - 1 packets in the ring, "empty" only with none.
FifoSpec == Fifo!Spec
================================================================================
