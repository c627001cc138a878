------------------------------ MODULE BoundedFifo ------------------------------
(***************************************************************************)
(* What a workspace queue promises its two threads (dperf::lock_free_queue, *)
(* src/src/util/lock_free_queue.h): a first-in first-out queue of at most   *)
(* Capacity packets.  enqueue() stores the packet or, exactly when the      *)
(* queue is full, refuses it; dequeue() hands out the oldest packet or,     *)
(* exactly when the queue is empty, answers nullptr.  Every call takes      *)
(* effect at one instant.                                                   *)
(*                                                                          *)
(* The queue is a sequence; "stored" and "got" are the answers the last     *)
(* enqueue() and dequeue() returned to their callers.                       *)
(***************************************************************************)
EXTENDS Naturals, Sequences

CONSTANTS
  Packets,     \* the buffers that travel through the queue
  Capacity,    \* how many of them the queue holds at most
  Nullptr      \* what dequeue() returns from an empty queue

VARIABLES
  fifo,        \* the packets in the queue, oldest first
  stored,      \* the answer of the last enqueue()
  got          \* the answer of the last dequeue()

vars == <<fifo, stored, got>>

Init ==
  /\ fifo = <<>>
  /\ stored = TRUE
  /\ got = Nullptr

Store(pkt) ==
  /\ Len(fifo) < Capacity
  /\ fifo' = Append(fifo, pkt)
  /\ stored' = TRUE
  /\ UNCHANGED got

Refuse ==
  /\ Len(fifo) = Capacity
  /\ stored' = FALSE
  /\ UNCHANGED <<fifo, got>>

HandOut ==
  /\ fifo # <<>>
  /\ got' = Head(fifo)
  /\ fifo' = Tail(fifo)
  /\ UNCHANGED stored

AnswerEmpty ==
  /\ fifo = <<>>
  /\ got' = Nullptr
  /\ UNCHANGED <<fifo, stored>>

Next ==
  \/ \E pkt \in Packets : Store(pkt)
  \/ Refuse
  \/ HandOut
  \/ AnswerEmpty

Spec == Init /\ [][Next]_vars
================================================================================
