-------------------------------- MODULE BufferPool --------------------------------
(***************************************************************************)
(* What the dispatcher expects of its allocator: a buffer it gets shares no *)
(* byte of the registered memory with a buffer somebody still uses.         *)
(***************************************************************************)
EXTENDS Integers

CONSTANT Block, First(_), Behind(_)   \* a block's first byte and the one behind it

VARIABLE live

\* Two blocks without a common byte.
Apart(b, c) == Behind(b) <= First(c) \/ Behind(c) <= First(b)

Init == live = {}

Take(b) == (\A c \in live : Apart(b, c)) /\ live' = live \union {b}

Give(b) == b \in live /\ live' = live \ {b}

Next == \E b \in Block : Take(b) \/ Give(b)

Spec == Init /\ [][Next]_live
================================================================================
