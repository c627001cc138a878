---------------------------- MODULE MCLockFreeQueue ----------------------------
(* Instance of LockFreeQueue for TLC: a ring of four slots and distinguishable *)
(* packets, enough to wrap around, fill and drain it.                          *)
EXTENDS LockFreeQueue
================================================================================
