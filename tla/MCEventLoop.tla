------------------------------ MODULE MCEventLoop ------------------------------
(* Instance of EventLoop for TLC: a dispatcher, a worker, and a workspace that  *)
(* is both; the worker is assigned to either dispatcher, so that in one of the  *)
(* configurations a dispatcher has no worker.                                   *)
EXTENDS EventLoop

CONSTANTS d1, w1, b1

ThreeWorkspaces == {d1, w1, b1}
TwoWorkers == {w1, b1}
TwoDispatchers == {d1, b1}
HomeFirst == {a \in [TwoWorkers -> TwoDispatchers] : a[b1] = b1}
================================================================================
