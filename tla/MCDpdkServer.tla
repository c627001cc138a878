------------------------------ MODULE MCDpdkServer ------------------------------
(* Instances of DpdkServer for TLC: what is built and configured.             *)
EXTENDS DpdkServer

\* One packet for one packet, on one thread.
OneThread ==
  [handler |-> "app", req |-> 1, resp |-> 1, applyNew |-> FALSE, shared |-> TRUE,
   arp |-> FALSE, queueCap |-> 2, dispTxBatch |-> 2, inFlight |-> 3, poolSize |-> 5]

\* The same with ARP packets in between.
WithArp == [OneThread EXCEPT !.arp = TRUE, !.inFlight = 2]

\* Requests of two packets, on two threads.
LongRequests == [OneThread EXCEPT !.req = 2, !.shared = FALSE, !.poolSize = 4]

\* Responses of two packets in mbufs of their own.  On one thread alloc_bulk has to
\* find them at once.  On two it may wait until the dispatcher has sent those of
\* the message before.
LongResponses ==
  [OneThread EXCEPT !.resp = 2, !.applyNew = TRUE, !.inFlight = 2, !.poolSize = 7]
WaitingResponses ==
  [LongResponses EXCEPT !.shared = FALSE, !.queueCap = 1, !.dispTxBatch = 1, !.poolSize = 5]

\* The reflector.
Echo == [OneThread EXCEPT !.handler = "echo", !.inFlight = 4]

Servers == {OneThread, WithArp, LongRequests, Echo, LongResponses, WaitingResponses}
JustWithArp == {WithArp}
================================================================================
