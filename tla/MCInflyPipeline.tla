---------------------------- MODULE MCInflyPipeline ----------------------------
(* Instances of InflyPipeline for TLC.  Batch sizes are chosen per side so    *)
(* that every threshold of the loop exceeds one in some run.                  *)
EXTENDS InflyPipeline

OnBoth(n) == [s \in Side |-> n]

\* Every threshold is one.
Ones == OnBoth(1)

\* Every threshold is two.
Twos == OnBoth(2)

\* The tx threshold bites on the client, the rx threshold on the server.
ClientTwo == [s \in Side |-> IF s = "client" THEN 2 ELSE 1]
ServerTwo == [s \in Side |-> IF s = "server" THEN 2 ELSE 1]
================================================================================
