----------------------------- MODULE ThreadBarrier -----------------------------
(***************************************************************************)
(* dperf::ThreadBarrier (src/src/util/barrier.h), where the workspaces of a *)
(* node wait for each other.  wait() is two steps: under the mutex a thread *)
(* counts itself and, unless it is the last, goes to sleep with the         *)
(* generation it saw; it leaves once the generation is another one.         *)
(***************************************************************************)
EXTENDS Naturals

CONSTANTS totalThreads

VARIABLES
  count,         \* threads that have arrived in this generation
  generation,
  gen            \* per thread: the generation it saw when it arrived

barrierVars == <<count, generation, gen>>

BarrierInit(Threads) ==
  /\ count = 0
  /\ generation = 0
  /\ gen = [t \in Threads |-> 0]

\* Faulty Arrive, for mutants: one thread too few opens the barrier.
ArriveEarly(t) ==
  /\ gen' = [gen EXCEPT ![t] = generation]
  /\ IF count + 1 < totalThreads - 1
       THEN count' = count + 1 /\ UNCHANGED generation
       ELSE count' = 0 /\ generation' = generation + 1

Arrive(t) ==
  /\ gen' = [gen EXCEPT ![t] = generation]
  /\ IF count + 1 < totalThreads
       THEN count' = count + 1 /\ UNCHANGED generation
       ELSE count' = 0 /\ generation' = generation + 1

Released(t) == gen[t] # generation
================================================================================
