----------------------------- MODULE EventLoopProofs -----------------------------
(***************************************************************************)
(* For any number of workspaces, workers, dispatchers and iterations: where *)
(* every dispatcher has a worker, no workspace is ever in another iteration *)
(* than one that measures, and each iteration has exactly one report.       *)
(*                                                                          *)
(* The argument: count how often each thread has come to the barrier        *)
(* (Arrivals, read off its place in the loop).  The barrier's generation is *)
(* that number for every thread that is not waiting, and one less for those *)
(* that wait.  So where the generation stands tells where all threads are,  *)
(* and what the shared context must hold there (Round).                     *)
(***************************************************************************)
EXTENDS EventLoop, FiniteSetTheorems, TLAPS

N == Cardinality(Workspaces)

\* Cardinality is a number, as Workspaces is finite.
LEMMA WorkspacesCounted == IsFiniteSet(Workspaces) /\ N \in Nat \ {0}
<1>1. IsFiniteSet(Workspaces) /\ Workspaces # {}
  BY WorkspaceAssumption
<1> QED
  BY <1>1, FS_CardinalityType, FS_EmptySet DEF N

-----------------------------------------------------------------------------
(* The inductive invariant *)

\* Every variable but the two counters of the context, see Round.
Types ==
  /\ dispatcher_ws_id_ \in Assignments
  /\ pc \in [Workspaces -> Stages] /\ iter \in [Workspaces -> 0 .. Iterations]
  /\ active_ws_id_ \subseteq Workspaces /\ end_signal_ \in BOOLEAN
  /\ ws_queues_ \in [Dispatchers -> SUBSET Workers]
  /\ expired \in [Workspaces -> BOOLEAN] /\ stalled \in [Workers -> BOOLEAN]
  /\ stats_init_ws_ \in [Workspaces -> BOOLEAN]
  /\ count \in Nat /\ count < N /\ generation \in Nat
  /\ gen \in [Workspaces -> Nat]

Constructing == {"construct", "registered", "configure", "ready"}

\* Which iterations a thread can be in, by its place.
Places ==
  \A t \in Workspaces :
    /\ pc[t] \in Constructing => iter[t] = 0
    /\ pc[t] \notin Constructing \union {"init"} => iter[t] >= 1
    /\ pc[t] = "init" => iter[t] < Iterations
    /\ pc[t] = "exited" => iter[t] = Iterations
    /\ pc[t] # "construct" => t \in active_ws_id_

Waiting == {"registered", "ready", "start", "end"}

\* How often thread t has come to the barrier.
Arrivals(t) ==
  IF pc[t] = "construct" THEN 0
  ELSE IF pc[t] \in {"registered", "configure"} THEN 1
  ELSE IF pc[t] \in {"start", "run", "completed"} THEN 2 * iter[t] + 1
  ELSE 2 * iter[t] + 2

\* The threads counted in this generation.
Arrived == {t \in Workspaces : Arrivals(t) = generation + 1}

InStep ==
  /\ \A t \in Workspaces :
       /\ pc[t] \in Waiting => /\ gen[t] + 1 = Arrivals(t)
                               /\ Arrivals(t) \in {generation, generation + 1}
       /\ pc[t] \notin Waiting => Arrivals(t) = generation
  /\ count = Cardinality(Arrived)

\* Who aggregates, and when.
OneAggregator ==
  /\ \A t \in Workspaces :
       stats_init_ws_[t] => end_signal_ /\ pc[t] \in {"completed", "end", "report"}
  /\ \A t, u \in Workspaces : stats_init_ws_[t] /\ stats_init_ws_[u] => t = u
  /\ end_signal_ => \E t \in Workspaces : stats_init_ws_[t]
  /\ \A t \in Workspaces : pc[t] = "completed" => end_signal_

Done == {t \in Workspaces : pc[t] \in {"completed", "end"}}

\* What the context holds before the first iteration, while iteration i is
\* measured, and between that and the start of the next.
Before == generation <= 2 /\ reports = 0 /\ ~end_signal_ /\ completed_ws_num_ = 0
Measuring(i) ==
  /\ generation = 2 * i + 1
  /\ reports = i - 1 /\ completed_ws_num_ = Cardinality(Done)
Reporting(i) ==
  /\ generation = 2 * i + 2
  /\ end_signal_ => reports = i - 1 /\ completed_ws_num_ = N
  /\ ~end_signal_ => reports = i /\ completed_ws_num_ = 0
Round == Before \/ \E i \in 1 .. Iterations : Measuring(i) \/ Reporting(i)

IInv == Types /\ Places /\ InStep /\ OneAggregator /\ Round

\* Before construction nobody has come to the barrier.
LEMMA InitIInv == Init => IInv
<1> SUFFICES ASSUME Init PROVE IInv
  OBVIOUS
<1>1. N \in Nat \ {0}
  BY WorkspacesCounted
<1>2. count = 0 /\ generation = 0 /\ gen = [t \in Workspaces |-> 0]
  BY DEF Init, Barrier!BarrierInit
<1>3. Types
  <2>1. 0 \in 0 .. Iterations
    BY WorkspaceAssumption
  <2>2. pc \in [Workspaces -> Stages] /\ iter \in [Workspaces -> 0 .. Iterations]
    BY <2>1 DEF Init, Stages
  <2>3. /\ expired \in [Workspaces -> BOOLEAN] /\ stalled \in [Workers -> BOOLEAN]
        /\ stats_init_ws_ \in [Workspaces -> BOOLEAN] /\ end_signal_ \in BOOLEAN
    BY DEF Init
  <2>4. /\ dispatcher_ws_id_ \in Assignments /\ active_ws_id_ \subseteq Workspaces
        /\ ws_queues_ \in [Dispatchers -> SUBSET Workers]
    BY DEF Init
  <2>5. count \in Nat /\ count < N /\ generation \in Nat /\ gen \in [Workspaces -> Nat]
    BY <1>1, <1>2
  <2> QED
    BY <2>2, <2>3, <2>4, <2>5 DEF Types
<1>4. Places
  BY DEF Init, Places, Constructing
<1>5. InStep
  <2>1. \A t \in Workspaces : pc[t] = "construct" /\ Arrivals(t) = 0
    BY DEF Init, Arrivals
  <2>2. Arrived = {}
    BY <1>2, <2>1 DEF Arrived
  <2> QED
    BY <1>2, <2>1, <2>2, FS_EmptySet DEF InStep, Waiting
<1>6. OneAggregator /\ Round
  BY <1>2 DEF Init, OneAggregator, Round, Before
<1> QED
  BY <1>3, <1>4, <1>5, <1>6 DEF IInv

-----------------------------------------------------------------------------
(* The barrier *)

\* A thread comes to the barrier: either nothing else changes, or it was the last
\* and now every thread is waiting and released.
LEMMA Arriving ==
  ASSUME Types, InStep, NEW t \in Workspaces, pc[t] \notin Waiting, Barrier!Arrive(t),
         pc'[t] \in Waiting, Arrivals(t)' = Arrivals(t) + 1,
         \A u \in Workspaces : u # t => Arrivals(u)' = Arrivals(u) /\ pc'[u] = pc[u]
  PROVE  /\ InStep'
         /\ count' \in Nat /\ count' < N /\ gen' \in [Workspaces -> Nat] /\ generation' \in Nat
         /\ \/ generation' = generation
            \/ /\ generation' = generation + 1
               /\ \A u \in Workspaces : Arrivals(u)' = generation' /\ pc'[u] \in Waiting
               /\ \A u \in Workspaces : u # t => pc[u] \in Waiting
<1>1. /\ IsFiniteSet(Workspaces) /\ N \in Nat \ {0} /\ generation \in Nat
      /\ count \in Nat /\ count < N /\ gen \in [Workspaces -> Nat]
  BY WorkspacesCounted DEF Types
<1>2. /\ gen' = [gen EXCEPT ![t] = generation]
      /\ count + 1 < N => count' = count + 1 /\ generation' = generation
      /\ ~(count + 1 < N) => count' = 0 /\ generation' = generation + 1
  BY DEF Barrier!Arrive, N
<1>3. /\ Arrivals(t) = generation /\ t \notin Arrived
      /\ count = Cardinality(Arrived) /\ Arrived \subseteq Workspaces
  BY <1>1 DEF InStep, Arrived
<1>4. gen' \in [Workspaces -> Nat] /\ gen'[t] = generation
      /\ \A u \in Workspaces : u # t => gen'[u] = gen[u]
  BY <1>1, <1>2
<1>5. IsFiniteSet(Arrived) /\ Cardinality(Arrived \union {t}) = count + 1
  BY <1>1, <1>3, FS_Subset, FS_AddElement
<1>6. CASE count + 1 < N
  <2>1. count' = count + 1 /\ generation' = generation
    BY <1>2, <1>6
  <2>2. Arrived' = Arrived \union {t}
    BY <1>1, <1>3, <2>1 DEF Arrived
  <2>3. \A u \in Workspaces :
          /\ pc'[u] \in Waiting => /\ gen'[u] + 1 = Arrivals(u)'
                                   /\ Arrivals(u)' \in {generation', generation' + 1}
          /\ pc'[u] \notin Waiting => Arrivals(u)' = generation'
    <3> TAKE u \in Workspaces
    <3>1. CASE u = t
      BY <1>3, <1>4, <2>1, <3>1
    <3>2. CASE u # t
      BY <1>4, <2>1, <3>2 DEF InStep
    <3> QED
      BY <3>1, <3>2
  <2>4. InStep'
    BY <1>5, <2>1, <2>2, <2>3 DEF InStep
  <2> QED
    BY <1>1, <1>4, <1>6, <2>1, <2>4
<1>7. CASE ~(count + 1 < N)
  <2>1. count' = 0 /\ generation' = generation + 1
    BY <1>2, <1>7
  <2>2. Arrived \union {t} = Workspaces
    <3>1. Cardinality(Arrived \union {t}) = Cardinality(Workspaces)
      BY <1>1, <1>5, <1>7 DEF N
    <3>2. Arrived \union {t} \in SUBSET Workspaces
      BY <1>3
    <3> QED
      BY <1>1, <3>1, <3>2, FS_Subset
  <2>3. \A u \in Workspaces : Arrivals(u)' = generation + 1
    BY <1>3, <2>2 DEF Arrived
  <2>4. \A u \in Workspaces : u # t => pc[u] \in Waiting /\ gen[u] + 1 = generation + 1
    <3> TAKE u \in Workspaces
    <3>1. u # t => Arrivals(u) = generation + 1
      BY <2>2 DEF Arrived
    <3>2. generation + 1 # generation
      BY <1>1
    <3> QED
      BY <3>1, <3>2 DEF InStep
  <2>5. Arrived' = {}
    BY <1>1, <2>1, <2>3 DEF Arrived
  <2>6. \A u \in Workspaces : pc'[u] \in Waiting /\ gen'[u] + 1 = generation + 1
    BY <1>4, <2>4
  <2>7. InStep'
    BY <2>1, <2>3, <2>5, <2>6, FS_EmptySet DEF InStep
  <2> QED
    BY <1>1, <1>4, <2>1, <2>3, <2>4, <2>6, <2>7
<1> QED
  BY <1>6, <1>7

\* Steps after which every thread has come to the barrier as often as before, and
\* a waiting thread has gone on only if it was released.
LEMMA Staying ==
  ASSUME Types, InStep, UNCHANGED <<count, generation, gen>>,
         \A u \in Workspaces :
           /\ Arrivals(u)' = Arrivals(u)
           /\ pc'[u] \in Waiting => pc[u] \in Waiting
           /\ pc[u] \in Waiting /\ pc'[u] \notin Waiting => gen[u] # generation
  PROVE  InStep'
<1>1. generation \in Nat /\ gen \in [Workspaces -> Nat]
  BY DEF Types
<1>2. Arrived' = Arrived
  BY DEF Arrived
<1>3. ASSUME NEW u \in Workspaces
      PROVE  /\ pc'[u] \in Waiting => /\ gen[u] + 1 = Arrivals(u)
                                      /\ Arrivals(u) \in {generation, generation + 1}
             /\ pc'[u] \notin Waiting => Arrivals(u) = generation
  <2>1. CASE pc[u] \in Waiting
    <3>1. gen[u] \in Nat /\ gen[u] + 1 = Arrivals(u)
          /\ Arrivals(u) \in {generation, generation + 1}
      BY <1>1, <2>1 DEF InStep
    <3>2. pc'[u] \notin Waiting => Arrivals(u) = generation
      BY <1>1, <2>1, <3>1
    <3> QED
      BY <3>1, <3>2
  <2>2. CASE pc[u] \notin Waiting
    BY <2>2 DEF InStep
  <2> QED
    BY <2>1, <2>2
<1> QED
  BY <1>2, <1>3 DEF InStep

-----------------------------------------------------------------------------
(* Every step keeps it *)

\* What Go does to the places.
LEMMA Going ==
  ASSUME Types, NEW t \in Workspaces, NEW from, NEW to \in Stages, Go(t, from, to)
  PROVE  /\ pc[t] = from /\ pc'[t] = to /\ pc' \in [Workspaces -> Stages]
         /\ \A u \in Workspaces : u # t => pc'[u] = pc[u]
BY DEF Go, Types

\* The numbers the arguments about generations are made of.
LEMMA Numbers ==
  ASSUME IInv
  PROVE  /\ Iterations \in Nat /\ N \in Nat /\ generation \in Nat
         /\ \A t \in Workspaces : iter[t] \in Nat /\ iter[t] <= Iterations
         /\ \A t \in Workspaces : Arrivals(t) \in Nat
<1>1. Iterations \in Nat /\ N \in Nat /\ generation \in Nat
  BY WorkspaceAssumption, WorkspacesCounted DEF IInv, Types
<1>2. \A t \in Workspaces : iter[t] \in Nat /\ iter[t] <= Iterations
  BY <1>1 DEF IInv, Types
<1> QED
  BY <1>1, <1>2 DEF Arrivals

\* A generation belongs to one part of Round.
LEMMA WhichRound ==
  ASSUME IInv
  PROVE  /\ generation <= 2 => Before
         /\ \A i \in Nat \ {0} : generation = 2 * i + 1 => Measuring(i)
         /\ \A i \in Nat \ {0} : generation = 2 * i + 2 => Reporting(i)
<1>1. Iterations \in Nat /\ generation \in Nat
  BY Numbers
<1>2. Round
  BY DEF IInv
<1>3. CASE Before
  BY <1>1, <1>3 DEF Before
<1>4. CASE \E j \in 1 .. Iterations : Measuring(j)
  <2> PICK j \in 1 .. Iterations : Measuring(j)
    BY <1>4
  <2>1. generation = 2 * j + 1
    BY DEF Measuring
  <2>2. ~(generation <= 2) /\ \A i \in Nat : generation # 2 * i + 2
    BY <1>1, <2>1
  <2>3. \A i \in Nat : generation = 2 * i + 1 => i = j
    BY <1>1, <2>1
  <2> QED
    BY <2>2, <2>3
<1>5. CASE \E j \in 1 .. Iterations : Reporting(j)
  <2> PICK j \in 1 .. Iterations : Reporting(j)
    BY <1>5
  <2>1. generation = 2 * j + 2
    BY DEF Reporting
  <2>2. ~(generation <= 2) /\ \A i \in Nat : generation # 2 * i + 1
    BY <1>1, <2>1
  <2>3. \A i \in Nat : generation = 2 * i + 2 => i = j
    BY <1>1, <2>1
  <2> QED
    BY <2>2, <2>3
<1> QED
  BY <1>2, <1>3, <1>4, <1>5 DEF Round

\* Leaving the barrier.
LEMMA Passing ==
  ASSUME IInv, NEW t \in Workspaces, NEW from, NEW to,
         \/ from = "registered" /\ to = "configure"
         \/ from = "ready" /\ to = "init"
         \/ from = "start" /\ to = "run"
         \/ from = "end" /\ to = "report",
         Pass(t, from, to), UNCHANGED iter, expired' \in [Workspaces -> BOOLEAN]
  PROVE  IInv'
<1>1. /\ Go(t, from, to) /\ gen[t] # generation
      /\ UNCHANGED <<dispatcher_ws_id_, active_ws_id_, end_signal_, completed_ws_num_, iter,
                     ws_queues_, stats_init_ws_, reports, stalled, count, generation, gen>>
  BY DEF Pass, Barrier!Released, contextVars, barrierVars
<1>2. /\ pc[t] = from /\ pc'[t] = to /\ pc' \in [Workspaces -> Stages]
      /\ \A u \in Workspaces : u # t => pc'[u] = pc[u]
  <2>1. to \in Stages
    BY DEF Stages
  <2> QED
    BY <1>1, <2>1, Going DEF IInv
<1>3. Types'
  BY <1>1, <1>2 DEF IInv, Types
<1>4. Places'
  <2>1. 0 < Iterations
    BY WorkspaceAssumption
  <2> QED
    BY <1>1, <1>2, <2>1 DEF IInv, Places, Constructing
<1>5. \A u \in Workspaces : Arrivals(u)' = Arrivals(u)
  <2> TAKE u \in Workspaces
  <2>1. CASE u = t
    <3>1. pc[t] = "ready" => iter[t] = 0
      BY DEF IInv, Places, Constructing
    <3> QED
      BY <1>1, <1>2, <2>1, <3>1 DEF Arrivals
  <2>2. CASE u # t
    BY <1>1, <1>2, <2>2 DEF Arrivals
  <2> QED
    BY <2>1, <2>2
<1>6. InStep'
  <2>1. to \notin Waiting
    BY DEF Waiting
  <2>2. \A u \in Workspaces :
          /\ pc'[u] \in Waiting => pc[u] \in Waiting
          /\ pc[u] \in Waiting /\ pc'[u] \notin Waiting => gen[u] # generation
    BY <1>1, <1>2, <2>1
  <2> QED
    BY <1>1, <1>5, <2>2, Staying DEF IInv
<1>7. OneAggregator'
  BY <1>1, <1>2 DEF IInv, OneAggregator
<1>8. Round'
  <2>1. CASE from # "end"
    <3>1. Done' = Done
      BY <1>2, <2>1 DEF Done
    <3> QED
      BY <1>1, <3>1 DEF IInv, Round, Before, Measuring, Reporting
  <2>2. CASE from = "end"
    <3>1. generation = 2 * iter[t] + 2 /\ iter[t] \in 1 .. Iterations
      <4>1. iter[t] \in Nat /\ iter[t] <= Iterations /\ iter[t] >= 1 /\ generation \in Nat
        BY <1>2, <2>2, Numbers DEF IInv, Places, Constructing
      <4>2. gen[t] + 1 = Arrivals(t) /\ Arrivals(t) \in {generation, generation + 1}
            /\ gen[t] \in Nat
        BY <1>2, <2>2 DEF IInv, InStep, Waiting, Types
      <4>3. Arrivals(t) = generation
        BY <1>1, <4>1, <4>2
      <4> QED
        BY <1>2, <2>2, <4>1, <4>3 DEF Arrivals
    <3>2. Reporting(iter[t])
      BY <3>1, WhichRound
    <3>3. Reporting(iter[t])'
      BY <1>1, <3>2 DEF Reporting
    <3> QED
      BY <1>1, <3>1, <3>3 DEF Round
  <2> QED
    BY <2>1, <2>2
<1> QED
  BY <1>3, <1>4, <1>6, <1>7, <1>8 DEF IInv

\* The passing time and what happens inside launch() leave the loops alone.
LEMMA InsideKeeps ==
  ASSUME IInv,
         UNCHANGED <<dispatcher_ws_id_, pc, iter, active_ws_id_, end_signal_, completed_ws_num_,
                     ws_queues_, stats_init_ws_, reports, count, generation, gen>>,
         expired' \in [Workspaces -> BOOLEAN], stalled' \in [Workers -> BOOLEAN]
  PROVE  IInv'
<1>1. Types' /\ Places' /\ OneAggregator'
  BY DEF IInv, Types, Places, OneAggregator
<1>2. \A u \in Workspaces : Arrivals(u)' = Arrivals(u)
  BY DEF Arrivals
<1>3. InStep'
  BY <1>2, Staying DEF IInv
<1>4. Done' = Done
  BY DEF Done
<1>5. Round'
  BY <1>4 DEF IInv, Round, Before, Measuring, Reporting
<1> QED
  BY <1>1, <1>3, <1>5 DEF IInv

\* A thread registers before it first comes to the barrier.
LEMMA RegisterKeeps == \A t \in Workspaces : IInv /\ Register(t) => IInv'
<1> SUFFICES ASSUME NEW t \in Workspaces, IInv, Register(t) PROVE IInv'
  OBVIOUS
<1>1. /\ Go(t, "construct", "registered") /\ Barrier!Arrive(t)
      /\ active_ws_id_' = active_ws_id_ \union {t}
      /\ UNCHANGED <<dispatcher_ws_id_, iter, end_signal_, completed_ws_num_, ws_queues_,
                     expired, stalled, stats_init_ws_, reports>>
  BY DEF Register
<1>2. /\ pc[t] = "construct" /\ pc'[t] = "registered" /\ pc' \in [Workspaces -> Stages]
      /\ \A u \in Workspaces : u # t => pc'[u] = pc[u]
  <2>1. "registered" \in Stages
    BY DEF Stages
  <2> QED
    BY <1>1, <2>1, Going DEF IInv
<1>3. /\ Arrivals(t) = 0 /\ Arrivals(t)' = Arrivals(t) + 1
      /\ \A u \in Workspaces : u # t => Arrivals(u)' = Arrivals(u)
  BY <1>1, <1>2 DEF Arrivals
<1>4. /\ InStep'
      /\ count' \in Nat /\ count' < N /\ gen' \in [Workspaces -> Nat] /\ generation' \in Nat
      /\ generation' = generation \/ generation' = generation + 1
  BY <1>1, <1>2, <1>3, Arriving DEF IInv, Waiting
<1>5. Types'
  BY <1>1, <1>2, <1>4 DEF IInv, Types
<1>6. Places'
  BY <1>1, <1>2 DEF IInv, Places, Constructing
<1>7. OneAggregator'
  BY <1>1, <1>2 DEF IInv, OneAggregator
<1>8. Round'
  <2>1. generation = 0
    BY <1>2, <1>3 DEF IInv, InStep, Waiting
  <2>2. Before
    BY <2>1, WhichRound
  <2> QED
    BY <1>1, <1>4, <2>1, <2>2 DEF Round, Before
<1> QED
  BY <1>4, <1>5, <1>6, <1>7, <1>8 DEF IInv

\* All have registered by now, so no dispatcher with a worker returns early.
LEMMA ConfigureKeeps ==
  \A t \in Workspaces : IInv /\ ConfigComplete /\ Configure(t) => IInv'
<1> SUFFICES ASSUME NEW t \in Workspaces, IInv, ConfigComplete, Configure(t) PROVE IInv'
  OBVIOUS
<1>1. pc[t] = "configure"
  BY DEF Configure, Go
<1>2. generation = 1
  BY <1>1 DEF IInv, InStep, Waiting, Arrivals
<1>3. active_ws_id_ = Workspaces
  <2>1. ASSUME NEW u \in Workspaces PROVE pc[u] # "construct"
    <3>1. SUFFICES ASSUME pc[u] = "construct" PROVE FALSE
      OBVIOUS
    <3>2. Arrivals(u) = 0 /\ Arrivals(u) = generation
      BY <3>1 DEF IInv, InStep, Waiting, Arrivals
    <3> QED
      BY <1>2, <3>2
  <2> QED
    BY <2>1 DEF IInv, Types, Places
<1>4. t \in Dispatchers => WorkersOf(t) \intersect active_ws_id_ # {}
  <2>1. t \in Dispatchers => WorkersOf(t) # {} /\ WorkersOf(t) \subseteq Workspaces
    BY WorkspaceAssumption DEF ConfigComplete, WorkersOf
  <2> QED
    BY <1>3, <2>1
<1>5. /\ Go(t, "configure", "ready") /\ Barrier!Arrive(t)
      /\ UNCHANGED <<dispatcher_ws_id_, iter, active_ws_id_, end_signal_, completed_ws_num_,
                     expired, stalled, stats_init_ws_, reports>>
  BY <1>4 DEF Configure, contextVars
<1>6. ws_queues_' \in [Dispatchers -> SUBSET Workers]
  BY DEF Configure, IInv, Types, WorkersOf
<1>7. /\ pc'[t] = "ready" /\ pc' \in [Workspaces -> Stages]
      /\ \A u \in Workspaces : u # t => pc'[u] = pc[u]
  <2>1. "ready" \in Stages
    BY DEF Stages
  <2> QED
    BY <1>5, <2>1, Going DEF IInv
<1>8. iter[t] = 0
  BY <1>1 DEF IInv, Places, Constructing
<1>9. /\ Arrivals(t)' = Arrivals(t) + 1
      /\ \A u \in Workspaces : u # t => Arrivals(u)' = Arrivals(u)
  BY <1>1, <1>5, <1>7, <1>8 DEF Arrivals
<1>10. /\ InStep'
       /\ count' \in Nat /\ count' < N /\ gen' \in [Workspaces -> Nat] /\ generation' \in Nat
       /\ generation' = generation \/ generation' = generation + 1
  BY <1>1, <1>5, <1>7, <1>9, Arriving DEF IInv, Waiting
<1>11. Types'
  BY <1>5, <1>6, <1>7, <1>10 DEF IInv, Types
<1>12. Places'
  BY <1>1, <1>5, <1>7 DEF IInv, Places, Constructing
<1>13. OneAggregator'
  BY <1>1, <1>5, <1>7 DEF IInv, OneAggregator
<1>14. Round'
  <2>1. Before
    BY <1>2, WhichRound
  <2> QED
    BY <1>2, <1>5, <1>10, <2>1 DEF Round, Before
<1> QED
  BY <1>10, <1>11, <1>12, <1>13, <1>14 DEF IInv

\* The last thread to come opens an iteration for which the context is ready.
LEMMA BeginIterationKeeps == \A t \in Workspaces : IInv /\ BeginIteration(t) => IInv'
<1> SUFFICES ASSUME NEW t \in Workspaces, IInv, BeginIteration(t) PROVE IInv'
  OBVIOUS
<1> DEFINE i == iter[t] + 1
<1>1. /\ Go(t, "init", "start") /\ Barrier!Arrive(t)
      /\ iter' = [iter EXCEPT ![t] = @ + 1]
      /\ UNCHANGED <<dispatcher_ws_id_, active_ws_id_, end_signal_, completed_ws_num_,
                     ws_queues_, expired, stalled, stats_init_ws_, reports>>
  BY DEF BeginIteration, contextVars
<1>2. /\ pc[t] = "init" /\ pc'[t] = "start" /\ pc' \in [Workspaces -> Stages]
      /\ \A u \in Workspaces : u # t => pc'[u] = pc[u]
  <2>1. "start" \in Stages
    BY DEF Stages
  <2> QED
    BY <1>1, <2>1, Going DEF IInv
<1>3. /\ iter \in [Workspaces -> 0 .. Iterations] /\ Iterations \in Nat
      /\ iter[t] \in Nat /\ iter[t] < Iterations /\ i \in 1 .. Iterations
      /\ generation \in Nat
  BY <1>2, Numbers DEF IInv, Types, Places
<1>4. /\ iter' \in [Workspaces -> 0 .. Iterations] /\ iter'[t] = i
      /\ \A u \in Workspaces : u # t => iter'[u] = iter[u]
  BY <1>1, <1>3
<1>5. /\ Arrivals(t) = 2 * iter[t] + 2 /\ Arrivals(t)' = Arrivals(t) + 1
      /\ \A u \in Workspaces : u # t => Arrivals(u)' = Arrivals(u)
  <2>1. Arrivals(t) = 2 * iter[t] + 2 /\ Arrivals(t)' = 2 * i + 1
    BY <1>2, <1>4 DEF Arrivals
  <2>2. 2 * i + 1 = 2 * iter[t] + 2 + 1
    BY <1>3
  <2>3. \A u \in Workspaces : u # t => Arrivals(u)' = Arrivals(u)
    BY <1>2, <1>4 DEF Arrivals
  <2> HIDE DEF i
  <2> QED
    BY <2>1, <2>2, <2>3
<1>6. generation = 2 * iter[t] + 2
  BY <1>2, <1>5 DEF IInv, InStep, Waiting
<1>7. /\ InStep'
      /\ count' \in Nat /\ count' < N /\ gen' \in [Workspaces -> Nat] /\ generation' \in Nat
      /\ \/ generation' = generation
         \/ /\ generation' = generation + 1
            /\ \A u \in Workspaces : Arrivals(u)' = generation' /\ pc'[u] \in Waiting
            /\ \A u \in Workspaces : u # t => pc[u] \in Waiting
  BY <1>1, <1>2, <1>5, Arriving DEF IInv, Waiting
<1>8. Types'
  BY <1>1, <1>2, <1>4, <1>7 DEF IInv, Types
<1>9. Places'
  BY <1>1, <1>2, <1>3, <1>4 DEF IInv, Places, Constructing
<1>10. OneAggregator'
  BY <1>1, <1>2 DEF IInv, OneAggregator
<1>11. Round'
  <2>1. CASE generation' = generation
    <3>1. Done' = Done
      BY <1>2 DEF Done
    <3> QED
      BY <1>1, <2>1, <3>1 DEF IInv, Round, Before, Measuring, Reporting
  <2>2. CASE generation' # generation
    <3>1. /\ generation' = 2 * i + 1
          /\ \A u \in Workspaces : Arrivals(u)' = 2 * i + 1 /\ pc'[u] \in Waiting
      BY <1>3, <1>6, <1>7, <2>2
    <3>2. \A u \in Workspaces : pc'[u] # "end"
      <4> SUFFICES ASSUME NEW u \in Workspaces, pc'[u] = "end" PROVE FALSE
        OBVIOUS
      <4>1. Arrivals(u)' = 2 * iter'[u] + 2 /\ iter'[u] \in Nat
        BY <1>3, <1>4 DEF Arrivals
      <4> QED
        BY <1>3, <3>1, <4>1
    <3>3. Done' = {} /\ Cardinality(Done') = 0
      BY <3>1, <3>2, FS_EmptySet DEF Done, Waiting
    <3>4. ~end_signal_
      <4> SUFFICES ASSUME end_signal_ PROVE FALSE
        OBVIOUS
      <4> PICK u \in Workspaces : stats_init_ws_[u]
        BY DEF IInv, OneAggregator
      <4>1. pc[u] \in {"completed", "end", "report"}
        BY DEF IInv, OneAggregator
      <4>2. pc'[u] = pc[u]
        BY <1>2, <4>1
      <4> QED
        BY <3>1, <3>2, <4>1, <4>2 DEF Waiting
    <3>5. reports = i - 1 /\ completed_ws_num_ = 0
      <4>1. CASE iter[t] = 0
        <5>1. Before
          BY <1>6, <4>1, WhichRound
        <5> QED
          BY <4>1, <5>1 DEF Before
      <4>2. CASE iter[t] # 0
        <5>1. Reporting(iter[t])
          BY <1>3, <1>6, <4>2, WhichRound
        <5> QED
          BY <1>3, <3>4, <5>1 DEF Reporting
      <4> QED
        BY <4>1, <4>2
    <3>6. \A j \in 1 .. Iterations : j = i => Measuring(j)'
      BY <1>1, <1>3, <3>1, <3>3, <3>5 DEF Measuring
    <3>7. PICK j \in 1 .. Iterations : j = i
      BY <1>3
    <3> QED
      BY <3>6, <3>7 DEF Round
  <2> QED
    BY <2>1, <2>2
<1> QED
  BY <1>7, <1>8, <1>9, <1>10, <1>11 DEF IInv

\* A thread in an iteration and the context.
LEMMA InIterationFacts ==
  ASSUME IInv, NEW t \in Workspaces, pc[t] \in {"run", "completed"}
  PROVE  /\ iter[t] \in 1 .. Iterations /\ iter[t] \in Nat \ {0}
         /\ generation = 2 * iter[t] + 1
         /\ Measuring(iter[t])
<1>1. iter[t] \in 1 .. Iterations /\ iter[t] \in Nat \ {0}
  BY Numbers DEF IInv, Places, Constructing
<1>2. generation = 2 * iter[t] + 1
  BY DEF IInv, InStep, Waiting, Arrivals
<1> QED
  BY <1>1, <1>2, WhichRound

\* The first workspace to complete aggregates, the others count themselves only.
LEMMA UpdateStatsKeeps == \A t \in Workspaces : IInv /\ UpdateStats(t) => IInv'
<1> SUFFICES ASSUME NEW t \in Workspaces, IInv, UpdateStats(t) PROVE IInv'
  OBVIOUS
<1>1. /\ Go(t, "run", "completed")
      /\ completed_ws_num_' = completed_ws_num_ + 1 /\ end_signal_' = TRUE
      /\ stats_init_ws_' = [stats_init_ws_ EXCEPT ![t] = @ \/ ~end_signal_]
      /\ UNCHANGED <<dispatcher_ws_id_, iter, active_ws_id_, ws_queues_, expired, stalled,
                     reports, count, generation, gen>>
  BY DEF UpdateStats, barrierVars
<1>2. /\ pc[t] = "run" /\ pc'[t] = "completed" /\ pc' \in [Workspaces -> Stages]
      /\ \A u \in Workspaces : u # t => pc'[u] = pc[u]
  <2>1. "completed" \in Stages
    BY DEF Stages
  <2> QED
    BY <1>1, <2>1, Going DEF IInv
<1>3. /\ iter[t] \in 1 .. Iterations /\ generation = 2 * iter[t] + 1 /\ Measuring(iter[t])
  BY <1>2, InIterationFacts
<1>4. /\ stats_init_ws_ \in [Workspaces -> BOOLEAN]
      /\ stats_init_ws_' \in [Workspaces -> BOOLEAN]
      /\ stats_init_ws_'[t] = (stats_init_ws_[t] \/ ~end_signal_)
      /\ \A u \in Workspaces : u # t => stats_init_ws_'[u] = stats_init_ws_[u]
  <2>1. stats_init_ws_ \in [Workspaces -> BOOLEAN] /\ end_signal_ \in BOOLEAN
    BY DEF IInv, Types
  <2> QED
    BY <1>1, <2>1
<1>5. Types'
  BY <1>1, <1>2, <1>4 DEF IInv, Types
<1>6. Places'
  BY <1>1, <1>2 DEF IInv, Places, Constructing
<1>7. InStep'
  <2>1. \A u \in Workspaces : Arrivals(u)' = Arrivals(u)
    BY <1>1, <1>2 DEF Arrivals
  <2>2. \A u \in Workspaces : (pc'[u] \in Waiting) <=> (pc[u] \in Waiting)
    BY <1>2 DEF Waiting
  <2> QED
    BY <1>1, <2>1, <2>2, Staying DEF IInv
<1>8. OneAggregator'
  <2>1. /\ \A u \in Workspaces :
             stats_init_ws_[u] => end_signal_ /\ pc[u] \in {"completed", "end", "report"}
        /\ \A u, v \in Workspaces : stats_init_ws_[u] /\ stats_init_ws_[v] => u = v
        /\ end_signal_ => \E u \in Workspaces : stats_init_ws_[u]
    BY DEF IInv, OneAggregator
  <2>2. ~stats_init_ws_[t]
    BY <1>2, <2>1
  <2>3. \A u \in Workspaces :
          stats_init_ws_'[u] => end_signal_' /\ pc'[u] \in {"completed", "end", "report"}
    BY <1>1, <1>2, <1>4, <2>1
  <2>4. \A u, v \in Workspaces : stats_init_ws_'[u] /\ stats_init_ws_'[v] => u = v
    BY <1>4, <2>1, <2>2
  <2>5. \E u \in Workspaces : stats_init_ws_'[u]
    <3>1. CASE end_signal_
      BY <1>4, <2>1, <2>2, <3>1
    <3>2. CASE ~end_signal_
      BY <1>4, <3>2
    <3> QED
      BY <3>1, <3>2
  <2> QED
    BY <1>1, <2>3, <2>4, <2>5 DEF OneAggregator
<1>9. Round'
  <2>1. Done' = Done \union {t} /\ t \notin Done /\ Done \subseteq Workspaces
    BY <1>2 DEF Done
  <2>2. Cardinality(Done') = Cardinality(Done) + 1
    BY <2>1, WorkspacesCounted, FS_Subset, FS_AddElement
  <2>3. Measuring(iter[t])'
    BY <1>1, <1>3, <2>2 DEF Measuring
  <2> QED
    BY <1>1, <1>3, <2>3 DEF Round
<1> QED
  BY <1>5, <1>6, <1>7, <1>8, <1>9 DEF IInv

\* The last thread to come closes an iteration that all have completed.
LEMMA EndIterationKeeps == \A t \in Workspaces : IInv /\ EndIteration(t) => IInv'
<1> SUFFICES ASSUME NEW t \in Workspaces, IInv, EndIteration(t) PROVE IInv'
  OBVIOUS
<1>1. /\ Go(t, "completed", "end") /\ Barrier!Arrive(t)
      /\ UNCHANGED <<dispatcher_ws_id_, iter, active_ws_id_, end_signal_, completed_ws_num_,
                     ws_queues_, expired, stalled, stats_init_ws_, reports>>
  BY DEF EndIteration, contextVars
<1>2. /\ pc[t] = "completed" /\ pc'[t] = "end" /\ pc' \in [Workspaces -> Stages]
      /\ \A u \in Workspaces : u # t => pc'[u] = pc[u]
  <2>1. "end" \in Stages
    BY DEF Stages
  <2> QED
    BY <1>1, <2>1, Going DEF IInv
<1>3. /\ iter[t] \in 1 .. Iterations /\ iter[t] \in Nat
      /\ generation = 2 * iter[t] + 1 /\ Measuring(iter[t])
  BY <1>2, InIterationFacts
<1>4. /\ Arrivals(t)' = Arrivals(t) + 1
      /\ \A u \in Workspaces : u # t => Arrivals(u)' = Arrivals(u)
  BY <1>1, <1>2, <1>3 DEF Arrivals
<1>5. /\ InStep'
      /\ count' \in Nat /\ count' < N /\ gen' \in [Workspaces -> Nat] /\ generation' \in Nat
      /\ \/ generation' = generation
         \/ /\ generation' = generation + 1
            /\ \A u \in Workspaces : Arrivals(u)' = generation' /\ pc'[u] \in Waiting
            /\ \A u \in Workspaces : u # t => pc[u] \in Waiting
  BY <1>1, <1>2, <1>4, Arriving DEF IInv, Waiting
<1>6. Types'
  BY <1>1, <1>2, <1>5 DEF IInv, Types
<1>7. Places'
  BY <1>1, <1>2 DEF IInv, Places, Constructing
<1>8. OneAggregator'
  BY <1>1, <1>2 DEF IInv, OneAggregator
<1>9. Round'
  <2>1. CASE generation' = generation
    <3>1. Done' = Done
      BY <1>2 DEF Done
    <3> QED
      BY <1>1, <2>1, <3>1 DEF IInv, Round, Before, Measuring, Reporting
  <2>2. CASE generation' # generation
    <3>1. /\ generation' = 2 * iter[t] + 2
          /\ \A u \in Workspaces : Arrivals(u)' = 2 * iter[t] + 2 /\ pc'[u] \in Waiting
      BY <1>3, <1>5, <2>2
    <3>2. \A u \in Workspaces : pc[u] \in {"completed", "end"}
      <4> TAKE u \in Workspaces
      <4>1. CASE u = t
        BY <1>2, <4>1
      <4>2. CASE u # t
        <5>1. Arrivals(u) = 2 * iter[t] + 2 /\ pc[u] \in Waiting
          BY <1>2, <1>4, <3>1, <4>2
        <5>2. iter[u] \in Nat /\ (pc[u] = "ready" => iter[u] = 0)
          BY Numbers DEF IInv, Places, Constructing
        <5>3. pc[u] # "registered" /\ pc[u] # "start" /\ pc[u] # "ready"
          BY <1>3, <5>1, <5>2 DEF Arrivals
        <5> QED
          BY <5>1, <5>3 DEF Waiting
      <4> QED
        BY <4>1, <4>2
    <3>3. Done = Workspaces
      BY <3>2 DEF Done
    <3>4. end_signal_
      BY <1>2 DEF IInv, OneAggregator
    <3>5. Reporting(iter[t])'
      BY <1>1, <1>3, <3>1, <3>3, <3>4 DEF Measuring, Reporting, N
    <3> QED
      BY <1>1, <1>3, <3>5 DEF Round
  <2> QED
    BY <2>1, <2>2
<1> QED
  BY <1>5, <1>6, <1>7, <1>8, <1>9 DEF IInv

\* Only the one that aggregated clears the context, when nobody is in an iteration.
LEMMA ReportKeeps == \A t \in Workspaces : IInv /\ Report(t) => IInv'
<1> SUFFICES ASSUME NEW t \in Workspaces, IInv, Report(t) PROVE IInv'
  OBVIOUS
<1>1. /\ Go(t, "report", AfterReport(t))
      /\ stats_init_ws_[t] => /\ reports' = reports + 1
                              /\ end_signal_' = FALSE /\ completed_ws_num_' = 0
                              /\ stats_init_ws_' = [stats_init_ws_ EXCEPT ![t] = FALSE]
      /\ ~stats_init_ws_[t] =>
           UNCHANGED <<reports, end_signal_, completed_ws_num_, stats_init_ws_>>
      /\ UNCHANGED <<dispatcher_ws_id_, iter, active_ws_id_, ws_queues_, expired, stalled,
                     count, generation, gen>>
  BY DEF Report, barrierVars
<1>2. /\ pc[t] = "report" /\ pc'[t] = AfterReport(t) /\ pc' \in [Workspaces -> Stages]
      /\ \A u \in Workspaces : u # t => pc'[u] = pc[u]
      /\ AfterReport(t) \in {"init", "exited"}
  <2>1. AfterReport(t) \in Stages /\ AfterReport(t) \in {"init", "exited"}
    BY DEF AfterReport, Stages
  <2> QED
    BY <1>1, <2>1, Going DEF IInv
<1>3. /\ iter[t] \in 1 .. Iterations /\ iter[t] \in Nat \ {0}
      /\ pc'[t] = "init" => iter[t] < Iterations
      /\ pc'[t] = "exited" => iter[t] = Iterations
  <2>1. iter[t] \in 1 .. Iterations /\ iter[t] \in Nat \ {0}
    BY <1>2, Numbers DEF IInv, Places, Constructing
  <2>2. /\ pc'[t] = "init" => iter[t] # Iterations
        /\ pc'[t] = "exited" => iter[t] = Iterations
    BY <1>2 DEF AfterReport
  <2>3. Iterations \in Nat
    BY Numbers
  <2> QED
    BY <2>1, <2>2, <2>3
<1>4. generation = 2 * iter[t] + 2 /\ Reporting(iter[t])
  <2>1. generation = 2 * iter[t] + 2
    BY <1>2 DEF IInv, InStep, Waiting, Arrivals
  <2> QED
    BY <1>3, <2>1, WhichRound
<1>5. /\ stats_init_ws_' \in [Workspaces -> BOOLEAN] /\ end_signal_' \in BOOLEAN
      /\ stats_init_ws_ \in [Workspaces -> BOOLEAN]
  BY <1>1 DEF IInv, Types
<1>6. Types'
  BY <1>1, <1>2, <1>5 DEF IInv, Types
<1>7. Places'
  BY <1>1, <1>2, <1>3 DEF IInv, Places, Constructing
<1>8. InStep'
  <2>1. \A u \in Workspaces : Arrivals(u)' = Arrivals(u)
    BY <1>1, <1>2 DEF Arrivals
  <2>2. \A u \in Workspaces : (pc'[u] \in Waiting) <=> (pc[u] \in Waiting)
    BY <1>2 DEF Waiting
  <2> QED
    BY <1>1, <2>1, <2>2, Staying DEF IInv
<1>9. \A u \in Workspaces : pc'[u] # "completed"
  <2> SUFFICES ASSUME NEW u \in Workspaces, pc[u] = "completed" PROVE FALSE
    BY <1>2
  <2>1. generation = 2 * iter[u] + 1 /\ iter[u] \in Nat
    BY InIterationFacts
  <2> QED
    BY <1>3, <1>4, <2>1
<1>10. OneAggregator'
  <2>1. /\ \A u \in Workspaces :
             stats_init_ws_[u] => end_signal_ /\ pc[u] \in {"completed", "end", "report"}
        /\ \A u, v \in Workspaces : stats_init_ws_[u] /\ stats_init_ws_[v] => u = v
        /\ end_signal_ => \E u \in Workspaces : stats_init_ws_[u]
    BY DEF IInv, OneAggregator
  <2>2. CASE stats_init_ws_[t]
    <3>1. \A u \in Workspaces : ~stats_init_ws_'[u]
      BY <1>1, <1>5, <2>1, <2>2
    <3> QED
      BY <1>1, <1>9, <2>2, <3>1 DEF OneAggregator
  <2>3. CASE ~stats_init_ws_[t]
    <3>1. \A u \in Workspaces : stats_init_ws_[u] => pc'[u] \in {"completed", "end", "report"}
      BY <1>2, <2>1, <2>3
    <3> QED
      BY <1>1, <1>9, <2>1, <2>3, <3>1 DEF OneAggregator
  <2> QED
    BY <2>2, <2>3
<1>11. Round'
  <2>1. CASE stats_init_ws_[t]
    <3>1. end_signal_
      BY <2>1 DEF IInv, OneAggregator
    <3>2. Reporting(iter[t])'
      BY <1>1, <1>3, <1>4, <2>1, <3>1 DEF Reporting
    <3> QED
      BY <1>1, <1>3, <3>2 DEF Round
  <2>2. CASE ~stats_init_ws_[t]
    <3>1. Reporting(iter[t])'
      BY <1>1, <1>4, <2>2 DEF Reporting
    <3> QED
      BY <1>1, <1>3, <3>1 DEF Round
  <2> QED
    BY <2>1, <2>2
<1> QED
  BY <1>6, <1>7, <1>8, <1>10, <1>11 DEF IInv

\* Every step, where every dispatcher has a worker.
LEMMA StepIInv == ConfigComplete /\ IInv /\ [Next]_vars => IInv'
<1> SUFFICES ASSUME ConfigComplete, IInv, [Next]_vars PROVE IInv'
  OBVIOUS
<1>1. ASSUME NEW t \in Workspaces, ThreadStep(t) PROVE IInv'
  <2>1. IInv /\ (PassRegistered(t) \/ PassReady(t) \/ PassEnd(t)) => IInv'
    BY Passing DEF PassRegistered, PassReady, PassEnd, IInv, Types
  <2>2. IInv /\ PassStart(t) => IInv'
    <3> SUFFICES ASSUME PassStart(t) PROVE IInv'
      OBVIOUS
    <3>1. Pass(t, "start", "run") /\ UNCHANGED iter /\ expired' \in [Workspaces -> BOOLEAN]
      BY DEF PassStart, IInv, Types
    <3> QED
      BY <3>1, Passing
  <2> QED
    BY <1>1, <2>1, <2>2, RegisterKeeps, ConfigureKeeps, BeginIterationKeeps,
       UpdateStatsKeeps, EndIterationKeeps, ReportKeeps DEF ThreadStep
<1>2. ASSUME NEW t \in Workspaces, Expire(t) PROVE IInv'
  BY <1>2, InsideKeeps DEF Expire, contextVars, barrierVars, IInv, Types
<1>3. ASSUME NEW w \in Workers, Stall(w) PROVE IInv'
  BY <1>3, InsideKeeps DEF Stall, contextVars, barrierVars, IInv, Types
<1>4. ASSUME NEW d \in Dispatchers, Serve(d) PROVE IInv'
  <2>1. stalled' \in [Workers -> BOOLEAN]
    BY <1>4 DEF Serve
  <2> QED
    BY <1>4, <2>1, InsideKeeps DEF Serve, contextVars, barrierVars, IInv, Types
<1>5. CASE UNCHANGED vars
  BY <1>5, InsideKeeps DEF vars, contextVars, barrierVars, IInv, Types
<1> QED
  BY <1>1, <1>2, <1>3, <1>4, <1>5 DEF Next

\* The configuration is never changed.
LEMMA ConfigStays == [Next]_vars => (ConfigComplete' <=> ConfigComplete)
<1>1. [Next]_vars => UNCHANGED dispatcher_ws_id_
  BY DEF Next, ThreadStep, Register, PassRegistered, Configure, PassReady, BeginIteration,
         PassStart, UpdateStats, EndIteration, PassEnd, Report, Expire, Stall, Serve, Pass, vars
<1> QED
  BY <1>1 DEF ConfigComplete, WorkersOf

\* The invariant holds for ever where every dispatcher has a worker.
LEMMA Invariance == Spec => [](ConfigComplete => IInv)
<1>1. Init => (ConfigComplete => IInv)
  BY InitIInv
<1>2. (ConfigComplete => IInv) /\ [Next]_vars => (ConfigComplete => IInv)'
  BY StepIInv, ConfigStays
<1> QED
  BY <1>1, <1>2, PTL DEF Spec

-----------------------------------------------------------------------------
(* The theorems *)

\* What Round says about the counters bounds them.
LEMMA ITypeOK == IInv => TypeOK
<1> SUFFICES ASSUME IInv PROVE TypeOK
  OBVIOUS
<1>1. Iterations \in Nat \ {0} /\ N \in Nat \ {0} /\ IsFiniteSet(Workspaces)
  BY WorkspaceAssumption, WorkspacesCounted
<1>2. count \in 0 .. Cardinality(Workspaces) - 1
  BY <1>1 DEF IInv, Types, N
<1>3. reports \in 0 .. Iterations /\ completed_ws_num_ \in 0 .. N
  <2>1. CASE Before
    BY <1>1, <2>1 DEF Before
  <2>2. ASSUME NEW i \in 1 .. Iterations, Measuring(i)
        PROVE  reports \in 0 .. Iterations /\ completed_ws_num_ \in 0 .. N
    <3>1. Done \in SUBSET Workspaces
      BY DEF Done
    <3>2. IsFiniteSet(Done) /\ Cardinality(Done) <= N
      BY <1>1, <3>1, FS_Subset DEF N
    <3>3. Cardinality(Done) \in Nat
      BY <3>2, FS_CardinalityType
    <3> QED
      BY <1>1, <2>2, <3>2, <3>3 DEF Measuring
  <2>3. ASSUME NEW i \in 1 .. Iterations, Reporting(i)
        PROVE  reports \in 0 .. Iterations /\ completed_ws_num_ \in 0 .. N
    BY <1>1, <2>3 DEF Reporting
  <2> QED
    BY <2>1, <2>2, <2>3 DEF IInv, Round
<1> QED
  BY <1>2, <1>3 DEF IInv, Types, TypeOK, N

\* Counters of the context and of the barrier stay in their ranges: nobody is
\* counted as completed twice, for any number of workspaces and iterations.
THEOREM TypeCorrect == Spec => [](ConfigComplete => TypeOK)
<1>1. (ConfigComplete => IInv) => (ConfigComplete => TypeOK)
  BY ITypeOK
<1> QED
  BY <1>1, Invariance, PTL

\* Parity tells the two halves of an iteration apart.
LEMMA ILoopsInStep == IInv => LoopsInStep
<1> SUFFICES ASSUME IInv, NEW t \in Workspaces, NEW u \in Workspaces,
                    pc[t] \in {"run", "completed"}
             PROVE  pc[u] \in InIteration /\ iter[u] = iter[t]
  BY DEF LoopsInStep
<1>1. iter[t] \in Nat \ {0} /\ generation = 2 * iter[t] + 1
  BY InIterationFacts
<1>2. /\ pc[u] \in Stages /\ iter[u] \in Nat
      /\ pc[u] = "ready" => iter[u] = 0
  BY Numbers DEF IInv, Types, Places, Constructing
<1>3. Arrivals(u) \in {2 * iter[t] + 1, 2 * iter[t] + 2}
      /\ (pc[u] \notin Waiting => Arrivals(u) = 2 * iter[t] + 1)
  <2>1. generation + 1 = 2 * iter[t] + 2
    BY <1>1
  <2> QED
    BY <1>1, <2>1 DEF IInv, InStep
<1>4. pc[u] # "construct" /\ pc[u] # "registered" /\ pc[u] # "configure" /\ pc[u] # "ready"
  BY <1>1, <1>2, <1>3 DEF Arrivals
<1>5. pc[u] \notin {"init", "report", "exited"}
  <2> SUFFICES ASSUME pc[u] \in {"init", "report", "exited"} PROVE FALSE
    OBVIOUS
  <2>1. Arrivals(u) = 2 * iter[u] + 2 /\ Arrivals(u) = 2 * iter[t] + 1
    BY <1>3 DEF Arrivals, Waiting
  <2> QED
    BY <1>1, <1>2, <2>1
<1>6. pc[u] \in InIteration
  BY <1>2, <1>4, <1>5 DEF Stages, InIteration
<1>7. iter[u] = iter[t]
  <2>1. \A k \in Nat, l \in Nat :
          /\ 2 * k + 1 \in {2 * l + 1, 2 * l + 2} => k = l
          /\ 2 * k + 2 \in {2 * l + 1, 2 * l + 2} => k = l
    OBVIOUS
  <2>2. Arrivals(u) = 2 * iter[u] + 2 \/ Arrivals(u) = 2 * iter[u] + 1
    BY <1>6 DEF Arrivals, InIteration
  <2>3. iter[t] \in Nat /\ iter[u] \in Nat
    BY <1>1, <1>2
  <2>4. \/ 2 * iter[u] + 2 \in {2 * iter[t] + 1, 2 * iter[t] + 2}
        \/ 2 * iter[u] + 1 \in {2 * iter[t] + 1, 2 * iter[t] + 2}
    BY <1>3, <2>2
  <2> QED
    BY <2>1, <2>3, <2>4
<1> QED
  BY <1>6, <1>7

\* While one workspace measures, no other is in another iteration: the barrier
\* keeps any number of threads in step (barrier.h, workspace.cc:299-345).
THEOREM AlwaysInStep == Spec => []LoopsInStep
<1>1. (ConfigComplete => IInv) => LoopsInStep
  BY ILoopsInStep DEF LoopsInStep
<1> QED
  BY <1>1, Invariance, PTL

\* What Round says about reports, by the place of the threads.
LEMMA IOneReportEach == IInv => OneReportEach
<1> SUFFICES ASSUME IInv, NEW t \in Workspaces
             PROVE  /\ pc[t] \in {"run", "completed"} => reports = iter[t] - 1
                    /\ (\A u \in Workspaces : pc[u] = "exited") => reports = Iterations
  BY DEF OneReportEach
<1>1. ASSUME pc[t] \in {"run", "completed"} PROVE reports = iter[t] - 1
  BY <1>1, InIterationFacts DEF Measuring
<1>2. ASSUME \A u \in Workspaces : pc[u] = "exited" PROVE reports = Iterations
  <2>1. ~end_signal_
    BY <1>2 DEF IInv, OneAggregator
  <2>2. iter[t] = Iterations /\ iter[t] \in Nat \ {0}
    BY <1>2, WorkspaceAssumption DEF IInv, Places
  <2>3. generation = 2 * iter[t] + 2
    BY <1>2 DEF IInv, InStep, Waiting, Arrivals
  <2>4. Reporting(iter[t])
    BY <2>2, <2>3, WhichRound
  <2> QED
    BY <2>1, <2>2, <2>4 DEF Reporting
<1> QED
  BY <1>1, <1>2

\* Each iteration is reported once, by the workspace that completed it first, and
\* all of them have been when the threads return.
THEOREM OneReportEachAlways == Spec => []OneReportEach
<1>1. (ConfigComplete => IInv) => OneReportEach
  BY IOneReportEach DEF OneReportEach
<1> QED
  BY <1>1, Invariance, PTL

==================================================================================
