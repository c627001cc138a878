------------------------------ MODULE BudgetProofs ------------------------------
(***************************************************************************)
(* Where the in-flight budgets are: theorems of InflyPipeline, and after    *)
(* them of Routing.                                                         *)
(*                                                                          *)
(* One workspace per side, for every choice of batch sizes, budget, queue   *)
(* and ring sizes that the constructors accept: the messages, the receive   *)
(* buffers and the send work requests are conserved.  From these sums, and  *)
(* from no more than Budget responses ever waiting to be reaped, follow the *)
(* statements a user sees: nothing is dropped, tx_flush does not spin, and  *)
(* - when the sizes satisfy SizesSuffice - the two sides never stop for     *)
(* ever.                                                                    *)
(*                                                                          *)
(* Any number of workers and routes: the sum over all workers of a workload *)
(* is conserved.  A step changes the amounts of one worker, server worker   *)
(* or dispatcher, so each sum by as much (SumExcept), those of the workload *)
(* the routes lead to.                                                      *)
(***************************************************************************)
EXTENDS InflyPipeline, Routing, FiniteSetTheorems, SequenceTheorems, WellFoundedInduction, TLAPS

\* The counters are natural numbers; their bounds follow from the sums.
Counters ==
  /\ budget \in Nat
  /\ infly_flag_ \in BOOLEAN
  /\ wsTx \in [Side -> 0 .. QueueCap]
  /\ txRing \in [Side -> 0 .. TxRingSize]
  /\ flushing \in [Side -> BOOLEAN]
  /\ free_send_wr_num_ \in [Side -> Nat]
  /\ wire \in [Side -> Nat]
  /\ sendCq \in [Side -> Nat]
  /\ posted \in [Side -> Nat]
  /\ recvCq \in [Side -> Nat]
  /\ waiting \in [Side -> Nat]
  /\ wsRx \in [Side -> 0 .. QueueCap]
  /\ freed \in [Side -> Nat]
  /\ lost \in Nat

\* A dispatcher reaps all completions before it posts, so what it has posted
\* and not reaped was on its way at one moment and fits the budget.
UnreapedBounded == \A s \in Side : wire[s] + sendCq[s] <= Budget

PipeInv ==
  /\ Counters
  /\ MessagesConserved
  /\ RxBuffersConserved
  /\ SendRequestsConserved
  /\ UnreapedBounded

\* The assumptions on single sizes, without the quantifiers.
LEMMA Sizes ==
  /\ Budget \in Nat /\ QueueCap \in Nat /\ AppTxBatch \in Nat
  /\ TxRingSize \in Nat /\ RxRingSize \in Nat
  /\ \A s \in Side : DispRxBatch[s] \in Nat
BY BudgetAssumption, BatchAssumption, SizeAssumption

LEMMA InvariantInit == Init => PipeInv
<1> SUFFICES ASSUME Init PROVE PipeInv
  OBVIOUS
<1>1. Counters
  <2>1. Zero \in [Side -> Nat] /\ Zero \in [Side -> 0 .. QueueCap] /\ Zero \in [Side -> 0 .. TxRingSize]
    BY Sizes DEF Zero
  <2>2. QED
    BY <2>1, Sizes DEF Init, Counters
<1>2. MessagesConserved
  BY Sizes DEF Init, Zero, MessagesConserved, Travelling, InHand, Side
<1>3. RxBuffersConserved
  BY Sizes DEF Init, Zero, RxBuffersConserved, RxBuffers, Side
<1>4. SendRequestsConserved
  BY Sizes DEF Init, Zero, SendRequestsConserved
<1>5. UnreapedBounded
  BY Sizes DEF Init, Zero, UnreapedBounded
<1>6. QED
  BY <1>1, <1>2, <1>3, <1>4, <1>5 DEF PipeInv

LEMMA ApplyMbufsStep == PipeInv /\ ApplyMbufs => PipeInv'
BY Sizes
   DEF ApplyMbufs, PipeInv, Counters, MessagesConserved, RxBuffersConserved,
       SendRequestsConserved, UnreapedBounded, Travelling, InHand, RxBuffers, Side

LEMMA GeneratePktsStep == PipeInv /\ GeneratePkts => PipeInv'
<1> SUFFICES ASSUME PipeInv, GeneratePkts PROVE PipeInv'
  OBVIOUS
<1> DEFINE n == Lesser(AppTxBatch, QueueCap - wsTx["client"])
<1>1. n \in Nat /\ n <= AppTxBatch /\ n <= QueueCap - wsTx["client"]
  BY Sizes DEF PipeInv, Counters, Lesser, Side
<1>2. /\ wsTx' = [wsTx EXCEPT !["client"] = @ + n]
      /\ lost' = lost + (AppTxBatch - n)
  BY DEF GeneratePkts
<1> HIDE DEF n
<1> USE <1>1, <1>2, Sizes DEF GeneratePkts, PipeInv, Counters, Side
<1>3. Counters'
  <2>1. wsTx' \in [Side -> 0 .. QueueCap]
    OBVIOUS
  <2>2. lost' \in Nat
    OBVIOUS
  <2>3. infly_flag_' \in BOOLEAN
    OBVIOUS
  <2>4. QED
    BY <2>1, <2>2, <2>3
<1>4. MessagesConserved'
  BY DEF MessagesConserved, Travelling, InHand
<1>5. RxBuffersConserved'
  BY DEF RxBuffersConserved, RxBuffers
<1>6. SendRequestsConserved' /\ UnreapedBounded'
  BY DEF SendRequestsConserved, UnreapedBounded
<1>7. QED
  BY <1>3, <1>4, <1>5, <1>6

LEMMA ClientHandlerStep == PipeInv /\ ClientHandler => PipeInv'
BY Sizes
   DEF ClientHandler, PipeInv, Counters, MessagesConserved, RxBuffersConserved,
       SendRequestsConserved, UnreapedBounded, Travelling, InHand, RxBuffers, Side

LEMMA ServerHandlerStep == PipeInv /\ ServerHandler => PipeInv'
BY Sizes
   DEF ServerHandler, Lesser, PipeInv, Counters, MessagesConserved, RxBuffersConserved,
       SendRequestsConserved, UnreapedBounded, Travelling, InHand, RxBuffers, Side

LEMMA CollectTxStep == ASSUME NEW s \in Side PROVE PipeInv /\ CollectTx(s) => PipeInv'
BY Sizes
   DEF CollectTx, Lesser, PipeInv, Counters, MessagesConserved, RxBuffersConserved,
       SendRequestsConserved, UnreapedBounded, Travelling, InHand, RxBuffers, Side

LEMMA NicTxStep == ASSUME NEW s \in Side PROVE PipeInv /\ NicTx(s) => PipeInv'
BY Sizes
   DEF NicTx, Lesser, PipeInv, Counters, MessagesConserved, RxBuffersConserved,
       SendRequestsConserved, UnreapedBounded, Travelling, InHand, RxBuffers, Side

LEMMA NicRxStep == ASSUME NEW s \in Side PROVE PipeInv /\ NicRx(s) => PipeInv'
BY Sizes
   DEF NicRx, Repostable, Lesser, PipeInv, Counters, MessagesConserved, RxBuffersConserved,
       SendRequestsConserved, UnreapedBounded, Travelling, InHand, RxBuffers, Side

LEMMA DispatchRxStep == ASSUME NEW s \in Side PROVE PipeInv /\ DispatchRx(s) => PipeInv'
BY Sizes
   DEF DispatchRx, Lesser, PipeInv, Counters, MessagesConserved, RxBuffersConserved,
       SendRequestsConserved, UnreapedBounded, Travelling, InHand, RxBuffers, Side

LEMMA DeliverStep == ASSUME NEW s \in Side PROVE PipeInv /\ Deliver(s) => PipeInv'
<1> SUFFICES ASSUME PipeInv, Deliver(s) PROVE PipeInv'
  OBVIOUS
<1> USE DEF Deliver, Peer, PipeInv, Counters, Side
<1>1. Counters'
  OBVIOUS
<1>2. MessagesConserved'
  <2>1. /\ wire'["client"] + recvCq'["server"] = wire["client"] + recvCq["server"]
        /\ wire'["server"] + recvCq'["client"] = wire["server"] + recvCq["client"]
    OBVIOUS
  <2>2. /\ budget' = budget /\ InHand' = InHand /\ lost' = lost
        /\ \A t \in Side : /\ wsTx'[t] = wsTx[t] /\ txRing'[t] = txRing[t]
                           /\ waiting'[t] = waiting[t] /\ wsRx'[t] = wsRx[t]
    BY DEF InHand
  <2>3. Travelling("client")' + Travelling("server")' = Travelling("client") + Travelling("server")
    BY <1>1, <2>1, <2>2 DEF Travelling
  <2>4. \A t \in Side : Travelling(t) \in Int /\ Travelling(t)' \in Int
    BY <1>1 DEF Travelling
  <2>5. InHand \in Int
    BY Sizes DEF InHand
  <2>6. QED
    BY <2>2, <2>3, <2>4, <2>5 DEF MessagesConserved
<1>3. RxBuffersConserved'
  BY DEF RxBuffersConserved, RxBuffers
<1>4. SendRequestsConserved' /\ UnreapedBounded'
  BY Sizes DEF SendRequestsConserved, UnreapedBounded
<1>5. QED
  BY <1>1, <1>2, <1>3, <1>4

LEMMA InvariantStep == PipeInv /\ [Next]_vars => PipeInv'
<1> SUFFICES ASSUME PipeInv, [Next]_vars PROVE PipeInv'
  OBVIOUS
<1>1. CASE UNCHANGED vars
  BY <1>1 DEF vars, PipeInv, Counters, MessagesConserved, RxBuffersConserved,
              SendRequestsConserved, UnreapedBounded, Travelling, InHand, RxBuffers
<1>2. CASE Next
  BY <1>2, ApplyMbufsStep, GeneratePktsStep, ClientHandlerStep, ServerHandlerStep,
     CollectTxStep, NicTxStep, NicRxStep, DispatchRxStep, DeliverStep DEF Next
<1>3. QED
  BY <1>1, <1>2

LEMMA Invariant == Spec => []PipeInv
BY InvariantInit, InvariantStep, PTL DEF Spec

-----------------------------------------------------------------------------
(* What follows from the sums *)

\* Each counter stays within the ring or queue it counts, whatever the sizes.
THEOREM TypeCorrect == Spec => []TypeOK
<1>1. ASSUME PipeInv PROVE TypeOK
  <2> USE <1>1, Sizes DEF PipeInv, Counters
  <2>1. ASSUME NEW s \in Side
        PROVE  /\ free_send_wr_num_[s] \in 0 .. TxRingSize
               /\ wire[s] \in 0 .. TxRingSize
               /\ sendCq[s] \in 0 .. TxRingSize
    BY DEF SendRequestsConserved
  <2>2. ASSUME NEW s \in Side
        PROVE  /\ posted[s] \in 0 .. RxRingSize
               /\ recvCq[s] \in 0 .. RxRingSize
               /\ waiting[s] \in 0 .. RxRingSize
               /\ freed[s] \in 0 .. RxRingSize
    BY DEF RxBuffersConserved, RxBuffers
  <2>3. QED
    BY <2>1, <2>2 DEF TypeOK
<1>2. QED
  BY <1>1, Invariant, PTL

\* In-flight budget is conserved on every path of a request and its response.
THEOREM MessageConservation == Spec => []MessagesConserved
<1>1. PipeInv => MessagesConserved
  BY DEF PipeInv
<1>2. QED
  BY <1>1, Invariant, PTL

\* Receive buffers are conserved, including those that carry a response.
THEOREM RxBufferConservation == Spec => []RxBuffersConserved
<1>1. PipeInv => RxBuffersConserved
  BY DEF PipeInv
<1>2. QED
  BY <1>1, Invariant, PTL

\* free_send_wr_num_ is exact.
THEOREM SendRequestConservation == Spec => []SendRequestsConserved
<1>1. PipeInv => SendRequestsConserved
  BY DEF PipeInv
<1>2. QED
  BY <1>1, Invariant, PTL

\* A counter of the loop never exceeds the budget that is out.
LEMMA TravellingBounded ==
  ASSUME PipeInv, NEW s \in Side
  PROVE  /\ Travelling(s) + InHand <= Budget
         /\ wsTx[s] + InHand <= Budget
         /\ wsTx[s] + wsRx[s] + waiting[s] <= Budget
         /\ wire[s] + txRing[s] <= Budget
<1> USE Sizes DEF PipeInv, Counters
<1>1. InHand \in Nat
  BY DEF InHand
<1>2. \A t \in Side : Travelling(t) \in Nat
  BY DEF Travelling
<1>3. Travelling(s) + InHand <= Budget
  BY <1>1, <1>2 DEF MessagesConserved, Side
<1>4. QED
  BY <1>1, <1>3 DEF Travelling

\* When a workspace queue holds the budget, no enqueue of the loop is refused:
\* generate_pkts, msg_handler_server and dispatch_rx_pkts never drop.
THEOREM LossFreedom == Spec => []NothingLost
<1>1. Init => NothingLost
  BY DEF Init, NothingLost
<1>2. PipeInv /\ NothingLost /\ [Next]_vars => NothingLost'
  <2> SUFFICES ASSUME PipeInv, lost = 0, Budget <= QueueCap, [Next]_vars
               PROVE  lost' = 0
    BY DEF NothingLost
  <2> USE Sizes DEF PipeInv, Counters
  <2>1. CASE GeneratePkts
    <3>1. InHand = AppTxBatch
      BY <2>1 DEF GeneratePkts, InHand
    <3>2. AppTxBatch <= QueueCap - wsTx["client"]
      BY <3>1, TravellingBounded DEF Side
    <3>3. QED
      BY <2>1, <3>2 DEF GeneratePkts, Lesser
  <2>2. CASE ServerHandler
    <3>1. wsRx["server"] <= QueueCap - wsTx["server"]
      <4>1. InHand \in Nat
        BY DEF InHand
      <4>2. QED
        BY <4>1, TravellingBounded DEF Side
    <3>2. QED
      BY <2>2, <3>1 DEF ServerHandler, Lesser, Side
  <2>3. ASSUME NEW s \in Side, DispatchRx(s) PROVE lost' = 0
    <3>1. waiting[s] <= QueueCap - wsRx[s]
      BY TravellingBounded
    <3>2. QED
      BY <2>3, <3>1 DEF DispatchRx, Lesser
  <2>4. CASE ApplyMbufs
    BY <2>4 DEF ApplyMbufs
  <2>5. CASE ClientHandler
    BY <2>5 DEF ClientHandler
  <2>6. ASSUME NEW s \in Side, CollectTx(s) \/ NicTx(s) \/ NicRx(s) \/ Deliver(s)
        PROVE  lost' = 0
    BY <2>6 DEF CollectTx, NicTx, NicRx, Deliver
  <2>7. CASE UNCHANGED vars
    BY <2>7 DEF vars
  <2>8. QED
    BY <2>1, <2>2, <2>3, <2>4, <2>5, <2>6, <2>7 DEF Next
<1>3. QED
  BY <1>1, <1>2, Invariant, PTL DEF Spec

\* When the send queue holds the budget, tx_flush posts all it has at once: it
\* never spins for completions while the other phases of its thread wait.
THEOREM FlushNeverSpins == Spec => []FlushInOneBurst
<1>1. Init => FlushInOneBurst
  BY DEF Init, FlushInOneBurst
<1>2. PipeInv /\ FlushInOneBurst /\ [Next]_vars => FlushInOneBurst'
  <2> SUFFICES ASSUME PipeInv, Budget <= TxRingSize, \A t \in Side : ~flushing[t],
                      [Next]_vars, NEW t \in Side
               PROVE  ~flushing'[t]
    BY DEF FlushInOneBurst
  <2> USE Sizes DEF PipeInv, Counters
  <2>1. ASSUME NEW s \in Side, NicTx(s) PROVE ~flushing'[t]
    <3>1. txRing[s] <= free_send_wr_num_[s] + sendCq[s]
      BY TravellingBounded DEF SendRequestsConserved
    <3>2. flushing' = [flushing EXCEPT ![s] = txRing[s] < txRing[s]]
      BY <2>1, <3>1 DEF NicTx, Lesser
    <3>3. QED
      BY <3>2
  <2>2. CASE ApplyMbufs \/ GeneratePkts \/ ClientHandler \/ ServerHandler
    BY <2>2 DEF ApplyMbufs, GeneratePkts, ClientHandler, ServerHandler
  <2>3. ASSUME NEW s \in Side, CollectTx(s) \/ NicRx(s) \/ DispatchRx(s) \/ Deliver(s)
        PROVE  ~flushing'[t]
    BY <2>3 DEF CollectTx, NicRx, DispatchRx, Deliver
  <2>4. CASE UNCHANGED vars
    BY <2>4 DEF vars
  <2>5. QED
    BY <2>1, <2>2, <2>3, <2>4 DEF Next
<1>3. QED
  BY <1>1, <1>2, Invariant, PTL DEF Spec

\* In a stalled state every packet rests below a threshold.
LEMMA StalledResidue ==
  ASSUME SizesSuffice, PipeInv, NothingLost, FlushInOneBurst
  PROVE  ~Stalled
<1> SUFFICES ASSUME Stalled PROVE FALSE
  OBVIOUS
<1> USE Sizes DEF PipeInv, Counters
<1>1. /\ DispTxBatch \in [Side -> Nat] /\ AppRxBatch \in [Side -> Nat]
      /\ "client" \in Side /\ "server" \in Side
  BY BudgetAssumption, BatchAssumption DEF Side
<1>2. ASSUME NEW s \in Side
      PROVE  /\ ~flushing[s]
             /\ txRing[s] <= DispTxBatch[s] - 1
             /\ wsRx[s] <= AppRxBatch[s] - 1
             /\ wsTx[s] = 0 /\ recvCq[s] = 0 /\ waiting[s] = 0 /\ freed[s] = 0
  <2>1. ~flushing[s]
    BY DEF FlushInOneBurst, SizesSuffice
  <2>2. txRing[s] < DispTxBatch[s] /\ recvCq[s] = 0 /\ waiting[s] = 0 /\ freed[s] = 0
    BY <2>1 DEF Stalled, DispatcherIdle
  <2>3. txRing[s] # TxRingSize
    BY <1>1, <2>2, BudgetAssumption, SizeAssumption
  <2>4. wsTx[s] = 0
    BY <2>1, <2>3 DEF Stalled, DispatcherIdle
  <2>5. wsRx[s] < AppRxBatch[s]
    BY DEF Stalled
  <2>6. QED
    BY <1>1, <2>1, <2>2, <2>4, <2>5
<1>3. wire["server"] = 0
  <2>1. posted["client"] # 0
    <3> HIDE DEF PipeInv, Counters
    <3>1. posted["client"] + wsRx["client"] = RxRingSize
      <4>1. RxBuffers("client") = RxRingSize
        BY <1>1 DEF PipeInv, RxBuffersConserved
      <4>2. RxBuffers("client") = posted["client"] + recvCq["client"] + waiting["client"]
                                  + wsRx["client"] + freed["client"] + 0
        BY DEF RxBuffers
      <4>3. recvCq["client"] = 0 /\ waiting["client"] = 0 /\ freed["client"] = 0
        BY <1>1, <1>2
      <4>4. posted["client"] \in Nat /\ wsRx["client"] \in Nat
        BY <1>1 DEF PipeInv, Counters
      <4>5. QED
        BY <4>1, <4>2, <4>3, <4>4
    <3>2. QED
      BY <1>1, <1>2, <3>1, Sizes DEF SizesSuffice, PipeInv, Counters
  <2>2. QED
    BY <1>1, <2>1 DEF Stalled, Peer
<1>4. wire["client"] = 0
  <2>1. posted["server"] # 0
    <3> HIDE DEF PipeInv, Counters
    <3>1. posted["server"] + wsRx["server"] + txRing["server"] + (wire["server"] + sendCq["server"]) = RxRingSize
      <4>1. RxBuffers("server") = RxRingSize
        BY <1>1 DEF PipeInv, RxBuffersConserved
      <4>2. RxBuffers("server") = posted["server"] + recvCq["server"] + waiting["server"]
                                  + wsRx["server"] + freed["server"]
                                  + (wsTx["server"] + txRing["server"] + wire["server"] + sendCq["server"])
        BY DEF RxBuffers
      <4>3. /\ recvCq["server"] = 0 /\ waiting["server"] = 0 /\ freed["server"] = 0
            /\ wsTx["server"] = 0
        BY <1>1, <1>2
      <4>4. /\ posted["server"] \in Nat /\ wsRx["server"] \in Nat
            /\ txRing["server"] \in Nat /\ wire["server"] \in Nat /\ sendCq["server"] \in Nat
        BY <1>1, Sizes DEF PipeInv, Counters
      <4>5. QED
        BY <4>1, <4>2, <4>3, <4>4
    <3>2. wire["server"] + sendCq["server"] <= Budget
      BY <1>1 DEF PipeInv, UnreapedBounded
    <3>3. RxRingSize > Budget + (AppRxBatch["server"] - 1) + (DispTxBatch["server"] - 1)
      BY DEF SizesSuffice
    <3>4. QED
      BY <1>1, <1>2, <3>1, <3>2, <3>3, Sizes DEF PipeInv, Counters
  <2>2. QED
    BY <1>1, <2>1 DEF Stalled, Peer
<1>5. budget + txRing["client"] + wsRx["client"] + txRing["server"] + wsRx["server"] = Budget
  BY <1>1, <1>2, <1>3, <1>4
     DEF Stalled, MessagesConserved, Travelling, InHand, NothingLost, SizesSuffice
<1>6. budget <= AppTxBatch - 1
  BY DEF Stalled
<1>7. QED
  BY <1>1, <1>2, <1>5, <1>6 DEF SizesSuffice, Residue

\* With sizes that satisfy SizesSuffice the loop is free of deadlock: in every
\* reachable state some phase of some workspace, or the network, can act.
THEOREM DeadlockFreedom == SizesSuffice => (Spec => []NeverStalled)
<1> SUFFICES ASSUME SizesSuffice PROVE Spec => []NeverStalled
  OBVIOUS
<1>1. PipeInv /\ NothingLost /\ FlushInOneBurst => NeverStalled
  BY StalledResidue DEF NeverStalled
<1>2. QED
  BY <1>1, Invariant, LossFreedom, FlushNeverSpins, PTL

-----------------------------------------------------------------------------
(* Induction over the numbers and over the subsets of a finite set, for      *)
(* sets instead of predicates                                                *)

\* A set of numbers that has one has a smallest.
LEMMA SmallestNumber ==
  ASSUME NEW T \in SUBSET Nat, T # {}
  PROVE  \E x \in T : \A y \in T : x <= y
<1> DEFINE R == OpToRel(<, Nat)
<1>1. IsWellFoundedOn(R, Nat)
  BY NatLessThanWellFounded
<1>2. \A x, y \in Nat : x < y => <<x, y>> \in R
  BY DEF OpToRel
<1> HIDE DEF R
<1>3. PICK x \in T : \A y \in T : ~(<<y, x>> \in R)
  BY <1>1, WFMin
<1>4. ASSUME NEW y \in T PROVE x <= y
  <2>1. x \in Nat /\ y \in Nat /\ ~(<<y, x>> \in R)
    BY <1>3
  <2> QED
    BY <1>2, <2>1
<1> QED
  BY <1>4

\* A set with 0 and the successor of each of its numbers has all.
LEMMA AllNumbers ==
  ASSUME NEW T \in SUBSET Nat, 0 \in T, \A n \in T : n + 1 \in T
  PROVE  T = Nat
<1> DEFINE missing == Nat \ T
<1> SUFFICES ASSUME missing # {} PROVE FALSE
  OBVIOUS
<1>1. missing \in SUBSET Nat
  OBVIOUS
<1> HIDE DEF missing
<1>2. PICK x \in missing : \A y \in missing : x <= y
  BY <1>1, SmallestNumber
<1>3. x \in Nat /\ x # 0 /\ x \notin T
  BY <1>1, <1>2 DEF missing
<1>4. x - 1 \in Nat /\ x - 1 \notin missing
  BY <1>1, <1>2, <1>3
<1> QED
  BY <1>3, <1>4 DEF missing

\* What is taken of a subset.
LEMMA SubsetSizes ==
  ASSUME NEW S, IsFiniteSet(S), NEW s \in SUBSET S
  PROVE  /\ IsFiniteSet(s) /\ Cardinality(s) \in Nat /\ Cardinality(s) <= Cardinality(S)
         /\ Cardinality(s) = 0 <=> s = {}
         /\ \A x \in s : s \ {x} \in SUBSET S /\ Cardinality(s \ {x}) = Cardinality(s) - 1
<1>1. IsFiniteSet(s) /\ Cardinality(s) <= Cardinality(S)
  BY FS_Subset
<1>2. Cardinality(s) \in Nat /\ (Cardinality(s) = 0 <=> s = {})
  BY <1>1, FS_CardinalityType, FS_EmptySet
<1>3. \A x \in s : Cardinality(s \ {x}) = Cardinality(s) - 1
  BY <1>1, FS_RemoveElement
<1> QED
  BY <1>1, <1>2, <1>3

\* A set of subsets that has each of which it has all those with one element less
\* has all.
LEMMA AllSubsets ==
  ASSUME NEW S, IsFiniteSet(S), NEW T, {} \in T,
         \A s \in SUBSET S : s # {} /\ (\A x \in s : s \ {x} \in T) => s \in T
  PROVE  SUBSET S \subseteq T
<1> DEFINE N == {n \in Nat : \A s \in SUBSET S : Cardinality(s) = n => s \in T}
<1>1. 0 \in N
  BY SubsetSizes
<1>2. ASSUME NEW n \in N PROVE n + 1 \in N
  <2>1. ASSUME NEW s \in SUBSET S, Cardinality(s) = n + 1 PROVE s \in T
    <3>1. n \in Nat /\ s # {}
      BY <1>2, <2>1, SubsetSizes
    <3>2. ASSUME NEW x \in s PROVE s \ {x} \in T
      <4>1. s \ {x} \in SUBSET S /\ Cardinality(s \ {x}) = Cardinality(s) - 1
        BY SubsetSizes
      <4>2. Cardinality(s \ {x}) = n
        BY <2>1, <3>1, <4>1
      <4> QED
        BY <1>2, <4>1, <4>2
    <3> QED
      BY <3>1, <3>2
  <2> QED
    BY <1>2, <2>1
<1>3. N \in SUBSET Nat
  OBVIOUS
<1> HIDE DEF N
<1>4. N = Nat
  BY <1>1, <1>2, <1>3, AllNumbers
<1>5. ASSUME NEW s \in SUBSET S PROVE s \in T
  <2>1. Cardinality(s) \in N
    BY <1>4, SubsetSizes
  <2> QED
    BY <2>1 DEF N
<1> QED
  BY <1>5

-----------------------------------------------------------------------------
(* Sums and products over a finite set *)

Any(s) == CHOOSE y \in s : TRUE

\* g folds the subsets of S from base, an element x at a time by F[x].
IsFold(S, base, F, g) ==
  g = [s \in SUBSET S |-> IF s = {} THEN base ELSE F[Any(s)][g[s \ {Any(s)}]]]

\* There is such a function, and it stays in a set that all steps stay in.
LEMMA FoldExists ==
  ASSUME NEW S, IsFiniteSet(S), NEW N, NEW base \in N, NEW F \in [S -> [N -> N]]
  PROVE  \E g : IsFold(S, base, F, g)
<1> DEFINE Step(g, s) == IF s = {} THEN base ELSE F[Any(s)][g[s \ {Any(s)}]]
           UpTo(n, g) == \A s \in SUBSET S : Cardinality(s) <= n => g[s] = Step(g, s)
           T == {n \in Nat : \E g : UpTo(n, g)}
<1>1. 0 \in T
  <2> DEFINE g == [s \in SUBSET S |-> base]
  <2>1. ASSUME NEW s \in SUBSET S, Cardinality(s) <= 0 PROVE g[s] = Step(g, s)
    <3>1. s = {}
      BY <2>1, SubsetSizes
    <3> QED
      BY <3>1
  <2> QED
    BY <2>1
<1>2. ASSUME NEW n \in T PROVE n + 1 \in T
  <2>1. PICK g : UpTo(n, g)
    BY <1>2
  <2> DEFINE h == [s \in SUBSET S |-> Step(g, s)]
  <2>2. ASSUME NEW s \in SUBSET S, Cardinality(s) <= n + 1 PROVE h[s] = Step(h, s)
    <3>1. CASE s = {}
      BY <3>1
    <3>2. CASE s # {}
      <4> DEFINE r == s \ {Any(s)}
      <4>1. Any(s) \in s
        BY <3>2 DEF Any
      <4>2. r \in SUBSET S /\ Cardinality(r) = Cardinality(s) - 1 /\ Cardinality(s) \in Nat
        BY <4>1, SubsetSizes
      <4>3. Cardinality(r) <= n
        BY <1>2, <2>2, <4>2
      <4>4. g[r] = Step(g, r)
        BY <2>1, <4>2, <4>3
      <4>5. h[r] = g[r]
        BY <4>2, <4>4
      <4> QED
        BY <3>2, <4>5
    <3> QED
      BY <3>1, <3>2
  <2>3. n + 1 \in Nat
    BY <1>2
  <2> HIDE DEF h, T
  <2>4. \E m : UpTo(n + 1, m)
    BY <2>2
  <2> HIDE DEF UpTo
  <2> QED
    BY <2>3, <2>4 DEF T
<1>3. T \in SUBSET Nat
  OBVIOUS
<1> HIDE DEF T
<1>4. T = Nat
  BY <1>1, <1>2, <1>3, AllNumbers
<1>5. Cardinality(S) \in T
  BY <1>4, FS_CardinalityType
<1>6. PICK g : UpTo(Cardinality(S), g)
  BY <1>5 DEF T
<1> DEFINE h == [s \in SUBSET S |-> Step(g, s)]
<1>7. ASSUME NEW s \in SUBSET S PROVE h[s] = Step(h, s)
  <2>1. ASSUME NEW r \in SUBSET S PROVE h[r] = g[r]
    BY <1>6, SubsetSizes
  <2>2. CASE s = {}
    BY <2>2
  <2>3. CASE s # {}
    <3>1. Any(s) \in s
      BY <2>3 DEF Any
    <3>2. h[s \ {Any(s)}] = g[s \ {Any(s)}]
      BY <2>1, <3>1
    <3> QED
      BY <2>3, <3>2
  <2> QED
    BY <2>2, <2>3
<1>8. h = [s \in SUBSET S |-> Step(h, s)]
  BY <1>7
<1> HIDE DEF h
<1>9. IsFold(S, base, F, h)
  BY <1>8 DEF IsFold
<1> QED
  BY <1>9

LEMMA FoldType ==
  ASSUME NEW S, IsFiniteSet(S), NEW N, NEW base \in N, NEW F \in [S -> [N -> N]],
         NEW g, IsFold(S, base, F, g)
  PROVE  \A s \in SUBSET S : g[s] \in N
<1> DEFINE T == {s \in SUBSET S : g[s] \in N}
<1>1. {} \in T
  BY DEF IsFold
<1>2. ASSUME NEW s \in SUBSET S, s # {}, \A x \in s : s \ {x} \in T PROVE s \in T
  <2>1. Any(s) \in s
    BY <1>2 DEF Any
  <2>2. g[s] = F[Any(s)][g[s \ {Any(s)}]]
    BY <1>2 DEF IsFold
  <2>3. g[s \ {Any(s)}] \in N
    BY <1>2, <2>1
  <2> QED
    BY <2>1, <2>2, <2>3
<1>3. SUBSET S \subseteq T
  <2> HIDE DEF T
  <2> QED
    BY <1>1, <1>2, AllSubsets
<1> QED
  BY <1>3

-----------------------------------------------------------------------------
(* Sums of natural numbers *)

IsSum(f, S, g) ==
  /\ g[{}] = 0
  /\ \A s \in SUBSET S : s # {} => g[s] = f[Any(s)] + g[s \ {Any(s)}]

\* SumFunctionOnSet takes the values of such a function, since there is one.
LEMMA SumIsSum ==
  ASSUME NEW S, IsFiniteSet(S), NEW f, \A x \in S : f[x] \in Nat
  PROVE  \E g : /\ IsSum(f, S, g)
                /\ \A s \in SUBSET S : g[s] \in Nat
                /\ SumFunctionOnSet(f, S) = g[S]
<1> DEFINE F == [x \in S |-> [n \in Nat |-> f[x] + n]]
           Equation(g) == g = [s \in SUBSET S |-> IF s = {} THEN 0
                                ELSE LET x == CHOOSE y \in s : TRUE IN f[x] + g[s \ {x}]]
           sum == CHOOSE g : Equation(g)
<1>1. F \in [S -> [Nat -> Nat]]
  OBVIOUS
<1>2. \A x \in S, n \in Nat : F[x][n] = f[x] + n
  OBVIOUS
<1>3. SumFunctionOnSet(f, S) = sum[S]
  BY DEF SumFunctionOnSet, FoldFunctionOnSet, MapThenFoldSet
<1> HIDE DEF F
<1>4. PICK g : IsFold(S, 0, F, g)
  BY <1>1, FoldExists
<1>5. \A s \in SUBSET S : g[s] \in Nat
  BY <1>1, <1>4, FoldType
<1>6. ASSUME NEW s \in SUBSET S, s # {} PROVE F[Any(s)][g[s \ {Any(s)}]] = f[Any(s)] + g[s \ {Any(s)}]
  <2>1. Any(s) \in S
    BY <1>6 DEF Any
  <2> QED
    BY <1>2, <1>5, <2>1
<1>7. Equation(g)
  <2>1. g = [s \in SUBSET S |-> IF s = {} THEN 0 ELSE f[Any(s)] + g[s \ {Any(s)}]]
    BY <1>4, <1>6 DEF IsFold
  <2> QED
    BY <2>1 DEF Any
<1> HIDE DEF Equation
<1>8. Equation(sum)
  BY <1>7
<1> HIDE DEF sum
<1>9. sum = [s \in SUBSET S |-> IF s = {} THEN 0 ELSE f[Any(s)] + sum[s \ {Any(s)}]]
  BY <1>8 DEF Equation, Any
<1>10. IsSum(f, S, sum)
  BY <1>9 DEF IsSum
<1>11. \A s \in SUBSET S : sum[s] \in Nat
  <2> DEFINE T == {s \in SUBSET S : sum[s] \in Nat}
  <2>1. {} \in T
    BY <1>9
  <2>2. ASSUME NEW s \in SUBSET S, s # {}, \A x \in s : s \ {x} \in T PROVE s \in T
    <3>1. Any(s) \in s
      BY <2>2 DEF Any
    <3>2. sum[s] = f[Any(s)] + sum[s \ {Any(s)}]
      BY <1>9, <2>2
    <3>3. sum[s \ {Any(s)}] \in Nat /\ f[Any(s)] \in Nat
      BY <2>2, <3>1
    <3> QED
      BY <3>2, <3>3
  <2>3. SUBSET S \subseteq T
    <3> HIDE DEF T
    <3> QED
      BY <2>1, <2>2, AllSubsets
  <2> QED
    BY <2>3
<1> QED
  BY <1>3, <1>10, <1>11

\* The product of positive numbers is one.
LEMMA ProductPositive ==
  ASSUME NEW S, IsFiniteSet(S), NEW f \in [S -> Nat \ {0}]
  PROVE  FoldFunction(LAMBDA m, n : m * n, 1, f) \in Nat \ {0}
<1> DEFINE N == Nat \ {0}
           F == [x \in S |-> [n \in N |-> f[x] * n]]
           Equation(g) == g = [s \in SUBSET S |-> IF s = {} THEN 1
                                ELSE LET x == CHOOSE y \in s : TRUE IN f[x] * g[s \ {x}]]
           product == CHOOSE g : Equation(g)
<1>1. F \in [S -> [N -> N]] /\ 1 \in N
  <2>1. \A x \in S, n \in N : f[x] * n \in N
    OBVIOUS
  <2> QED
    BY <2>1
<1>2. \A x \in S, n \in N : F[x][n] = f[x] * n
  OBVIOUS
<1>3. FoldFunction(LAMBDA m, n : m * n, 1, f) = product[S]
  <2>1. DOMAIN f = S
    OBVIOUS
  <2> QED
    BY <2>1 DEF FoldFunction, FoldFunctionOnSet, MapThenFoldSet
<1> HIDE DEF F, N
<1>4. PICK g : IsFold(S, 1, F, g)
  BY <1>1, FoldExists
<1>5. \A s \in SUBSET S : g[s] \in N
  BY <1>1, <1>4, FoldType
<1>6. ASSUME NEW s \in SUBSET S, s # {} PROVE F[Any(s)][g[s \ {Any(s)}]] = f[Any(s)] * g[s \ {Any(s)}]
  <2>1. Any(s) \in S
    BY <1>6 DEF Any
  <2> QED
    BY <1>2, <1>5, <2>1
<1>7. Equation(g)
  <2>1. g = [s \in SUBSET S |-> IF s = {} THEN 1 ELSE f[Any(s)] * g[s \ {Any(s)}]]
    BY <1>4, <1>6 DEF IsFold
  <2> QED
    BY <2>1 DEF Any
<1> HIDE DEF Equation
<1>8. Equation(product)
  BY <1>7
<1> HIDE DEF product
<1>9. product = [s \in SUBSET S |-> IF s = {} THEN 1 ELSE f[Any(s)] * product[s \ {Any(s)}]]
  BY <1>8 DEF Equation, Any
<1>10. \A s \in SUBSET S : product[s] \in N
  <2> DEFINE T == {s \in SUBSET S : product[s] \in N}
  <2>1. {} \in T
    BY <1>1, <1>9
  <2>2. ASSUME NEW s \in SUBSET S, s # {}, \A x \in s : s \ {x} \in T PROVE s \in T
    <3>1. Any(s) \in s
      BY <2>2 DEF Any
    <3>2. product[s] = f[Any(s)] * product[s \ {Any(s)}]
      BY <1>9, <2>2
    <3>3. product[s \ {Any(s)}] \in N /\ f[Any(s)] \in N
      BY <2>2, <3>1 DEF N
    <3>4. product[s] \in N
      BY <3>2, <3>3 DEF N
    <3> QED
      BY <3>4
  <2>3. SUBSET S \subseteq T
    <3> HIDE DEF T
    <3> QED
      BY <2>1, <2>2, AllSubsets
  <2> QED
    BY <2>3
<1>11. product[S] \in N
  BY <1>10
<1> QED
  BY <1>3, <1>11 DEF N

\* The order does not matter.
LEMMA AnyOrder ==
  ASSUME NEW S, IsFiniteSet(S), NEW f, \A x \in S : f[x] \in Nat,
         NEW g, IsSum(f, S, g), \A s \in SUBSET S : g[s] \in Nat
  PROVE  \A s \in SUBSET S : \A x \in s : g[s] = f[x] + g[s \ {x}]
<1> DEFINE T == {s \in SUBSET S : \A x \in s : g[s] = f[x] + g[s \ {x}]}
<1>1. {} \in T
  OBVIOUS
<1>2. ASSUME NEW s \in SUBSET S, s # {}, \A x \in s : s \ {x} \in T PROVE s \in T
  <2> SUFFICES ASSUME NEW x \in s PROVE g[s] = f[x] + g[s \ {x}]
    OBVIOUS
  <2> DEFINE y == Any(s)
  <2>1. y \in s
    BY <1>2 DEF Any
  <2>2. g[s] = f[y] + g[s \ {y}]
    BY <1>2 DEF IsSum
  <2> HIDE DEF y
  <2>3. CASE x = y
    BY <2>2, <2>3
  <2>4. CASE x # y
    <3>1. g[s \ {y}] = f[x] + g[(s \ {y}) \ {x}]
      BY <1>2, <2>1, <2>4
    <3>2. g[s \ {x}] = f[y] + g[(s \ {x}) \ {y}]
      BY <1>2, <2>1, <2>4
    <3>3. (s \ {y}) \ {x} = (s \ {x}) \ {y} /\ (s \ {x}) \ {y} \in SUBSET S
      OBVIOUS
    <3> DEFINE rest == g[(s \ {x}) \ {y}]
    <3>4. f[x] \in Nat /\ f[y] \in Nat /\ rest \in Nat
      BY <2>1, <3>3
    <3>5. g[s] = f[y] + (f[x] + rest) /\ g[s \ {x}] = f[y] + rest
      BY <2>2, <3>1, <3>2, <3>3
    <3> HIDE DEF rest
    <3> QED
      BY <3>4, <3>5
  <2> QED
    BY <2>3, <2>4
<1> HIDE DEF T
<1>3. SUBSET S \subseteq T
  BY <1>1, <1>2, AllSubsets
<1> QED
  BY <1>3 DEF T

\* Equal terms have equal sums.
LEMMA SumsAgree ==
  ASSUME NEW S, IsFiniteSet(S), NEW f, NEW h, NEW g, NEW k, IsSum(f, S, g), IsSum(h, S, k),
         \A x \in S : f[x] = h[x]
  PROVE  g[S] = k[S]
<1> DEFINE T == {s \in SUBSET S : g[s] = k[s]}
<1>1. {} \in T
  BY DEF IsSum
<1>2. ASSUME NEW s \in SUBSET S, s # {}, \A x \in s : s \ {x} \in T PROVE s \in T
  <2>1. Any(s) \in s
    BY <1>2 DEF Any
  <2>2. g[s] = f[Any(s)] + g[s \ {Any(s)}] /\ k[s] = h[Any(s)] + k[s \ {Any(s)}]
    BY <1>2 DEF IsSum
  <2>3. g[s \ {Any(s)}] = k[s \ {Any(s)}] /\ f[Any(s)] = h[Any(s)]
    BY <1>2, <2>1
  <2> QED
    BY <2>2, <2>3
<1> HIDE DEF T
<1>3. SUBSET S \subseteq T
  BY <1>1, <1>2, AllSubsets
<1> QED
  BY <1>3 DEF T

LEMMA SumType ==
  ASSUME NEW S, IsFiniteSet(S), NEW f, \A x \in S : f[x] \in Nat
  PROVE  SumFunctionOnSet(f, S) \in Nat
BY SumIsSum

LEMMA SumSame ==
  ASSUME NEW S, IsFiniteSet(S), NEW f, NEW h, \A x \in S : f[x] \in Nat, \A x \in S : h[x] = f[x]
  PROVE  SumFunctionOnSet(h, S) = SumFunctionOnSet(f, S)
<1>1. PICK g : IsSum(f, S, g) /\ SumFunctionOnSet(f, S) = g[S]
  BY SumIsSum
<1>2. \A x \in S : h[x] \in Nat
  OBVIOUS
<1>3. PICK k : IsSum(h, S, k) /\ SumFunctionOnSet(h, S) = k[S]
  BY <1>2, SumIsSum
<1>4. g[S] = k[S]
  BY <1>1, <1>3, SumsAgree
<1> QED
  BY <1>1, <1>3, <1>4

LEMMA SumRemove ==
  ASSUME NEW S, IsFiniteSet(S), NEW f, \A x \in S : f[x] \in Nat, NEW x \in S
  PROVE  SumFunctionOnSet(f, S) = f[x] + SumFunctionOnSet(f, S \ {x})
<1> DEFINE R == S \ {x}
<1>1. PICK g : IsSum(f, S, g) /\ (\A s \in SUBSET S : g[s] \in Nat) /\ SumFunctionOnSet(f, S) = g[S]
  BY SumIsSum
<1>2. IsFiniteSet(R) /\ \A y \in R : f[y] \in Nat
  BY FS_Subset
<1>3. g[S] = f[x] + g[R]
  BY <1>1, AnyOrder
<1>4. IsSum(f, R, g)
  BY <1>1 DEF IsSum
<1> HIDE DEF R
<1>5. PICK k : IsSum(f, R, k) /\ SumFunctionOnSet(f, R) = k[R]
  BY <1>2, SumIsSum
<1>6. g[R] = k[R]
  BY <1>2, <1>4, <1>5, SumsAgree
<1> QED
  BY <1>1, <1>3, <1>5, <1>6 DEF R

\* One term of a sum changes.
LEMMA SumChanged ==
  ASSUME NEW S, IsFiniteSet(S), NEW f, NEW h, NEW x \in S, \A y \in S : f[y] \in Nat,
         h[x] \in Nat, \A y \in S \ {x} : h[y] = f[y]
  PROVE  SumFunctionOnSet(h, S) + f[x] = SumFunctionOnSet(f, S) + h[x]
<1> DEFINE R == S \ {x}
<1>1. IsFiniteSet(R) /\ (\A y \in R : f[y] \in Nat) /\ (\A y \in R : h[y] = f[y])
  BY FS_Subset
<1>2. \A y \in S : h[y] \in Nat
  OBVIOUS
<1>3. SumFunctionOnSet(f, S) = f[x] + SumFunctionOnSet(f, R)
  BY SumRemove
<1>4. SumFunctionOnSet(h, S) = h[x] + SumFunctionOnSet(h, R)
  BY <1>2, SumRemove
<1> HIDE DEF R
<1>5. SumFunctionOnSet(h, R) = SumFunctionOnSet(f, R) /\ SumFunctionOnSet(f, R) \in Nat
  BY <1>1, SumSame, SumType
<1> QED
  BY <1>2, <1>3, <1>4, <1>5

LEMMA SumMember ==
  ASSUME NEW S, IsFiniteSet(S), NEW f, \A x \in S : f[x] \in Nat, NEW x \in S
  PROVE  f[x] <= SumFunctionOnSet(f, S)
<1> DEFINE R == S \ {x}
<1>1. IsFiniteSet(R) /\ \A y \in R : f[y] \in Nat
  BY FS_Subset
<1>2. SumFunctionOnSet(f, S) = f[x] + SumFunctionOnSet(f, R)
  BY SumRemove
<1> HIDE DEF R
<1>3. SumFunctionOnSet(f, R) \in Nat
  BY <1>1, SumType
<1> QED
  BY <1>2, <1>3

LEMMA SumConstant ==
  ASSUME NEW S, IsFiniteSet(S), NEW f, NEW c \in Nat, \A x \in S : f[x] = c
  PROVE  SumFunctionOnSet(f, S) = c * Cardinality(S)
<1>1. PICK g : IsSum(f, S, g) /\ SumFunctionOnSet(f, S) = g[S]
  BY SumIsSum
<1> DEFINE T == {s \in SUBSET S : g[s] = c * Cardinality(s)}
<1>2. {} \in T
  BY <1>1, FS_EmptySet DEF IsSum
<1>3. ASSUME NEW s \in SUBSET S, s # {}, \A x \in s : s \ {x} \in T PROVE s \in T
  <2> DEFINE r == s \ {Any(s)}
  <2>1. Any(s) \in s
    BY <1>3 DEF Any
  <2>2. g[s] = f[Any(s)] + g[r]
    BY <1>1, <1>3 DEF IsSum
  <2>3. Cardinality(r) = Cardinality(s) - 1 /\ Cardinality(s) \in Nat
    BY <2>1, SubsetSizes
  <2>4. g[r] = c * Cardinality(r) /\ f[Any(s)] = c
    BY <1>3, <2>1
  <2> HIDE DEF r
  <2>5. g[s] = c * Cardinality(s)
    BY <2>2, <2>3, <2>4
  <2> QED
    BY <2>5
<1> HIDE DEF T
<1>4. SUBSET S \subseteq T
  BY <1>2, <1>3, AllSubsets
<1> QED
  BY <1>1, <1>4 DEF T

\* One worker's part of a sum changes, or that of somebody else.
LEMMA SumExcept ==
  ASSUME NEW D, NEW S \in SUBSET D, IsFiniteSet(S), NEW f \in [D -> Nat],
         NEW x \in D, NEW h, h[x] \in Nat, \A y \in D : y # x => h[y] = f[y]
  PROVE  /\ x \in S => SumFunctionOnSet(h, S) + f[x] = SumFunctionOnSet(f, S) + h[x]
         /\ x \notin S => SumFunctionOnSet(h, S) = SumFunctionOnSet(f, S)
<1>1. \A y \in S : f[y] \in Nat
  OBVIOUS
<1>2. \A y \in S \ {x} : h[y] = f[y]
  OBVIOUS
<1>3. ASSUME x \in S PROVE SumFunctionOnSet(h, S) + f[x] = SumFunctionOnSet(f, S) + h[x]
  BY <1>1, <1>2, <1>3, SumChanged
<1>4. ASSUME x \notin S PROVE SumFunctionOnSet(h, S) = SumFunctionOnSet(f, S)
  BY <1>1, <1>2, <1>4, SumSame
<1> QED
  BY <1>3, <1>4

-----------------------------------------------------------------------------
(* Routing: budgets on any network *)

Amounts ==
  /\ net \in Nets
  /\ infly_budget \in [Workers -> Nat]
  /\ pending \in [Servers -> 0 .. QueueCap]
  /\ responses \in [Dispatchers -> [Workloads -> Nat]]
  /\ queue \in [Workers -> 0 .. QueueCap]
  /\ dropped \in [Workloads -> Nat]
  /\ tx_idx \in [Workers \union Servers -> Nat]
  /\ rx_idx \in [Dispatchers -> Nat]

\* Requests and responses are only where their workload has a way on.
OnTheirWay ==
  /\ \A s \in Servers : pending[s] > 0 => net.servers[s] \in Workloads
  /\ \A d \in Dispatchers, t \in Workloads :
       responses[d][t] > 0 => t \in DOMAIN net.rxRoutes[d]

RoutingInv == Amounts /\ OnTheirWay /\ BudgetsConserved

Held(t) == SumFunctionOnSet(infly_budget, Of(net.workload, t))
Queued(t) == SumFunctionOnSet(queue, Of(net.workload, t))
Requested(t) == SumFunctionOnSet(pending, Of(net.servers, t))
Answered(t) == [d \in Dispatchers |-> responses[d][t]]
UnderWay(t) == SumFunctionOnSet(Answered(t), Dispatchers)

\* The parts of a network.
LEMMA NetworkParts ==
  ASSUME net \in Nets
  PROVE  /\ IsFiniteSet(Workers) /\ IsFiniteSet(Servers)
         /\ IsFiniteSet(Dispatchers)
         /\ \A w \in Workers : net.workload[w] \in Workloads
         /\ \A t : /\ IsFiniteSet(Of(net.workload, t)) /\ IsFiniteSet(Of(net.servers, t))
                   /\ Of(net.workload, t) \in SUBSET Workers
                   /\ Of(net.servers, t) \in SUBSET Servers
<1>1. WholeNet(net) /\ IsFiniteSet(Ids)
  BY RoutingAssumption
<1>2. Workers \subseteq Ids /\ Servers \subseteq Ids /\ Dispatchers \subseteq Ids
  BY <1>1 DEF WholeNet, Workers, Servers, Dispatchers
<1>3. IsFiniteSet(Workers) /\ IsFiniteSet(Servers) /\ IsFiniteSet(Dispatchers)
  BY <1>1, <1>2, FS_Subset
<1>4. \A w \in Workers : net.workload[w] \in Workloads
  BY DEF Workers, Workloads, Range
<1>5. ASSUME NEW t
      PROVE  /\ Of(net.workload, t) \in SUBSET Workers
             /\ Of(net.servers, t) \in SUBSET Servers
  BY DEF Of, Workers, Servers
<1> QED
  BY <1>3, <1>4, <1>5, FS_Subset

\* rr_select finds one of the routes, whatever its counter.
LEMMA RouteChosen ==
  ASSUME NEW S, NEW routes \in Routes(S), NEW idx \in Nat
  PROVE  Len(routes) \in Nat \ {0} /\ rr_select(routes, idx) \in S
<1>1. routes \in Seq(S) /\ routes # <<>>
  BY DEF Routes
<1>2. Len(routes) \in Nat \ {0}
  BY <1>1
<1> DEFINE n == Len(routes)
<1>3. n \in Nat \ {0}
  BY <1>2
<1> HIDE DEF n
<1>4. idx % n \in 0 .. n - 1
  BY <1>3
<1>5. (idx % n) + 1 \in 1 .. n
  BY <1>3, <1>4
<1>6. routes[(idx % n) + 1] \in S
  BY <1>1, <1>5 DEF n
<1> QED
  BY <1>2, <1>6 DEF rr_select, n

LEMMA CounterType ==
  ASSUME NEW idx \in Nat, NEW period \in Nat \ {0}
  PROVE  Onward(idx, period) \in Nat
<1>1. (idx + 1) % period \in 0 .. period - 1
  OBVIOUS
<1> QED
  BY <1>1 DEF Onward

\* A request goes to a server worker of its workload.
LEMMA RequestRoute ==
  ASSUME Amounts, NEW w \in Workers
  PROVE  LET s == rr_select(net.remotes[w], tx_idx[w])
         IN  /\ s \in Servers /\ net.servers[s] = net.workload[w]
             /\ Onward(tx_idx[w], Len(net.remotes[w])) \in Nat
<1>1. WholeNet(net) /\ tx_idx[w] \in Nat
  BY RoutingAssumption DEF Amounts
<1>2. net.remotes[w] \in Routes(Of(net.servers, net.workload[w]))
  BY <1>1 DEF WholeNet, Workers
<1>3. Len(net.remotes[w]) \in Nat \ {0}
      /\ rr_select(net.remotes[w], tx_idx[w]) \in Of(net.servers, net.workload[w])
  BY <1>1, <1>2, RouteChosen
<1>4. Onward(tx_idx[w], Len(net.remotes[w])) \in Nat
  BY <1>1, <1>3, CounterType
<1> QED
  BY <1>3, <1>4 DEF Of, Servers

\* A response goes to a dispatcher that has workers of its workload.
LEMMA ResponseRoute ==
  ASSUME Amounts, NEW s \in Servers
  PROVE  LET d == rr_select(net.responseRoutes[s], tx_idx[s])
         IN  /\ d \in Dispatchers /\ net.servers[s] \in DOMAIN net.rxRoutes[d]
             /\ Onward(tx_idx[s], Len(net.responseRoutes[s])) \in Nat
<1> DEFINE D == {d \in DOMAIN net.rxRoutes : net.servers[s] \in DOMAIN net.rxRoutes[d]}
<1>1. WholeNet(net) /\ tx_idx[s] \in Nat
  BY RoutingAssumption DEF Amounts
<1>2. net.responseRoutes[s] \in Routes(D)
  BY <1>1 DEF WholeNet, Servers
<1> HIDE DEF D
<1>3. Len(net.responseRoutes[s]) \in Nat \ {0}
      /\ rr_select(net.responseRoutes[s], tx_idx[s]) \in D
  BY <1>1, <1>2, RouteChosen
<1>4. Onward(tx_idx[s], Len(net.responseRoutes[s])) \in Nat
  BY <1>1, <1>3, CounterType
<1> QED
  BY <1>3, <1>4 DEF D, Dispatchers

\* It is handed to a worker of its workload.
LEMMA WorkerRoute ==
  ASSUME Amounts, NEW d \in Dispatchers, NEW t \in DOMAIN net.rxRoutes[d]
  PROVE  LET w == rr_select(net.rxRoutes[d][t], rx_idx[d])
         IN  /\ w \in Workers /\ net.workload[w] = t
             /\ Onward(rx_idx[d], RxPeriod(d)) \in Nat
<1> DEFINE T == DOMAIN net.rxRoutes[d]
           lengths == [u \in T |-> Len(net.rxRoutes[d][u])]
<1>1. WholeNet(net) /\ rx_idx[d] \in Nat /\ IsFiniteSet(Types)
  BY RoutingAssumption DEF Amounts
<1>2. T \subseteq Types /\ \A u \in T : net.rxRoutes[d][u] \in Routes(Of(net.workload, u))
  BY <1>1 DEF WholeNet, Dispatchers
<1>3. IsFiniteSet(T)
  BY <1>1, <1>2, FS_Subset
<1>4. lengths \in [T -> Nat \ {0}]
  BY <1>1, <1>2, RouteChosen
<1>5. RxPeriod(d) \in Nat \ {0}
  <2>1. RxPeriod(d) = FoldFunction(LAMBDA m, n : m * n, 1, lengths)
    BY DEF RxPeriod, FoldFunction, FoldFunctionOnSet, MapThenFoldSet
  <2> HIDE DEF lengths
  <2> QED
    BY <1>3, <1>4, <2>1, ProductPositive
<1>6. Onward(rx_idx[d], RxPeriod(d)) \in Nat
  BY <1>1, <1>5, CounterType
<1>7. rr_select(net.rxRoutes[d][t], rx_idx[d]) \in Of(net.workload, t)
  BY <1>1, <1>2, RouteChosen
<1> QED
  BY <1>6, <1>7 DEF Of, Workers

LEMMA TakenBounds ==
  ASSUME NEW n \in 0 .. QueueCap, NEW k \in Nat
  PROVE  /\ Taken(n, k) \in 0 .. k /\ n + Taken(n, k) \in 0 .. QueueCap
         /\ n + k <= QueueCap => Taken(n, k) = k
BY BudgetAssumption DEF Taken

Conserved(t) ==
  /\ Held(t) + Queued(t) + Requested(t) + UnderWay(t) + dropped[t] = Total(t)
  /\ Total(t) <= QueueCap => dropped[t] = 0

LEMMA ConservedInParts ==
  BudgetsConserved <=> \A t \in Workloads : Conserved(t)
<1>1. ASSUME NEW t
      PROVE  /\ SumFunctionOnSet(infly_budget, Of(net.workload, t)) = Held(t)
             /\ SumFunctionOnSet(queue, Of(net.workload, t)) = Queued(t)
             /\ SumFunctionOnSet(pending, Of(net.servers, t)) = Requested(t)
             /\ SumFunction([d \in Dispatchers |-> responses[d][t]]) = UnderWay(t)
  <2>1. DOMAIN Answered(t) = Dispatchers
    BY DEF Answered
  <2>2. SumFunction(Answered(t)) = SumFunctionOnSet(Answered(t), Dispatchers)
    BY <2>1 DEF SumFunction
  <2> QED
    BY <2>2 DEF Held, Queued, Requested, UnderWay, Answered
<1> QED
  BY <1>1 DEF BudgetsConserved, Conserved

LEMMA SumTypes ==
  ASSUME Amounts, NEW t \in Workloads
  PROVE  /\ Held(t) \in Nat /\ Queued(t) \in Nat /\ Requested(t) \in Nat /\ UnderWay(t) \in Nat
         /\ dropped[t] \in Nat /\ Total(t) \in Nat
<1>0. net \in Nets
  BY DEF Amounts
<1>1. Held(t) \in Nat
  BY <1>0, NetworkParts, SumType DEF Amounts, Held
<1>2. Queued(t) \in Nat
  <2>1. \A w \in Of(net.workload, t) : queue[w] \in Nat
    BY <1>0, NetworkParts DEF Amounts
  <2> QED
    BY <1>0, <2>1, NetworkParts, SumType DEF Queued
<1>3. Requested(t) \in Nat
  <2>1. \A s \in Of(net.servers, t) : pending[s] \in Nat
    BY <1>0, NetworkParts DEF Amounts
  <2> QED
    BY <1>0, <2>1, NetworkParts, SumType DEF Requested
<1>4. UnderWay(t) \in Nat
  <2>1. \A d \in Dispatchers : Answered(t)[d] \in Nat
    BY DEF Amounts, Answered
  <2> QED
    BY <1>0, <2>1, NetworkParts, SumType DEF UnderWay
<1>5. dropped[t] \in Nat
  BY DEF Amounts
<1>6. Total(t) \in Nat
  <2>1. Cardinality(Of(net.workload, t)) \in Nat /\ Budget \in Nat
    BY <1>0, NetworkParts, FS_CardinalityType, BudgetAssumption
  <2> QED
    BY <2>1 DEF Total
<1> QED
  BY <1>1, <1>2, <1>3, <1>4, <1>5, <1>6

\* What one has is part of what all have.
LEMMA PartOfSum ==
  ASSUME Amounts
  PROVE  /\ \A w \in Workers : infly_budget[w] <= Held(net.workload[w])
         /\ \A s \in Servers : pending[s] <= Requested(net.servers[s])
         /\ \A d \in Dispatchers, t \in Workloads : responses[d][t] <= UnderWay(t)
         /\ \A w \in Workers : queue[w] <= Queued(net.workload[w])
<1>0. net \in Nets
  BY DEF Amounts
<1>1. ASSUME NEW w \in Workers
      PROVE  infly_budget[w] <= Held(net.workload[w]) /\ queue[w] <= Queued(net.workload[w])
  <2> DEFINE S == Of(net.workload, net.workload[w])
  <2>1. w \in S
    BY DEF Of, Workers
  <2>2. IsFiniteSet(S) /\ S \in SUBSET Workers
    BY <1>0, NetworkParts
  <2> HIDE DEF S
  <2>3. \A x \in S : infly_budget[x] \in Nat
    BY <2>2 DEF Amounts
  <2>4. \A x \in S : queue[x] \in Nat
    BY <2>2 DEF Amounts
  <2>5. infly_budget[w] <= SumFunctionOnSet(infly_budget, S) /\ queue[w] <= SumFunctionOnSet(queue, S)
    BY <2>1, <2>2, <2>3, <2>4, SumMember
  <2> QED
    BY <2>5 DEF Held, Queued, S
<1>2. ASSUME NEW s \in Servers PROVE pending[s] <= Requested(net.servers[s])
  <2> DEFINE S == Of(net.servers, net.servers[s])
  <2>1. s \in S
    BY DEF Of, Servers
  <2>2. IsFiniteSet(S) /\ S \in SUBSET Servers
    BY <1>0, NetworkParts
  <2> HIDE DEF S
  <2>3. \A x \in S : pending[x] \in Nat
    BY <2>2 DEF Amounts
  <2>4. pending[s] <= SumFunctionOnSet(pending, S)
    BY <2>1, <2>2, <2>3, SumMember
  <2> QED
    BY <2>4 DEF Requested, S
<1>3. ASSUME NEW d \in Dispatchers, NEW t \in Workloads
      PROVE  responses[d][t] <= UnderWay(t)
  <2>1. (\A x \in Dispatchers : Answered(t)[x] \in Nat) /\ Answered(t)[d] = responses[d][t]
    BY DEF Amounts, Answered
  <2>2. Answered(t)[d] <= SumFunctionOnSet(Answered(t), Dispatchers)
    BY <1>0, <2>1, NetworkParts, SumMember
  <2> QED
    BY <2>1, <2>2 DEF UnderWay
<1> QED
  BY <1>1, <1>2, <1>3

\* How a step at one worker, server worker or dispatcher shows in the sums.
LEMMA HeldChanges ==
  ASSUME Amounts, net' = net, NEW w \in Workers, NEW v \in Nat,
         infly_budget'[w] = v, \A x \in Workers : x # w => infly_budget'[x] = infly_budget[x], NEW t
  PROVE  /\ t = net.workload[w] => Held(t)' + infly_budget[w] = Held(t) + v
         /\ t # net.workload[w] => Held(t)' = Held(t)
<1> DEFINE S == Of(net.workload, t)
<1>1. IsFiniteSet(S) /\ S \in SUBSET Workers
  BY NetworkParts DEF Amounts
<1>2. w \in S <=> t = net.workload[w]
  BY DEF Of, Workers
<1>3. Held(t) = SumFunctionOnSet(infly_budget, S) /\ Held(t)' = SumFunctionOnSet(infly_budget', S)
  BY DEF Held, Of
<1>4. infly_budget \in [Workers -> Nat]
  BY DEF Amounts
<1> HIDE DEF S
<1>5. /\ w \in S => SumFunctionOnSet(infly_budget', S) + infly_budget[w] = SumFunctionOnSet(infly_budget, S) + infly_budget'[w]
      /\ w \notin S => SumFunctionOnSet(infly_budget', S) = SumFunctionOnSet(infly_budget, S)
  BY <1>1, <1>4, SumExcept
<1> QED
  BY <1>2, <1>3, <1>5

LEMMA QueuedChanges ==
  ASSUME Amounts, net' = net, NEW w \in Workers, NEW v \in Nat,
         queue'[w] = v, \A x \in Workers : x # w => queue'[x] = queue[x], NEW t
  PROVE  /\ t = net.workload[w] => Queued(t)' + queue[w] = Queued(t) + v
         /\ t # net.workload[w] => Queued(t)' = Queued(t)
<1> DEFINE S == Of(net.workload, t)
<1>1. IsFiniteSet(S) /\ S \in SUBSET Workers
  BY NetworkParts DEF Amounts
<1>2. w \in S <=> t = net.workload[w]
  BY DEF Of, Workers
<1>3. Queued(t) = SumFunctionOnSet(queue, S) /\ Queued(t)' = SumFunctionOnSet(queue', S)
  BY DEF Queued, Of
<1>4. queue \in [Workers -> Nat]
  BY DEF Amounts
<1> HIDE DEF S
<1>5. /\ w \in S => SumFunctionOnSet(queue', S) + queue[w] = SumFunctionOnSet(queue, S) + queue'[w]
      /\ w \notin S => SumFunctionOnSet(queue', S) = SumFunctionOnSet(queue, S)
  BY <1>1, <1>4, SumExcept
<1> QED
  BY <1>2, <1>3, <1>5

LEMMA RequestedChanges ==
  ASSUME Amounts, net' = net, NEW s \in Servers, NEW v \in Nat,
         pending'[s] = v, \A x \in Servers : x # s => pending'[x] = pending[x], NEW t
  PROVE  /\ t = net.servers[s] => Requested(t)' + pending[s] = Requested(t) + v
         /\ t # net.servers[s] => Requested(t)' = Requested(t)
<1> DEFINE S == Of(net.servers, t)
<1>1. IsFiniteSet(S) /\ S \in SUBSET Servers
  BY NetworkParts DEF Amounts
<1>2. s \in S <=> t = net.servers[s]
  BY DEF Of, Servers
<1>3. Requested(t) = SumFunctionOnSet(pending, S) /\ Requested(t)' = SumFunctionOnSet(pending', S)
  BY DEF Requested, Of
<1>4. pending \in [Servers -> Nat]
  BY DEF Amounts
<1> HIDE DEF S
<1>5. /\ s \in S => SumFunctionOnSet(pending', S) + pending[s] = SumFunctionOnSet(pending, S) + pending'[s]
      /\ s \notin S => SumFunctionOnSet(pending', S) = SumFunctionOnSet(pending, S)
  BY <1>1, <1>4, SumExcept
<1> QED
  BY <1>2, <1>3, <1>5

LEMMA UnderWayChanges ==
  ASSUME Amounts, net' = net, NEW d \in Dispatchers,
         NEW u \in Workloads, NEW v \in Nat,
         responses'[d][u] = v, NEW t \in Workloads,
         \A x \in Dispatchers, y \in Workloads : x # d \/ y # u => responses'[x][y] = responses[x][y]
  PROVE  /\ t = u => UnderWay(t)' + responses[d][u] = UnderWay(t) + v
         /\ t # u => UnderWay(t)' = UnderWay(t)
<1> DEFINE D == Dispatchers
           f == Answered(t)
           h == Answered(t)'
<1>1. IsFiniteSet(D)
  BY NetworkParts DEF Amounts
<1>2. D' = D
  BY DEF Dispatchers
<1>3. UnderWay(t) = SumFunctionOnSet(f, D) /\ UnderWay(t)' = SumFunctionOnSet(h, D)
  BY <1>2 DEF UnderWay
<1>4. responses \in [D -> [Workloads -> Nat]]
  BY DEF Amounts
<1>5. f = [x \in D |-> responses[x][t]] /\ h = [x \in D |-> responses'[x][t]]
  BY <1>2 DEF Answered
<1>6. f \in [D -> Nat]
  BY <1>4, <1>5
<1> HIDE DEF D, f, h
<1>7. CASE t = u
  <2>1. h[d] = v /\ f[d] = responses[d][u] /\ \A x \in D : x # d => h[x] = f[x]
    BY <1>4, <1>5, <1>7 DEF D
  <2>2. d \in D
    BY DEF D
  <2>3. SumFunctionOnSet(h, D) + f[d] = SumFunctionOnSet(f, D) + h[d]
    BY <1>1, <1>6, <2>1, <2>2, SumExcept
  <2> QED
    BY <1>3, <1>7, <2>1, <2>3
<1>8. CASE t # u
  <2>1. h = f
    BY <1>4, <1>5, <1>8 DEF D
  <2> QED
    BY <1>3, <1>8, <2>1
<1> QED
  BY <1>7, <1>8

LEMMA RoutingInvInit ==
  ASSUME RouteInit
  PROVE  RoutingInv
<1>0. net \in Nets /\ Budget \in Nat /\ 0 \in 0 .. QueueCap
  BY BudgetAssumption DEF RouteInit
<1>1. Amounts
  BY <1>0 DEF RouteInit, Amounts
<1>2. OnTheirWay
  BY DEF RouteInit, OnTheirWay
<1>3. ASSUME NEW t \in Workloads PROVE Conserved(t)
  <2> DEFINE W == Of(net.workload, t)
             S == Of(net.servers, t)
             D == Dispatchers
  <2>1. /\ IsFiniteSet(W) /\ IsFiniteSet(S) /\ IsFiniteSet(D)
        /\ W \in SUBSET Workers /\ S \in SUBSET Servers
    BY <1>0, NetworkParts
  <2>2. /\ \A w \in W : infly_budget[w] = Budget
        /\ \A w \in W : queue[w] = 0
        /\ \A s \in S : pending[s] = 0
        /\ \A d \in D : Answered(t)[d] = 0
        /\ dropped[t] = 0
    <3> HIDE DEF W, S
    <3> QED
      BY <2>1 DEF RouteInit, Answered
  <2> HIDE DEF W, S, D
  <2>3. Cardinality(W) \in Nat /\ Cardinality(S) \in Nat /\ Cardinality(D) \in Nat
    BY <2>1, FS_CardinalityType
  <2>4. SumFunctionOnSet(infly_budget, W) = Budget * Cardinality(W)
    BY <1>0, <2>1, <2>2, SumConstant
  <2>5. SumFunctionOnSet(queue, W) = 0 * Cardinality(W)
    BY <2>1, <2>2, SumConstant
  <2>6. SumFunctionOnSet(pending, S) = 0 * Cardinality(S)
    BY <2>1, <2>2, SumConstant
  <2>7. SumFunctionOnSet(Answered(t), D) = 0 * Cardinality(D)
    BY <2>1, <2>2, SumConstant
  <2>8. Total(t) = Budget * Cardinality(W)
    BY DEF Total, W
  <2>9. Total(t) \in Nat
    BY <1>1, SumTypes
  <2>10. Held(t) = Total(t) /\ Queued(t) = 0 /\ Requested(t) = 0 /\ UnderWay(t) = 0
    BY <2>3, <2>4, <2>5, <2>6, <2>7, <2>8 DEF Held, Queued, Requested, UnderWay, W, S, D
  <2> QED
    BY <2>2, <2>9, <2>10 DEF Conserved
<1> QED
  BY <1>1, <1>2, <1>3, ConservedInParts DEF RoutingInv

\* The network of a step is that of the next.
LEMMA SameNetwork ==
  ASSUME net' = net
  PROVE  /\ Workers' = Workers /\ Servers' = Servers
         /\ Dispatchers' = Dispatchers /\ Workloads' = Workloads
         /\ \A t : Total(t)' = Total(t)
BY DEF Workers, Servers, Dispatchers, Workloads, Total

LEMMA AmountsAfter ==
  ASSUME Amounts, net' = net,
         infly_budget' \in [Workers -> Nat],
         pending' \in [Servers -> 0 .. QueueCap],
         responses' \in [Dispatchers -> [Workloads -> Nat]],
         queue' \in [Workers -> 0 .. QueueCap],
         dropped' \in [Workloads -> Nat],
         tx_idx' \in [Workers \union Servers -> Nat],
         rx_idx' \in [Dispatchers -> Nat]
  PROVE  Amounts'
BY SameNetwork DEF Amounts

LEMMA ConservedInPartsAfter ==
  BudgetsConserved' <=> (\A t \in Workloads : Conserved(t))'
BY ConservedInParts, PTL

LEMMA SumsAreNumbers ==
  Amounts =>
    \A t \in Workloads : Held(t) \in Nat /\ Queued(t) \in Nat /\ Requested(t) \in Nat /\ UnderWay(t) \in Nat
BY SumTypes

LEMMA SumsAreNumbersAfter ==
  (Amounts =>
    \A t \in Workloads : Held(t) \in Nat /\ Queued(t) \in Nat /\ Requested(t) \in Nat /\ UnderWay(t) \in Nat)'
BY SumsAreNumbers, PTL

LEMMA SumTypesAfter ==
  ASSUME Amounts', net' = net, NEW t \in Workloads
  PROVE  Held(t)' \in Nat /\ Queued(t)' \in Nat /\ Requested(t)' \in Nat /\ UnderWay(t)' \in Nat
BY SumsAreNumbersAfter, SameNetwork

LEMMA InvAfter ==
  ASSUME net' = net, Amounts', OnTheirWay', \A t \in Workloads : Conserved(t)'
  PROVE  RoutingInv'
BY SameNetwork, ConservedInPartsAfter DEF RoutingInv

LEMMA IssueStep ==
  ASSUME RoutingInv, NEW w \in Workers, Issue(w)
  PROVE  RoutingInv'
<1> DEFINE u == net.workload[w]
           s == rr_select(net.remotes[w], tx_idx[w])
           taken == Taken(pending[s], AppTxBatch)
           turn == Onward(tx_idx[w], Len(net.remotes[w]))
<1>0. Amounts /\ OnTheirWay /\ (\A t \in Workloads : Conserved(t)) /\ AppTxBatch \in Nat
  BY ConservedInParts, BudgetAssumption DEF RoutingInv
<1>1. s \in Servers /\ net.servers[s] = u /\ turn \in Nat /\ u \in Workloads
  BY <1>0, RequestRoute, NetworkParts DEF Amounts
<1>2. /\ infly_budget[w] >= AppTxBatch
      /\ infly_budget' = [infly_budget EXCEPT ![w] = infly_budget[w] - AppTxBatch]
      /\ pending' = [pending EXCEPT ![s] = pending[s] + taken]
      /\ dropped' = [dropped EXCEPT ![u] = dropped[u] + (AppTxBatch - taken)]
      /\ tx_idx' = [tx_idx EXCEPT ![w] = turn]
      /\ net' = net /\ responses' = responses /\ queue' = queue /\ rx_idx' = rx_idx
  BY DEF Issue
<1>fixed. net' = net
  BY <1>2
<1> HIDE DEF u, s, taken, turn
<1>3. infly_budget[w] \in Nat /\ pending[s] \in 0 .. QueueCap /\ dropped[u] \in Nat
  BY <1>0, <1>1 DEF Amounts
<1>4. /\ taken \in 0 .. AppTxBatch /\ pending[s] + taken \in 0 .. QueueCap
      /\ pending[s] + AppTxBatch <= QueueCap => taken = AppTxBatch
  BY <1>0, <1>3, TakenBounds DEF taken
<1>5. infly_budget[w] - AppTxBatch \in Nat /\ dropped[u] + (AppTxBatch - taken) \in Nat
      /\ pending[s] + taken \in Nat
  BY <1>0, <1>2, <1>3, <1>4
<1>6. /\ infly_budget'[w] = infly_budget[w] - AppTxBatch
      /\ \A x \in Workers : x # w => infly_budget'[x] = infly_budget[x]
      /\ pending'[s] = pending[s] + taken
      /\ \A x \in Servers : x # s => pending'[x] = pending[x]
  BY <1>0, <1>1, <1>2 DEF Amounts
<1>7. Amounts'
  <2>1. infly_budget' \in [Workers -> Nat]
    BY <1>0, <1>2, <1>5 DEF Amounts
  <2>2. pending' \in [Servers -> 0 .. QueueCap]
    BY <1>0, <1>2, <1>4 DEF Amounts
  <2>3. dropped' \in [Workloads -> Nat]
    BY <1>0, <1>2, <1>5 DEF Amounts
  <2>4. tx_idx' \in [Workers \union Servers -> Nat]
    BY <1>0, <1>1, <1>2 DEF Amounts
  <2>5. /\ responses' \in [Dispatchers -> [Workloads -> Nat]]
        /\ queue' \in [Workers -> 0 .. QueueCap]
        /\ rx_idx' \in [Dispatchers -> Nat]
    BY <1>0, <1>2 DEF Amounts
  <2> QED
    BY <1>0, <1>2, <2>1, <2>2, <2>3, <2>4, <2>5, AmountsAfter
<1>8. OnTheirWay'
  <2>1. ASSUME NEW x \in Servers, pending'[x] > 0 PROVE net.servers[x] \in Workloads
    BY <1>0, <1>1, <1>6, <2>1 DEF OnTheirWay
  <2> QED
    BY <1>0, <1>2, <2>1, SameNetwork DEF OnTheirWay
<1>9. ASSUME NEW t \in Workloads PROVE Conserved(t)'
  <2>1. Queued(t)' = Queued(t) /\ UnderWay(t)' = UnderWay(t) /\ Total(t)' = Total(t)
    BY <1>2, SameNetwork DEF Queued, UnderWay, Answered
  <2>2. /\ t = u => Held(t)' + infly_budget[w] = Held(t) + (infly_budget[w] - AppTxBatch)
        /\ t # u => Held(t)' = Held(t)
    BY <1>0, <1>fixed, <1>5, <1>6, HeldChanges DEF u
  <2>3. /\ t = u => Requested(t)' + pending[s] = Requested(t) + (pending[s] + taken)
        /\ t # u => Requested(t)' = Requested(t)
    BY <1>0, <1>fixed, <1>1, <1>5, <1>6, RequestedChanges
  <2>4. /\ t = u => dropped'[t] = dropped[t] + (AppTxBatch - taken)
        /\ t # u => dropped'[t] = dropped[t]
    BY <1>0, <1>2 DEF Amounts
  <2>5. /\ Held(t) \in Nat /\ Queued(t) \in Nat /\ Requested(t) \in Nat /\ UnderWay(t) \in Nat
        /\ dropped[t] \in Nat /\ Total(t) \in Nat
    BY <1>0, SumTypes
  <2>6. t = u => infly_budget[w] <= Held(t) /\ pending[s] <= Requested(t)
    BY <1>0, <1>1, PartOfSum DEF u
  <2>7. Held(t) + Queued(t) + Requested(t) + UnderWay(t) + dropped[t] = Total(t)
        /\ (Total(t) <= QueueCap => dropped[t] = 0)
    BY <1>0 DEF Conserved
  <2>8. Held(t)' \in Int /\ Requested(t)' \in Int
    BY <1>2, <1>7, SumTypesAfter
  <2>9. Held(t)' + Queued(t)' + Requested(t)' + UnderWay(t)' + dropped'[t] = Total(t)'
    <3>1. CASE t = u
      <4>1. Held(t)' = Held(t) - AppTxBatch
        BY <1>3, <2>2, <2>5, <2>8, <3>1, BudgetAssumption
      <4>2. Requested(t)' = Requested(t) + taken
        BY <1>3, <1>4, <2>3, <2>5, <2>8, <3>1, BudgetAssumption
      <4>3. dropped'[t] = dropped[t] + (AppTxBatch - taken) /\ taken \in Nat
        BY <1>4, <2>4, <3>1, BudgetAssumption
      <4> QED
        BY <2>1, <2>5, <2>7, <4>1, <4>2, <4>3, BudgetAssumption
    <3>2. CASE t # u
      BY <2>1, <2>2, <2>3, <2>4, <2>7, <3>2
    <3> QED
      BY <3>1, <3>2
  <2>10. Total(t)' <= QueueCap => dropped'[t] = 0
    <3>1. CASE t = u
      BY <1>0, <1>2, <1>3, <1>4, <2>1, <2>4, <2>5, <2>6, <2>7, <3>1, BudgetAssumption
    <3>2. CASE t # u
      BY <2>1, <2>4, <2>7, <3>2
    <3> QED
      BY <3>1, <3>2
  <2> QED
    BY <2>9, <2>10 DEF Conserved
<1> QED
  BY <1>2, <1>7, <1>8, <1>9, InvAfter

LEMMA RespondStep ==
  ASSUME RoutingInv, NEW s \in Servers, Respond(s)
  PROVE  RoutingInv'
<1> DEFINE u == net.servers[s]
           d == rr_select(net.responseRoutes[s], tx_idx[s])
           turn == Onward(tx_idx[s], Len(net.responseRoutes[s]))
<1>0. Amounts /\ OnTheirWay /\ (\A t \in Workloads : Conserved(t))
  BY ConservedInParts DEF RoutingInv
<1>1. d \in Dispatchers /\ u \in DOMAIN net.rxRoutes[d] /\ turn \in Nat
  BY <1>0, ResponseRoute
<1>2. /\ pending[s] >= net.rxBatch["server"]
      /\ pending' = [pending EXCEPT ![s] = 0]
      /\ responses' = [responses EXCEPT ![d][u] = responses[d][u] + pending[s]]
      /\ tx_idx' = [tx_idx EXCEPT ![s] = turn]
      /\ net' = net /\ infly_budget' = infly_budget /\ queue' = queue /\ dropped' = dropped /\ rx_idx' = rx_idx
  BY DEF Respond
<1>some. pending[s] > 0
  <2>1. net.rxBatch["server"] \in Nat \ {0} /\ pending[s] \in Nat
    BY <1>0, RoutingAssumption DEF Amounts, WholeNet
  <2> QED
    BY <1>2, <2>1
<1>3. u \in Workloads
  BY <1>0, <1>some DEF OnTheirWay
<1>fixed. net' = net
  BY <1>2
<1> HIDE DEF u, d, turn
<1>4. pending[s] \in Nat /\ responses[d][u] \in Nat /\ responses[d][u] + pending[s] \in Nat
      /\ 0 \in Nat /\ 0 \in 0 .. QueueCap
  BY <1>0, <1>1, <1>3, BudgetAssumption DEF Amounts
<1>5. /\ responses' \in [Dispatchers -> [Workloads -> Nat]]
      /\ responses'[d][u] = responses[d][u] + pending[s]
      /\ \A x \in Dispatchers, t \in Workloads :
           x # d \/ t # u => responses'[x][t] = responses[x][t]
  BY <1>0, <1>1, <1>2, <1>3, <1>4 DEF Amounts
<1>6. pending' \in [Servers -> 0 .. QueueCap] /\ pending'[s] = 0
      /\ \A x \in Servers : x # s => pending'[x] = pending[x]
  BY <1>0, <1>2, <1>4 DEF Amounts
<1>7. Amounts'
  <2>1. tx_idx' \in [Workers \union Servers -> Nat]
    BY <1>0, <1>1, <1>2 DEF Amounts
  <2>2. /\ infly_budget' \in [Workers -> Nat] /\ queue' \in [Workers -> 0 .. QueueCap]
        /\ dropped' \in [Workloads -> Nat] /\ rx_idx' \in [Dispatchers -> Nat]
    BY <1>0, <1>2 DEF Amounts
  <2> QED
    BY <1>0, <1>2, <1>5, <1>6, <2>1, <2>2, AmountsAfter
<1>8. OnTheirWay'
  <2>1. ASSUME NEW x \in Servers, pending'[x] > 0 PROVE net.servers[x] \in Workloads
    BY <1>0, <1>6, <2>1 DEF OnTheirWay
  <2>2. ASSUME NEW x \in Dispatchers, NEW t \in Workloads, responses'[x][t] > 0
        PROVE  t \in DOMAIN net.rxRoutes[x]
    <3>1. CASE x = d /\ t = u
      BY <1>1, <3>1
    <3>2. CASE x # d \/ t # u
      BY <1>0, <1>5, <2>2, <3>2 DEF OnTheirWay
    <3> QED
      BY <3>1, <3>2
  <2> QED
    BY <1>2, <2>1, <2>2, SameNetwork DEF OnTheirWay
<1>9. ASSUME NEW t \in Workloads PROVE Conserved(t)'
  <2>1. Held(t)' = Held(t) /\ Queued(t)' = Queued(t) /\ Total(t)' = Total(t)
        /\ dropped'[t] = dropped[t]
    BY <1>2, SameNetwork DEF Held, Queued
  <2>2. /\ t = u => Requested(t)' + pending[s] = Requested(t) + 0
        /\ t # u => Requested(t)' = Requested(t)
    BY <1>0, <1>fixed, <1>4, <1>6, RequestedChanges DEF u
  <2>3. /\ t = u => UnderWay(t)' + responses[d][u] = UnderWay(t) + (responses[d][u] + pending[s])
        /\ t # u => UnderWay(t)' = UnderWay(t)
    BY <1>0, <1>fixed, <1>1, <1>3, <1>4, <1>5, UnderWayChanges
  <2>4. /\ Held(t) \in Nat /\ Queued(t) \in Nat /\ Requested(t) \in Nat /\ UnderWay(t) \in Nat
        /\ dropped[t] \in Nat /\ Total(t) \in Nat
    BY <1>0, SumTypes
  <2>5. Requested(t)' \in Nat /\ UnderWay(t)' \in Nat
    BY <1>2, <1>7, SumTypesAfter
  <2>6. Held(t) + Queued(t) + Requested(t) + UnderWay(t) + dropped[t] = Total(t)
        /\ (Total(t) <= QueueCap => dropped[t] = 0)
    BY <1>0 DEF Conserved
  <2>7. Held(t)' + Queued(t)' + Requested(t)' + UnderWay(t)' + dropped'[t] = Total(t)'
    <3>1. CASE t = u
      BY <1>4, <2>1, <2>2, <2>3, <2>4, <2>5, <2>6, <3>1
    <3>2. CASE t # u
      BY <2>1, <2>2, <2>3, <2>6, <3>2
    <3> QED
      BY <3>1, <3>2
  <2> QED
    BY <2>1, <2>6, <2>7 DEF Conserved
<1> QED
  BY <1>2, <1>7, <1>8, <1>9, InvAfter

LEMMA DispatchStep ==
  ASSUME RoutingInv, NEW d \in Dispatchers, NEW u \in Workloads,
         Dispatch(d, u)
  PROVE  RoutingInv'
<1> DEFINE w == rr_select(net.rxRoutes[d][u], rx_idx[d])
           taken == Taken(queue[w], 1)
           turn == Onward(rx_idx[d], RxPeriod(d))
<1>0. Amounts /\ OnTheirWay /\ (\A t \in Workloads : Conserved(t))
  BY ConservedInParts DEF RoutingInv
<1>1. /\ responses[d][u] > 0
      /\ responses' = [responses EXCEPT ![d][u] = responses[d][u] - 1]
      /\ queue' = [queue EXCEPT ![w] = queue[w] + taken]
      /\ dropped' = [dropped EXCEPT ![u] = dropped[u] + (1 - taken)]
      /\ rx_idx' = [rx_idx EXCEPT ![d] = turn]
      /\ net' = net /\ infly_budget' = infly_budget /\ pending' = pending /\ tx_idx' = tx_idx
  BY DEF Dispatch
<1>2. u \in DOMAIN net.rxRoutes[d]
  BY <1>0, <1>1 DEF OnTheirWay
<1>3. w \in Workers /\ net.workload[w] = u /\ turn \in Nat
  BY <1>0, <1>2, WorkerRoute
<1>fixed. net' = net
  BY <1>1
<1> HIDE DEF w, taken, turn
<1>4. responses[d][u] \in Nat /\ queue[w] \in 0 .. QueueCap /\ dropped[u] \in Nat
  BY <1>0, <1>3 DEF Amounts
<1>5. /\ taken \in 0 .. 1 /\ queue[w] + taken \in 0 .. QueueCap
      /\ queue[w] + 1 <= QueueCap => taken = 1
  BY <1>4, TakenBounds DEF taken
<1>6. responses[d][u] - 1 \in Nat /\ dropped[u] + (1 - taken) \in Nat /\ queue[w] + taken \in Nat
  BY <1>1, <1>4, <1>5
<1>7. /\ responses' \in [Dispatchers -> [Workloads -> Nat]]
      /\ responses'[d][u] = responses[d][u] - 1
      /\ \A x \in Dispatchers, t \in Workloads :
           x # d \/ t # u => responses'[x][t] = responses[x][t]
  BY <1>0, <1>1, <1>6 DEF Amounts
<1>8. queue'[w] = queue[w] + taken /\ \A x \in Workers : x # w => queue'[x] = queue[x]
  BY <1>0, <1>1, <1>3 DEF Amounts
<1>9. Amounts'
  <2>1. queue' \in [Workers -> 0 .. QueueCap]
    BY <1>0, <1>1, <1>5 DEF Amounts
  <2>2. dropped' \in [Workloads -> Nat]
    BY <1>0, <1>1, <1>6 DEF Amounts
  <2>3. rx_idx' \in [Dispatchers -> Nat]
    BY <1>0, <1>1, <1>3 DEF Amounts
  <2>4. /\ infly_budget' \in [Workers -> Nat] /\ pending' \in [Servers -> 0 .. QueueCap]
        /\ tx_idx' \in [Workers \union Servers -> Nat]
    BY <1>0, <1>1 DEF Amounts
  <2> QED
    BY <1>0, <1>1, <1>7, <2>1, <2>2, <2>3, <2>4, AmountsAfter
<1>10. OnTheirWay'
  <2>1. ASSUME NEW x \in Dispatchers, NEW t \in Workloads, responses'[x][t] > 0
        PROVE  t \in DOMAIN net.rxRoutes[x]
    <3>1. CASE x = d /\ t = u
      BY <1>2, <3>1
    <3>2. CASE x # d \/ t # u
      BY <1>0, <1>7, <2>1, <3>2 DEF OnTheirWay
    <3> QED
      BY <3>1, <3>2
  <2> QED
    BY <1>0, <1>1, <2>1, SameNetwork DEF OnTheirWay
<1>11. ASSUME NEW t \in Workloads PROVE Conserved(t)'
  <2>1. Held(t)' = Held(t) /\ Requested(t)' = Requested(t) /\ Total(t)' = Total(t)
    BY <1>1, SameNetwork DEF Held, Requested
  <2>2. /\ t = u => Queued(t)' + queue[w] = Queued(t) + (queue[w] + taken)
        /\ t # u => Queued(t)' = Queued(t)
    BY <1>0, <1>fixed, <1>3, <1>6, <1>8, QueuedChanges
  <2>3. /\ t = u => UnderWay(t)' + responses[d][u] = UnderWay(t) + (responses[d][u] - 1)
        /\ t # u => UnderWay(t)' = UnderWay(t)
    BY <1>0, <1>fixed, <1>6, <1>7, UnderWayChanges
  <2>4. /\ t = u => dropped'[t] = dropped[t] + (1 - taken)
        /\ t # u => dropped'[t] = dropped[t]
    BY <1>0, <1>1 DEF Amounts
  <2>5. /\ Held(t) \in Nat /\ Queued(t) \in Nat /\ Requested(t) \in Nat /\ UnderWay(t) \in Nat
        /\ dropped[t] \in Nat /\ Total(t) \in Nat
    BY <1>0, SumTypes
  <2>6. t = u => queue[w] <= Queued(t) /\ responses[d][u] <= UnderWay(t)
    BY <1>0, <1>3, PartOfSum
  <2>7. Held(t) + Queued(t) + Requested(t) + UnderWay(t) + dropped[t] = Total(t)
        /\ (Total(t) <= QueueCap => dropped[t] = 0)
    BY <1>0 DEF Conserved
  <2>8. Queued(t)' \in Nat /\ UnderWay(t)' \in Nat
    BY <1>fixed, <1>9, SumTypesAfter
  <2>9. Held(t)' + Queued(t)' + Requested(t)' + UnderWay(t)' + dropped'[t] = Total(t)'
    <3>1. CASE t = u
      BY <1>4, <1>5, <2>1, <2>2, <2>3, <2>4, <2>5, <2>7, <2>8, <3>1
    <3>2. CASE t # u
      BY <2>1, <2>2, <2>3, <2>4, <2>7, <3>2
    <3> QED
      BY <3>1, <3>2
  <2>10. Total(t)' <= QueueCap => dropped'[t] = 0
    <3>1. CASE t = u
      BY <1>1, <1>4, <1>5, <2>1, <2>4, <2>5, <2>6, <2>7, <3>1, BudgetAssumption
    <3>2. CASE t # u
      BY <2>1, <2>4, <2>7, <3>2
    <3> QED
      BY <3>1, <3>2
  <2> QED
    BY <2>9, <2>10 DEF Conserved
<1> QED
  BY <1>1, <1>9, <1>10, <1>11, InvAfter

LEMMA HandleStep ==
  ASSUME RoutingInv, NEW w \in Workers, Handle(w)
  PROVE  RoutingInv'
<1> DEFINE u == net.workload[w]
<1>0. Amounts /\ OnTheirWay /\ (\A t \in Workloads : Conserved(t))
  BY ConservedInParts DEF RoutingInv
<1>1. /\ infly_budget' = [infly_budget EXCEPT ![w] = infly_budget[w] + queue[w]]
      /\ queue' = [queue EXCEPT ![w] = 0]
      /\ net' = net /\ pending' = pending /\ responses' = responses /\ dropped' = dropped
      /\ tx_idx' = tx_idx /\ rx_idx' = rx_idx
  BY DEF Handle, Returned
<1>2. infly_budget[w] \in Nat /\ queue[w] \in Nat /\ infly_budget[w] + queue[w] \in Nat
      /\ 0 \in Nat /\ 0 \in 0 .. QueueCap
  BY <1>0, BudgetAssumption DEF Amounts
<1>3. /\ infly_budget'[w] = infly_budget[w] + queue[w] /\ queue'[w] = 0
      /\ \A x \in Workers : x # w => infly_budget'[x] = infly_budget[x] /\ queue'[x] = queue[x]
  BY <1>0, <1>1 DEF Amounts
<1>4. net' = net
  BY <1>1
<1>5. Amounts'
  <2>1. infly_budget' \in [Workers -> Nat]
    BY <1>0, <1>1, <1>2 DEF Amounts
  <2>2. queue' \in [Workers -> 0 .. QueueCap]
    BY <1>0, <1>1, <1>2 DEF Amounts
  <2>3. /\ pending' \in [Servers -> 0 .. QueueCap]
        /\ responses' \in [Dispatchers -> [Workloads -> Nat]]
        /\ dropped' \in [Workloads -> Nat]
        /\ tx_idx' \in [Workers \union Servers -> Nat]
        /\ rx_idx' \in [Dispatchers -> Nat]
    BY <1>0, <1>1 DEF Amounts
  <2> QED
    BY <1>0, <1>1, <2>1, <2>2, <2>3, AmountsAfter
<1>6. OnTheirWay'
  BY <1>0, <1>1, SameNetwork DEF OnTheirWay
<1>7. ASSUME NEW t \in Workloads PROVE Conserved(t)'
  <2>1. /\ Requested(t)' = Requested(t) /\ UnderWay(t)' = UnderWay(t)
        /\ Total(t)' = Total(t) /\ dropped'[t] = dropped[t]
    BY <1>1, SameNetwork DEF Requested, UnderWay, Answered
  <2>2. /\ t = u => Held(t)' + infly_budget[w] = Held(t) + (infly_budget[w] + queue[w])
        /\ t # u => Held(t)' = Held(t)
    BY <1>0, <1>2, <1>3, <1>4, HeldChanges
  <2>3. /\ t = u => Queued(t)' + queue[w] = Queued(t) + 0
        /\ t # u => Queued(t)' = Queued(t)
    BY <1>0, <1>2, <1>3, <1>4, QueuedChanges
  <2>4. /\ Held(t) \in Nat /\ Queued(t) \in Nat /\ Requested(t) \in Nat /\ UnderWay(t) \in Nat
        /\ dropped[t] \in Nat /\ Total(t) \in Nat
    BY <1>0, SumTypes
  <2>5. Held(t)' \in Nat /\ Queued(t)' \in Nat
    BY <1>4, <1>5, SumTypesAfter
  <2>6. Held(t) + Queued(t) + Requested(t) + UnderWay(t) + dropped[t] = Total(t)
        /\ (Total(t) <= QueueCap => dropped[t] = 0)
    BY <1>0 DEF Conserved
  <2>7. Held(t)' + Queued(t)' + Requested(t)' + UnderWay(t)' + dropped'[t] = Total(t)'
    <3>1. CASE t = u
      BY <1>2, <2>1, <2>2, <2>3, <2>4, <2>5, <2>6, <3>1
    <3>2. CASE t # u
      BY <2>1, <2>2, <2>3, <2>6, <3>2
    <3> QED
      BY <3>1, <3>2
  <2> QED
    BY <2>1, <2>6, <2>7 DEF Conserved
<1> QED
  BY <1>4, <1>5, <1>6, <1>7, InvAfter

LEMMA RoutingInvStep ==
  ASSUME RoutingInv, [RouteNext]_routeVars
  PROVE  RoutingInv'
<1>1. CASE UNCHANGED routeVars
  <2>1. /\ net' = net /\ infly_budget' = infly_budget /\ pending' = pending /\ responses' = responses
        /\ queue' = queue /\ dropped' = dropped /\ tx_idx' = tx_idx /\ rx_idx' = rx_idx
    BY <1>1 DEF routeVars
  <2>2. Amounts /\ OnTheirWay /\ (\A t \in Workloads : Conserved(t))
    BY ConservedInParts DEF RoutingInv
  <2>3. Amounts' /\ OnTheirWay'
    BY <2>1, <2>2, SameNetwork DEF Amounts, OnTheirWay
  <2>4. ASSUME NEW t \in Workloads PROVE Conserved(t)'
    <3>1. Conserved(t)
      BY <2>2
    <3>2. /\ Held(t)' = Held(t) /\ Queued(t)' = Queued(t) /\ Requested(t)' = Requested(t)
          /\ UnderWay(t)' = UnderWay(t) /\ dropped'[t] = dropped[t] /\ Total(t)' = Total(t)
      BY <2>1, SameNetwork DEF Held, Queued, Requested, UnderWay, Answered
    <3> QED
      BY <3>1, <3>2 DEF Conserved
  <2> QED
    BY <2>1, <2>3, <2>4, InvAfter
<1>2. CASE \E w \in Workers : Issue(w)
  BY <1>2, IssueStep
<1>3. CASE \E w \in Workers : Handle(w)
  BY <1>3, HandleStep
<1>4. CASE \E s \in Servers : Respond(s)
  BY <1>4, RespondStep
<1>5. CASE \E d \in Dispatchers, t \in Workloads : Dispatch(d, t)
  BY <1>5, DispatchStep
<1> QED
  BY <1>1, <1>2, <1>3, <1>4, <1>5 DEF RouteNext

\* On every network whose tables are whole, with any number of workers, server
\* workers, dispatchers, workloads and routes: budgets wander but their sum stays,
\* and nothing is dropped where a queue holds the budgets of its workload
\* (rule_table.h:24-40, workspace.h:103-109, 353-359).
THEOREM BudgetsConservedAlways == RouteSpec => []BudgetsConserved
<1>1. RouteInit => RoutingInv
  BY RoutingInvInit
<1>2. RoutingInv /\ [RouteNext]_routeVars => RoutingInv'
  BY RoutingInvStep
<1>3. RoutingInv => BudgetsConserved
  BY DEF RoutingInv
<1> QED
  BY <1>1, <1>2, <1>3, PTL DEF RouteSpec

=================================================================================
