----------------------------- MODULE InflyPipeline -----------------------------
(***************************************************************************)
(* The closed loop between a client workspace and the server workspace of   *)
(* the same workload, over the RoCE dispatcher: requests are issued against *)
(* an in-flight budget, travel through queues, rings and the network, are   *)
(* answered in the same buffer, and the response returns the budget.        *)
(*                                                                          *)
(* Each phase function of the event loop (src/src/workspace.h) is one       *)
(* action.  A message is one packet, as it is for the message handlers      *)
(* whose payload fits the MTU (common.h:108-129), so counts of packets are  *)
(* all the phases look at.  The two sides run the same dispatcher code:     *)
(*                                                                          *)
(*   worker --wsTx--> [CollectTx] --txRing--> [NicTx] --wire--> peer        *)
(*   worker <--wsRx-- [DispatchRx] <--waiting-- [NicRx] <--recvCq-- NIC     *)
(*                                                                          *)
(* Phases wait for a batch before they act (AppTxBatch, AppRxBatch,         *)
(* DispTxBatch), so packets can rest below a threshold.                     *)
(***************************************************************************)
EXTENDS Integers, BudgetSizes

CONSTANTS
  AppRxBatch,    \* kAppRxMsgBatchSize of each side
  DispTxBatch,   \* kDispTxBatchSize of each side
  DispRxBatch,   \* kDispRxBatchSize of each side
  TxRingSize,    \* kNumTxRingEntries: tx_queue_ and the send queue, kSQDepth
  RxRingSize     \* kNumRxRingEntries: rx_ring_ and the receive queue, kRQDepth

Side == {"client", "server"}
Peer(s) == IF s = "client" THEN "server" ELSE "client"

ASSUME BatchAssumption ==
  /\ AppRxBatch \in [Side -> Nat \ {0}]
  /\ DispTxBatch \in [Side -> Nat \ {0}]
  /\ DispRxBatch \in [Side -> Nat \ {0}]

\* The run-time assertions of the constructor (workspace.cc:40-50).
ASSUME SizeAssumption ==
  /\ \A s \in Side : Budget >= AppRxBatch[s]
  /\ TxRingSize \in Nat \ {0}
  /\ \A s \in Side : TxRingSize >= DispTxBatch[s]
  /\ RxRingSize \in Nat \ {0}

VARIABLES
  budget,        \* infly_budget of the client's tx rule table
  infly_flag_,   \* whether apply_mbufs got budget for the next batch
  wsTx,          \* packets in the worker's tx queue, per side
  txRing,        \* tx_queue_idx_: packets collected by the dispatcher
  flushing,      \* the dispatcher is inside tx_flush
  free_send_wr_num_,
  wire,          \* posted sends whose packet has not reached the peer
  sendCq,        \* send completions not yet polled
  posted,        \* receive buffers the NIC may fill
  recvCq,        \* receive completions not yet polled
  waiting,       \* wait_for_disp_
  wsRx,          \* packets in the worker's rx queue
  freed,         \* receive buffers in state kFREE_BUF, to be posted again
  lost           \* messages dropped at a full workspace queue

vars == <<budget, infly_flag_, wsTx, txRing, flushing, free_send_wr_num_, wire,
          sendCq, posted, recvCq, waiting, wsRx, freed, lost>>

Zero == [s \in Side |-> 0]

Init ==
  /\ budget = Budget
  /\ infly_flag_ = FALSE
  /\ wsTx = Zero
  /\ txRing = Zero
  /\ flushing = [s \in Side |-> FALSE]
  /\ free_send_wr_num_ = [s \in Side |-> TxRingSize]
  /\ wire = Zero
  /\ sendCq = Zero
  /\ posted = [s \in Side |-> RxRingSize]
  /\ recvCq = Zero
  /\ waiting = Zero
  /\ wsRx = Zero
  /\ freed = Zero
  /\ lost = 0

Lesser(m, n) == IF m <= n THEN m ELSE n

-----------------------------------------------------------------------------
(* Application phases *)

\* Faulty ApplyMbufs, for mutants: the budget is looked at but not taken.
ApplyWithoutTaking ==
  /\ ~infly_flag_
  /\ budget >= AppTxBatch
  /\ infly_flag_' = TRUE
  /\ UNCHANGED <<budget, wsTx, txRing, flushing, free_send_wr_num_, wire, sendCq,
                 posted, recvCq, waiting, wsRx, freed, lost>>

\* apply_mbufs: take a batch's worth of budget, or note that there is none.
\* generate_pkts always runs between two calls, so the flag is down again.
ApplyMbufs ==
  /\ ~infly_flag_
  /\ budget >= AppTxBatch
  /\ budget' = budget - AppTxBatch
  /\ infly_flag_' = TRUE
  /\ UNCHANGED <<wsTx, txRing, flushing, free_send_wr_num_, wire, sendCq,
                 posted, recvCq, waiting, wsRx, freed, lost>>

\* generate_pkts: enqueue the batch; what finds the queue full is dropped and
\* its budget is not returned.
GeneratePkts ==
  /\ infly_flag_
  /\ LET n == Lesser(AppTxBatch, QueueCap - wsTx["client"])
     IN  /\ wsTx' = [wsTx EXCEPT !["client"] = @ + n]
         /\ lost' = lost + (AppTxBatch - n)
  /\ infly_flag_' = FALSE
  /\ UNCHANGED <<budget, txRing, flushing, free_send_wr_num_, wire, sendCq,
                 posted, recvCq, waiting, wsRx, freed>>

\* Faulty ClientHandler, for mutants: takes all responses but accounts for one
\* batch of them.
ClientHandlerOneBatch ==
  /\ wsRx["client"] >= AppRxBatch["client"]
  /\ budget' = budget + AppRxBatch["client"]
  /\ freed' = [freed EXCEPT !["client"] = @ + AppRxBatch["client"]]
  /\ wsRx' = [wsRx EXCEPT !["client"] = 0]
  /\ UNCHANGED <<infly_flag_, wsTx, txRing, flushing, free_send_wr_num_, wire,
                 sendCq, posted, recvCq, waiting, lost>>

\* app_handler and msg_handler_client: with a batch of responses at hand, take
\* all of them, return their budget and free their receive buffers.
ClientHandler ==
  /\ wsRx["client"] >= AppRxBatch["client"]
  /\ budget' = budget + wsRx["client"]
  /\ freed' = [freed EXCEPT !["client"] = @ + wsRx["client"]]
  /\ wsRx' = [wsRx EXCEPT !["client"] = 0]
  /\ UNCHANGED <<infly_flag_, wsTx, txRing, flushing, free_send_wr_num_, wire,
                 sendCq, posted, recvCq, waiting, lost>>

\* app_handler and msg_handler_server without ApplyNewMbuf: each request buffer
\* becomes the response and is enqueued, or freed when the queue is full.
ServerHandler ==
  /\ wsRx["server"] >= AppRxBatch["server"]
  /\ LET n == Lesser(wsRx["server"], QueueCap - wsTx["server"])
         dropped == wsRx["server"] - n
     IN  /\ wsTx' = [wsTx EXCEPT !["server"] = @ + n]
         /\ freed' = [freed EXCEPT !["server"] = @ + dropped]
         /\ lost' = lost + dropped
  /\ wsRx' = [wsRx EXCEPT !["server"] = 0]
  /\ UNCHANGED <<budget, infly_flag_, txRing, flushing, free_send_wr_num_, wire,
                 sendCq, posted, recvCq, waiting>>

-----------------------------------------------------------------------------
(* Dispatcher phases; a dispatcher inside tx_flush does nothing else *)

\* collect_tx_pkts: as much of the worker's queue as the ring has room for.
CollectTx(s) ==
  LET n == Lesser(wsTx[s], TxRingSize - txRing[s])
  IN  /\ ~flushing[s]
      /\ n > 0
      /\ wsTx' = [wsTx EXCEPT ![s] = @ - n]
      /\ txRing' = [txRing EXCEPT ![s] = @ + n]
      /\ UNCHANGED <<budget, infly_flag_, flushing, free_send_wr_num_, wire,
                     sendCq, posted, recvCq, waiting, wsRx, freed, lost>>

\* Faulty NicTx, for a mutant: reaped work requests are not counted as free.
NicTxForgetsReaped(s) ==
  LET n == Lesser(txRing[s], free_send_wr_num_[s])
  IN  /\ flushing[s] \/ txRing[s] >= DispTxBatch[s]
      /\ txRing' = [txRing EXCEPT ![s] = @ - n]
      /\ flushing' = [flushing EXCEPT ![s] = n < txRing[s]]
      /\ sendCq' = [sendCq EXCEPT ![s] = 0]
      /\ free_send_wr_num_' = [free_send_wr_num_ EXCEPT ![s] = @ - n]
      /\ wire' = [wire EXCEPT ![s] = @ + n]
      /\ freed' = [freed EXCEPT !["server"] = IF s = "server" THEN @ + sendCq[s] ELSE @]
      /\ UNCHANGED <<budget, infly_flag_, wsTx, posted, recvCq, waiting, wsRx, lost>>

\* nic_tx enters tx_flush with a batch in the ring and stays until all of it
\* is posted; each round is one tx_burst: reap the send completions, then post
\* as many packets as there are free work requests.  A server's completed
\* buffer is a receive buffer and becomes free; a client's goes back to the
\* allocator.
NicTx(s) ==
  LET reaped == sendCq[s]
      n == Lesser(txRing[s], free_send_wr_num_[s] + reaped)
  IN  /\ flushing[s] \/ txRing[s] >= DispTxBatch[s]
      /\ txRing' = [txRing EXCEPT ![s] = @ - n]
      /\ flushing' = [flushing EXCEPT ![s] = n < txRing[s]]
      /\ sendCq' = [sendCq EXCEPT ![s] = 0]
      /\ free_send_wr_num_' = [free_send_wr_num_ EXCEPT ![s] = @ + reaped - n]
      /\ wire' = [wire EXCEPT ![s] = @ + n]
      /\ freed' = [freed EXCEPT !["server"] = IF s = "server" THEN @ + reaped ELSE @]
      /\ UNCHANGED <<budget, infly_flag_, wsTx, posted, recvCq, waiting, wsRx, lost>>

\* Faulty Repostable, for a mutant: rx_burst posts nothing.
NothingReposted(s) == {0}

\* The buffers that rx_burst finds free from recv_head_ on.  They are freed in
\* ring order unless a full queue made one free early.
Repostable(s) == IF lost = 0 THEN {freed[s]} ELSE 0 .. freed[s]

\* nic_rx: rx_burst posts the freed buffers again, then polls for at most
\* DispRxBatch completions.
NicRx(s) ==
  LET n == Lesser(recvCq[s], DispRxBatch[s])
  IN  \E k \in Repostable(s) :
      /\ ~flushing[s]
      /\ k + n > 0
      /\ posted' = [posted EXCEPT ![s] = @ + k]
      /\ freed' = [freed EXCEPT ![s] = @ - k]
      /\ recvCq' = [recvCq EXCEPT ![s] = @ - n]
      /\ waiting' = [waiting EXCEPT ![s] = @ + n]
      /\ UNCHANGED <<budget, infly_flag_, wsTx, txRing, flushing, free_send_wr_num_,
                     wire, sendCq, wsRx, lost>>

\* bursted_rx: dispatch_rx_pkts hands every waiting packet to the worker, or
\* drops and frees it when the worker's queue is full.
DispatchRx(s) ==
  LET n == Lesser(waiting[s], QueueCap - wsRx[s])
      dropped == waiting[s] - n
  IN  /\ ~flushing[s]
      /\ waiting[s] > 0
      /\ wsRx' = [wsRx EXCEPT ![s] = @ + n]
      /\ freed' = [freed EXCEPT ![s] = @ + dropped]
      /\ lost' = lost + dropped
      /\ waiting' = [waiting EXCEPT ![s] = 0]
      /\ UNCHANGED <<budget, infly_flag_, wsTx, txRing, flushing, free_send_wr_num_,
                     wire, sendCq, posted, recvCq>>

-----------------------------------------------------------------------------
(* The network: a reliable connection delivers in order and, with rnr_retry  *)
(* 7, retries for as long as the peer has no receive buffer posted.          *)
Deliver(s) ==
  LET p == Peer(s)
  IN  /\ wire[s] > 0
      /\ posted[p] > 0
      /\ wire' = [wire EXCEPT ![s] = @ - 1]
      /\ sendCq' = [sendCq EXCEPT ![s] = @ + 1]
      /\ posted' = [posted EXCEPT ![p] = @ - 1]
      /\ recvCq' = [recvCq EXCEPT ![p] = @ + 1]
      /\ UNCHANGED <<budget, infly_flag_, wsTx, txRing, flushing, free_send_wr_num_,
                     waiting, wsRx, freed, lost>>

Next ==
  \/ ApplyMbufs
  \/ GeneratePkts
  \/ ClientHandler
  \/ ServerHandler
  \/ \E s \in Side : CollectTx(s)
  \/ \E s \in Side : NicTx(s)
  \/ \E s \in Side : NicRx(s)
  \/ \E s \in Side : DispatchRx(s)
  \/ \E s \in Side : Deliver(s)

Spec == Init /\ [][Next]_vars

\* Every phase function is called once per iteration of an endless loop
\* (workspace.cc:152-156, datapath_pipeline.h:190-250), and the NIC works.
Fairness ==
  /\ WF_vars(ApplyMbufs)
  /\ WF_vars(GeneratePkts)
  /\ WF_vars(ClientHandler)
  /\ WF_vars(ServerHandler)
  /\ \A s \in Side :
       /\ WF_vars(CollectTx(s))
       /\ WF_vars(NicTx(s))
       /\ WF_vars(NicRx(s))
       /\ WF_vars(DispatchRx(s))
       /\ WF_vars(Deliver(s))

FairSpec == Spec /\ Fairness

-----------------------------------------------------------------------------
(* Properties *)

\* Every counter is a natural number within the ring or queue it describes.
TypeOK ==
  /\ budget \in Nat
  /\ infly_flag_ \in BOOLEAN
  /\ wsTx \in [Side -> 0 .. QueueCap]
  /\ txRing \in [Side -> 0 .. TxRingSize]
  /\ flushing \in [Side -> BOOLEAN]
  /\ free_send_wr_num_ \in [Side -> 0 .. TxRingSize]
  /\ wire \in [Side -> 0 .. TxRingSize]
  /\ sendCq \in [Side -> 0 .. TxRingSize]
  /\ posted \in [Side -> 0 .. RxRingSize]
  /\ recvCq \in [Side -> 0 .. RxRingSize]
  /\ waiting \in [Side -> 0 .. RxRingSize]
  /\ wsRx \in [Side -> 0 .. QueueCap]
  /\ freed \in [Side -> 0 .. RxRingSize]
  /\ lost \in Nat

\* Messages of one side that are on their way.
Travelling(s) ==
  wsTx[s] + txRing[s] + wire[s] + recvCq[s] + waiting[s] + wsRx[s]

InHand == IF infly_flag_ THEN AppTxBatch ELSE 0

\* Budget is neither created nor leaked on any path: what apply_infly_budget
\* took is in a batch being generated, in a queue, ring or the network, or was
\* dropped at a full queue; handlers return exactly what they consumed.
MessagesConserved ==
  budget + InHand + Travelling("client") + Travelling("server") + lost = Budget

\* Receive buffers of a side: on the server a request's buffer carries the
\* response until its send completion is reaped.
RxBuffers(s) ==
  posted[s] + recvCq[s] + waiting[s] + wsRx[s] + freed[s]
  + (IF s = "server" THEN wsTx[s] + txRing[s] + wire[s] + sendCq[s] ELSE 0)

\* No receive buffer is ever leaked or posted twice, drops included.
RxBuffersConserved == \A s \in Side : RxBuffers(s) = RxRingSize

\* free_send_wr_num_ tells exactly how many work requests the NIC does not own.
SendRequestsConserved ==
  \A s \in Side : free_send_wr_num_[s] + wire[s] + sendCq[s] = TxRingSize

\* Below the capacity of a workspace queue the budget is an admission control:
\* no enqueue is ever refused, so no message is dropped anywhere in the loop.
NothingLost == Budget <= QueueCap => lost = 0

\* tx_flush never spins for send completions when the budget fits the send
\* queue: the first tx_burst posts the whole ring.
FlushInOneBurst == Budget <= TxRingSize => \A s \in Side : ~flushing[s]

\* A dispatcher has nothing to do: nothing to collect, no batch to flush (or a
\* flush without a single work request to come back), nothing to repost, poll
\* or dispatch.
DispatcherIdle(s) ==
  /\ wsTx[s] = 0 \/ txRing[s] = TxRingSize \/ flushing[s]
  /\ IF flushing[s] THEN free_send_wr_num_[s] + sendCq[s] = 0
                    ELSE /\ txRing[s] < DispTxBatch[s]
                         /\ recvCq[s] = 0 /\ waiting[s] = 0 /\ freed[s] = 0

\* No phase of either side can do anything, for ever.
Stalled ==
  /\ ~infly_flag_ /\ budget < AppTxBatch
  /\ \A s \in Side :
       /\ wsRx[s] < AppRxBatch[s]
       /\ DispatcherIdle(s)
       /\ wire[s] = 0 \/ posted[Peer(s)] = 0

\* The two sides never wait for each other with every packet resting below
\* somebody's batch size ("Check batch size to avoid deadlock", workspace.cc:40).
NeverStalled == ~Stalled

\* The client issues a batch again and again.
IssuesForever == []<>infly_flag_

\* Packets that can rest in the loop without any phase taking them up.
Residue ==
  (AppTxBatch - 1)
  + (DispTxBatch["client"] - 1) + (AppRxBatch["client"] - 1)
  + (DispTxBatch["server"] - 1) + (AppRxBatch["server"] - 1)

\* What the sizes must satisfy for the loop to be free of deadlock and loss:
\* the budget exceeds what can rest below the thresholds, and the queues and
\* rings hold the budget, the server's receive ring also the unreaped responses.
SizesSuffice ==
  /\ Budget > Residue
  /\ Budget <= QueueCap
  /\ Budget <= TxRingSize
  /\ RxRingSize >= AppRxBatch["client"]
  /\ RxRingSize > Budget + (AppRxBatch["server"] - 1) + (DispTxBatch["server"] - 1)
================================================================================
