------------------------------- MODULE EventLoop -------------------------------
(***************************************************************************)
(* The life of the workspace threads of one node: construction in two       *)
(* phases, the timed iterations of run_event_loop_timeout_st, the statistics *)
(* of each iteration, and the end (src/src/ws_impl/workspace.cc,            *)
(* src/src/main.cc).  Workspaces meet at a barrier after registering, before *)
(* launching, and before and after each iteration.  Timers differ from      *)
(* thread to thread, so the iteration ends at different times; a dispatcher  *)
(* goes on serving until every workspace has counted itself as completed,    *)
(* because a worker may be stalled in a phase that only ends when its        *)
(* dispatcher gives mbufs back.                                              *)
(*                                                                          *)
(*   construct -> registered| -> configure -> ready| -> init                *)
(*   init -> start| -> run -> completed -> end| -> report -> init or exited *)
(*                                                  (| waits at the barrier) *)
(***************************************************************************)
EXTENDS Naturals, FiniteSets

CONSTANTS
  Workspaces,
  Workers, Dispatchers,  \* by ws_type_; a workspace may be both
  Assignments,           \* the possible dispatcher_ws_id_ of the workers
  Iterations             \* iteration of the configuration

ASSUME WorkspaceAssumption ==
  /\ IsFiniteSet(Workspaces) /\ Workspaces # {}
  /\ Workspaces = Workers \union Dispatchers
  /\ Assignments \subseteq [Workers -> Dispatchers]
  /\ Iterations \in Nat \ {0}

VARIABLES
  dispatcher_ws_id_,     \* fixed by the configuration file
  pc,                    \* where each thread is
  iter,                  \* its iteration
  active_ws_id_,         \* the context: registered workspaces
  end_signal_, completed_ws_num_,
  ws_queues_,            \* per dispatcher: the workers whose queues it serves
  expired,               \* per thread: timeout_tsc has passed
  stalled,               \* per worker: inside a phase, waiting for mbufs
  stats_init_ws_,        \* per thread: it aggregated this iteration's statistics
  reports,               \* iterations printed
  count, generation, gen \* the barrier

Barrier == INSTANCE ThreadBarrier WITH totalThreads <- Cardinality(Workspaces)

barrierVars == <<count, generation, gen>>
contextVars == <<active_ws_id_, end_signal_, completed_ws_num_>>
vars == <<dispatcher_ws_id_, pc, iter, contextVars, ws_queues_, expired, stalled,
          stats_init_ws_, reports, barrierVars>>

WorkersOf(d) == {w \in Workers : dispatcher_ws_id_[w] = d}

Init ==
  /\ dispatcher_ws_id_ \in Assignments
  /\ pc = [t \in Workspaces |-> "construct"]
  /\ iter = [t \in Workspaces |-> 0]
  /\ active_ws_id_ = {} /\ end_signal_ = FALSE /\ completed_ws_num_ = 0
  /\ ws_queues_ = [d \in Dispatchers |-> {}]
  /\ expired = [t \in Workspaces |-> FALSE]
  /\ stalled = [w \in Workers |-> FALSE]
  /\ stats_init_ws_ = [t \in Workspaces |-> FALSE]
  /\ reports = 0
  /\ Barrier!BarrierInit(Workspaces)

Go(t, from, to) == pc[t] = from /\ pc' = [pc EXCEPT ![t] = to]

\* Leave the barrier.
Pass(t, from, to) ==
  /\ Go(t, from, to)
  /\ Barrier!Released(t)
  /\ UNCHANGED <<dispatcher_ws_id_, contextVars, ws_queues_, stats_init_ws_, reports,
                 stalled, barrierVars>>

-----------------------------------------------------------------------------
(* Construction *)

\* Phase 1 and register_ws.
Register(t) ==
  /\ Go(t, "construct", "registered")
  /\ active_ws_id_' = active_ws_id_ \union {t}
  /\ Barrier!Arrive(t)
  /\ UNCHANGED <<dispatcher_ws_id_, iter, end_signal_, completed_ws_num_, ws_queues_,
                 expired, stalled, stats_init_ws_, reports>>

PassRegistered(t) == Pass(t, "registered", "configure") /\ UNCHANGED <<iter, expired>>

\* Phase 2.  set_dispatcher_config takes the queues of the registered workers
\* that are assigned to this dispatcher; without any the constructor returns
\* before its last wait().  (set_mem_reg always succeeds: a worker is assigned to
\* a dispatcher, and all of them have registered.)
Configure(t) ==
  LET queues == IF t \in Dispatchers THEN WorkersOf(t) \intersect active_ws_id_ ELSE {}
      failed == t \in Dispatchers /\ queues = {}
  IN  /\ IF failed
           THEN Go(t, "configure", "init") /\ UNCHANGED barrierVars
           ELSE Go(t, "configure", "ready") /\ Barrier!Arrive(t)
      /\ ws_queues_' = [d \in Dispatchers |-> IF d = t THEN queues ELSE ws_queues_[d]]
      /\ UNCHANGED <<dispatcher_ws_id_, iter, contextVars, expired, stalled,
                     stats_init_ws_, reports>>

PassReady(t) == Pass(t, "ready", "init") /\ UNCHANGED <<iter, expired>>

-----------------------------------------------------------------------------
(* One iteration *)

\* Loop init: the thread's statistics are reset, then it waits.
BeginIteration(t) ==
  /\ Go(t, "init", "start")
  /\ iter' = [iter EXCEPT ![t] = @ + 1]
  /\ Barrier!Arrive(t)
  /\ UNCHANGED <<dispatcher_ws_id_, contextVars, ws_queues_, expired, stalled,
                 stats_init_ws_, reports>>

PassStart(t) ==
  /\ Pass(t, "start", "run")
  /\ expired' = [expired EXCEPT ![t] = FALSE]
  /\ UNCHANGED iter

\* launch() of a worker on a thread of its own gets stuck in apply_mbufs, perhaps
\* until after its time is over.  (A workspace that is its own dispatcher would be
\* stuck for good: the budget keeps it from that.)
Stall(w) ==
  /\ pc[w] = "run" /\ ~expired[w] /\ ~stalled[w]
  /\ w \notin Dispatchers
  /\ stalled' = [stalled EXCEPT ![w] = TRUE]
  /\ UNCHANGED <<dispatcher_ws_id_, pc, iter, contextVars, ws_queues_, expired,
                 stats_init_ws_, reports, barrierVars>>

\* Faulty KeepsServing, for mutants: stop when one's own time is over.
StopsAtOnce(d) == FALSE

\* The loop of a dispatcher that is done with its own time: until all are.
KeepsServing(d) == completed_ws_num_ # Cardinality(active_ws_id_)

\* launch() of a dispatcher, in either loop, gives mbufs back to the workers
\* whose queues it serves.
Serve(d) ==
  /\ pc[d] = "run" \/ (pc[d] = "completed" /\ KeepsServing(d))
  /\ \E w \in ws_queues_[d] : stalled[w]
  /\ stalled' = [w \in Workers |-> stalled[w] /\ w \notin ws_queues_[d]]
  /\ UNCHANGED <<dispatcher_ws_id_, pc, iter, contextVars, ws_queues_, expired,
                 stats_init_ws_, reports, barrierVars>>

Expire(t) ==
  /\ pc[t] = "run" /\ ~expired[t]
  /\ expired' = [expired EXCEPT ![t] = TRUE]
  /\ UNCHANGED <<dispatcher_ws_id_, pc, iter, contextVars, ws_queues_, stalled,
                 stats_init_ws_, reports, barrierVars>>

\* Faulty UpdateStats, for mutants: end_signal_ is not looked at, every workspace
\* aggregates.
AllAggregate(t) ==
  /\ Go(t, "run", "completed")
  /\ expired[t] /\ (t \in Workers => ~stalled[t])
  /\ completed_ws_num_' = completed_ws_num_ + 1
  /\ end_signal_' = TRUE
  /\ stats_init_ws_' = [stats_init_ws_ EXCEPT ![t] = TRUE]
  /\ UNCHANGED <<dispatcher_ws_id_, iter, active_ws_id_, ws_queues_, expired, stalled,
                 reports, barrierVars>>

\* update_stats, once launch() is back: count this workspace; the first one
\* aggregates the statistics of all.
UpdateStats(t) ==
  /\ Go(t, "run", "completed")
  /\ expired[t] /\ (t \in Workers => ~stalled[t])
  /\ completed_ws_num_' = completed_ws_num_ + 1
  /\ end_signal_' = TRUE
  /\ stats_init_ws_' = [stats_init_ws_ EXCEPT ![t] = @ \/ ~end_signal_]
  /\ UNCHANGED <<dispatcher_ws_id_, iter, active_ws_id_, ws_queues_, expired, stalled,
                 reports, barrierVars>>

EndIteration(t) ==
  /\ Go(t, "completed", "end")
  /\ t \in Dispatchers => ~KeepsServing(t)
  /\ Barrier!Arrive(t)
  /\ UNCHANGED <<dispatcher_ws_id_, iter, contextVars, ws_queues_, expired, stalled,
                 stats_init_ws_, reports>>

PassEnd(t) == Pass(t, "end", "report") /\ UNCHANGED <<iter, expired>>

AfterReport(t) == IF iter[t] = Iterations THEN "exited" ELSE "init"

\* Faulty Report, for mutants: the count of completed workspaces is kept.
ReportWithoutReset(t) ==
  /\ Go(t, "report", AfterReport(t))
  /\ IF stats_init_ws_[t]
       THEN /\ reports' = reports + 1
            /\ end_signal_' = FALSE
            /\ stats_init_ws_' = [stats_init_ws_ EXCEPT ![t] = FALSE]
       ELSE UNCHANGED <<reports, end_signal_, stats_init_ws_>>
  /\ UNCHANGED <<dispatcher_ws_id_, iter, active_ws_id_, completed_ws_num_, ws_queues_,
                 expired, stalled, barrierVars>>

\* The workspace that aggregated prints and makes ready for the next iteration.
\* After the last one the thread returns and its Workspace is destroyed.
Report(t) ==
  /\ Go(t, "report", AfterReport(t))
  /\ IF stats_init_ws_[t]
       THEN /\ reports' = reports + 1
            /\ end_signal_' = FALSE /\ completed_ws_num_' = 0
            /\ stats_init_ws_' = [stats_init_ws_ EXCEPT ![t] = FALSE]
       ELSE UNCHANGED <<reports, end_signal_, completed_ws_num_, stats_init_ws_>>
  /\ UNCHANGED <<dispatcher_ws_id_, iter, active_ws_id_, ws_queues_, expired, stalled,
                 barrierVars>>

ThreadStep(t) ==
  \/ Register(t) \/ PassRegistered(t) \/ Configure(t) \/ PassReady(t)
  \/ BeginIteration(t) \/ PassStart(t) \/ UpdateStats(t)
  \/ EndIteration(t) \/ PassEnd(t) \/ Report(t)

Next ==
  \/ \E t \in Workspaces : ThreadStep(t)
  \/ \E t \in Workspaces : Expire(t)
  \/ \E w \in Workers : Stall(w)
  \/ \E d \in Dispatchers : Serve(d)

Spec == Init /\ [][Next]_vars

\* Threads run, time passes, dispatchers call launch() again and again.
FairSpec ==
  /\ Spec
  /\ \A t \in Workspaces : WF_vars(ThreadStep(t)) /\ WF_vars(Expire(t))
  /\ \A d \in Dispatchers : WF_vars(Serve(d))

-----------------------------------------------------------------------------
(* Properties *)

Stages == {"construct", "registered", "configure", "ready", "init", "start", "run",
           "completed", "end", "report", "exited"}

\* Every variable has a value of its type.
TypeOK ==
  /\ dispatcher_ws_id_ \in Assignments
  /\ pc \in [Workspaces -> Stages] /\ iter \in [Workspaces -> 0 .. Iterations]
  /\ active_ws_id_ \subseteq Workspaces /\ end_signal_ \in BOOLEAN
  /\ completed_ws_num_ \in 0 .. Cardinality(Workspaces)
  /\ ws_queues_ \in [Dispatchers -> SUBSET Workers]
  /\ expired \in [Workspaces -> BOOLEAN] /\ stalled \in [Workers -> BOOLEAN]
  /\ stats_init_ws_ \in [Workspaces -> BOOLEAN] /\ reports \in 0 .. Iterations
  /\ count \in 0 .. Cardinality(Workspaces) - 1 /\ generation \in Nat
  /\ gen \in [Workspaces -> Nat]

\* Every dispatcher has a worker.  config.cc does not ask for it; without one the
\* constructor's early return puts the thread one barrier ahead of the others.
ConfigComplete == \A d \in Dispatchers : WorkersOf(d) # {}

InIteration == {"start", "run", "completed", "end"}

\* While a workspace measures an iteration every other is in the same one: no
\* statistics are reset, no context is cleared and no Workspace destroyed under
\* the one that aggregates (workspace.cc:327-337).
LoopsInStep ==
  ConfigComplete =>
    \A t, u \in Workspaces :
      pc[t] \in {"run", "completed"} => pc[u] \in InIteration /\ iter[u] = iter[t]

\* Exactly one workspace reports each iteration ("Only the first workspace
\* records the stats", workspace.cc:426).
OneReportEach ==
  ConfigComplete => \A t \in Workspaces :
    /\ pc[t] \in {"run", "completed"} => reports = iter[t] - 1
    /\ (\A u \in Workspaces : pc[u] = "exited") => reports = Iterations

\* All iterations are completed and every thread returns: no worker is left
\* stalled by a dispatcher that stopped too early, no dispatcher misses the
\* moment at which all are completed.
AllFinish == ConfigComplete => <>(\A t \in Workspaces : pc[t] = "exited")
================================================================================
