------------------------------- MODULE Deployment -------------------------------
(***************************************************************************)
(* What a configuration file makes of a node: the workload lines as         *)
(* config_workload reads them (src/src/config.cc), and the workspaces, their *)
(* types, phase functions and dispatchers as DatapathPipeline and main       *)
(* derive them (src/src/datapath_pipeline.h, src/src/main.cc).  Operators    *)
(* only; Startup brings two nodes up with them.                              *)
(*                                                                          *)
(* A workload line of the file is                                           *)
(*   workload : type : phases : remote dispatchers : app groups : dispatchers *)
(***************************************************************************)
EXTENDS Naturals, Sequences, SequencesExt, FiniteSets, Functions

CONSTANTS
  kWorkspaceMaxNum,  \* threads of a process
  Types              \* the workload types

ASSUME DeploymentAssumption ==
  /\ kWorkspaceMaxNum \in Nat \ {0}
  /\ Types \subseteq Nat \ {0}

\* The ids config_workload takes: those below kInvalidWsId, which is
\* kWorkspaceMaxNum + 1, so one more than main has threads for.
WsIds == 0..kWorkspaceMaxNum
Threads == 0..(kWorkspaceMaxNum - 1)

None == kWorkspaceMaxNum + 1

AppPhases == {"TxApplication", "RxApplication"}
DispatcherPhases == {"TxDispatcher", "RXDispatcher"}
Phases == AppPhases \union DispatcherPhases \union {"TxNIC", "RXNIC"}

Line == [type : Types, phases : Seq(Phases), remotes : Seq(WsIds),
         groups : Seq(Seq(WsIds)), dispatchers : Seq(WsIds)]

-----------------------------------------------------------------------------
(* UserConfig::workloads_config *)

EmptyMaps ==
  LET nothing == [t \in Types |-> <<>>]
  IN  [phases |-> nothing, remotes |-> nothing, groups |-> nothing, dispatchers |-> nothing,
       workload |-> [w \in WsIds |-> None], group |-> [w \in WsIds |-> None]]

\* What the line adds.  The lists of a type grow with every line of it; the index
\* of a group is its place in its own line.
config_workload(maps, line) ==
  LET In(w) == {g \in DOMAIN line.groups : w \in Range(line.groups[g])}
  IN  [phases |-> [maps.phases EXCEPT ![line.type] = @ \o line.phases],
       remotes |-> [maps.remotes EXCEPT ![line.type] = @ \o line.remotes],
       groups |-> [maps.groups EXCEPT ![line.type] = @ \o line.groups],
       dispatchers |-> [maps.dispatchers EXCEPT ![line.type] = @ \o line.dispatchers],
       workload |-> [w \in WsIds |-> IF In(w) # {} THEN line.type ELSE maps.workload[w]],
       group |-> [w \in WsIds |-> IF In(w) # {} THEN CHOOSE g \in In(w) : TRUE
                                                ELSE maps.group[w]]]

\* Line after line.
load(lines) ==
  LET after[i \in 0..Len(lines)] ==
        IF i = 0 THEN EmptyMaps ELSE config_workload(after[i - 1], lines[i])
  IN  after[Len(lines)]

\* The assertion of config_workload: no workspace in two groups, on one line or
\* on several.  (That ids are below kInvalidWsId is in the type of a line.)
Accepted(lines) ==
  IsInjective(FlattenSeq(FlattenSeq([i \in DOMAIN lines |-> lines[i].groups])))

-----------------------------------------------------------------------------
(* DatapathPipeline *)

InGroups(groups) == UNION {Range(groups[g]) : g \in DOMAIN groups}

\* The workspaces of a phase: those of the groups run the application phases, the
\* dispatchers the dispatcher phases, nobody the phases of the NIC.
launch_wss(maps, t, phase) ==
  IF phase \in AppPhases THEN InGroups(maps.groups[t])
  ELSE IF phase \in DispatcherPhases THEN Range(maps.dispatchers[t])
  ELSE {}

\* The phases of a workspace, over all workloads.
PhasesOf(maps, w) ==
  UNION {{phase \in Range(maps.phases[t]) : w \in launch_wss(maps, t, phase)} : t \in Types}

IsWorker(maps, w) == PhasesOf(maps, w) \intersect AppPhases # {}
IsDispatcher(maps, w) == PhasesOf(maps, w) \intersect DispatcherPhases # {}

phase_loop_map_ ==
  [TxApplication |-> {"apply_mbufs", "generate_pkts"}, RxApplication |-> {"app_handler"},
   TxDispatcher |-> {"bursted_tx", "nic_tx"}, RXDispatcher |-> {"nic_rx", "bursted_rx"},
   TxNIC |-> {}, RXNIC |-> {}]

\* ws_loop: the functions a workspace's thread calls.
Loop(maps, w) == UNION {phase_loop_map_[phase] : phase \in PhasesOf(maps, w)}

\* Faulty Launched, for mutants: main goes as far as the ids do.
LaunchedOneMore(maps) == {w \in WsIds : PhasesOf(maps, w) # {}}

\* The threads of main with something to do, total_thread_num of them.
Launched(maps) == {w \in Threads : PhasesOf(maps, w) # {}}

\* dispatcher_ws_id_ of a worker: the dispatcher at the place of its group.
DispatcherOf(maps, w) == maps.dispatchers[maps.workload[w]][maps.group[w]]

-----------------------------------------------------------------------------
\* A configuration that makes sense: one line per workload, a dispatcher for each
\* of its groups, threads for all, and phases to receive, to handle and to send.
Whole(lines) ==
  /\ Accepted(lines)
  /\ \A i, j \in DOMAIN lines : lines[i].type = lines[j].type => i = j
  /\ \A i \in DOMAIN lines :
       /\ Len(lines[i].groups) = Len(lines[i].dispatchers)
       /\ {"RxApplication", "TxDispatcher", "RXDispatcher"} \subseteq Range(lines[i].phases)
       /\ \A g \in DOMAIN lines[i].groups : lines[i].groups[g] # <<>>
       /\ Range(lines[i].dispatchers) \union InGroups(lines[i].groups) \subseteq Threads

\* All of it, worked out for a configuration.
Plan(lines) ==
  LET maps == load(lines)
      threads == Launched(maps)
  IN  [accepted |-> Accepted(lines), whole |-> Whole(lines),
       remotes |-> [t \in Types |-> Range(maps.remotes[t])],
       dispatchersOf |-> [t \in Types |-> Range(maps.dispatchers[t])],
       threads |-> threads,
       workers |-> {w \in threads : IsWorker(maps, w)},
       dispatchers |-> {w \in threads : IsDispatcher(maps, w)},
       workload |-> maps.workload,
       home |-> [w \in WsIds |->
                   IF IsWorker(maps, w) THEN DispatcherOf(maps, w) ELSE None],
       loop |-> [w \in WsIds |-> Loop(maps, w)]]
================================================================================
