-------------------------- MODULE DualCoreSchedule --------------------------
(***************************************************************************)
(* plan_dual_core_schedule as a whole: the list scheduler run on the       *)
(* pending blocks of a bound NIGIR.  The properties say of the nodes and   *)
(* the tensors what ListScheduler's say of blocks and windows.             *)
(***************************************************************************)
EXTENDS DualCorePlan, ListScheduler

ASSUME PlannedAssumption == \A j \in Jobs : IsBoundNig(j.graph) /\ j = PendingJob(j.graph)

ASSUME ResourceAssumption ==
  {"shared", "core0", "core1"} \X (SharedUnits \cup Units) \subseteq Resource

graph == job.graph

(* Block b is placed and has ended when slot t begins. *)
EndedBy(b, t) == b \in Issued /\ EndSlot(b) <= t

(* No preparation or computation starts before each of the node's inputs that
   a scheduled node produces is stored and, if that node ran on the other
   core, was moved over after it was stored.  (_stage_dependencies,
   _input_dependency_block_ids, _build_transfer_plans) *)
DataReady ==
  \A b \in Issued :
    ~ IsTransferBlock(b) /\ StageOf(graph, b).name \in {"prepare", "compute"} =>
      \A p \in Producers(graph, b[1]) :
        LET stored == TerminalBlock(graph, p)
            moved  == <<b[1], 0, p>>
        IN IF CoreOf(graph, p) = CoreOf(graph, b[1])
           THEN EndedBy(stored, issue[b])
           ELSE EndedBy(moved, issue[b]) /\ EndedBy(stored, issue[moved])

(* One DMA, one core link and one sync unit serve both cores, and each core has
   its own compute units: in no slot is one of them held by two blocks. *)
OneHolder ==
  \A a, b \in Issued : a # b =>
    \A h \in BlockWindows(graph, a), k \in BlockWindows(graph, b) :
      h.res = k.res /\ (h.res \in SharedUnits \/ BlockCore(graph, a) = BlockCore(graph, b))
        => ~ Overlap(issue[a] + h.off, issue[a] + h.off + h.len,
                     issue[b] + k.off, issue[b] + k.off + k.len)

(* No set of scheduled nodes feeds on itself. *)
DataflowAcyclic ==
  \A S \in SUBSET ScheduledNodes(graph) :
    S # {} => \E n \in S : Producers(graph, n) \cap S = {}

(* When the dataflow between scheduled nodes is acyclic, whatever the order in
   which the NIGIR lists them, every stage and every transfer is in the
   schedule: the stage chains, the transfers and the order of the list add no
   cycle of their own. *)
Complete ==
  phase = "done" /\ DataflowAcyclic => Issued = job.blocks
=============================================================================
