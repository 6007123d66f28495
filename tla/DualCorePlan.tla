---------------------------- MODULE DualCorePlan ----------------------------
(***************************************************************************)
(* The first half of plan_dual_core_schedule (scheduler/dual_core.py): from *)
(* a bound NIGIR to the pending blocks that the list scheduler places.     *)
(*                                                                         *)
(* An input g has                                                          *)
(*   nodes      the NIG nodes in list order, each with its macro, whether  *)
(*              it is bound and has a tile candidate, its inputs and       *)
(*              outputs (sets of tensors), the slot counts of each stage   *)
(*              (cost, see StageWindows) and the slots to send its output             *)
(*   core_link  whether the target has a core link                         *)
(*   sync       its cross-core synchronisation cost                        *)
(* A node is named by its position, and a block by                         *)
(*   <<node, stage_index, 0>>   a stage of a node, counted from 1          *)
(*   <<consumer, 0, producer>>  the transfer between two nodes             *)
(* dual_core.py defines several helpers twice; this module translates the  *)
(* definitions that the calls in the file are written against, and         *)
(* DualCoreEntry says what becomes of those calls.                         *)
(***************************************************************************)
EXTENDS StageWindows, Integers, FiniteSets, Sequences

CONSTANTS
  GemmComputeResources,  \* _GEMM_COMPUTE_RESOURCES: macro -> units of its compute stage
  StagePolicies          \* _STAGE_POLICIES: macro -> its stages

TiledMacros == {"GEMM", "WDQ_GEMM", "RMSNORM_GEMM", "SDPA", "SDPA_DECODE"}

Stage(name, units) == [name |-> name, units |-> units]

Units == {"DMA", "MXU", "VPU", "WDQ"}

ASSUME PolicyAssumption ==
  /\ \A m \in DOMAIN GemmComputeResources :
       GemmComputeResources[m] \in (SUBSET Units) \ {{}}
  /\ \A m \in DOMAIN StagePolicies :
       StagePolicies[m] \in Seq([name : StageNames, units : (SUBSET Units) \ {{}}])

(* What binding and tiling make of a NIGIR. *)
IsBoundNig(g) ==
  /\ IsFiniteSet(DOMAIN g.nodes) /\ DOMAIN g.nodes \subseteq Nat \ {0}
  /\ \A n \in DOMAIN g.nodes : /\ \A s \in StageNames : IsCost(g.nodes[n].cost[s])
                               /\ g.nodes[n].send \in Nat \ {0}
  /\ g.sync \in Nat

(* _lower_node_stages *)
NodeStages(macro) ==
  IF macro \in DOMAIN GemmComputeResources
  THEN << Stage("dma_in", {"DMA"}), Stage("compute", GemmComputeResources[macro]),
          Stage("store", {"DMA"}) >>
  ELSE IF macro \in {"SDPA", "SDPA_DECODE"}
  THEN << Stage("dma_in", {"DMA"}), Stage("prepare", {"VPU"}),
          Stage("compute", {IF macro = "SDPA" THEN "MXU" ELSE "DMA", "VPU"}),
          Stage("store", {"DMA"}) >>
  ELSE IF macro \in DOMAIN StagePolicies THEN StagePolicies[macro]
  ELSE <<>>

(* _build_scheduled_node_plans: the nodes that get blocks, and their cores. *)
ScheduledNodes(g) ==
  {n \in DOMAIN g.nodes :
     /\ g.nodes[n].bound
     /\ g.nodes[n].tiled \/ g.nodes[n].macro \notin TiledMacros
     /\ NodeStages(g.nodes[n].macro) # <<>>}

CoreOf(g, n) == Cardinality({m \in ScheduledNodes(g) : m < n}) % 2

(* _group_producer_by_tensor: the last scheduled node that outputs a tensor
   is its producer. *)
Feeds(g, p, c) ==
  \E t \in g.nodes[c].inputs \cap g.nodes[p].outputs :
    \A q \in ScheduledNodes(g) : t \in g.nodes[q].outputs => q <= p

Producers(g, c) == {p \in ScheduledNodes(g) : Feeds(g, p, c)}

-----------------------------------------------------------------------------
(* The blocks.                                                             *)

StageOf(g, b) == NodeStages(g.nodes[b[1]].macro)[b[2]]

CostOf(g, b) == g.nodes[b[1]].cost[StageOf(g, b).name]

IsTransferBlock(b) == b[2] = 0

StageBlocks(g) ==
  UNION {{<<n, k, 0>> : k \in DOMAIN NodeStages(g.nodes[n].macro)} : n \in ScheduledNodes(g)}

(* _build_transfer_plans: one transfer for each pair of nodes on different
   cores, however many tensors pass between them. *)
TransferBlocks(g) ==
  UNION {{<<c, 0, p>> : p \in {q \in Producers(g, c) : CoreOf(g, q) # CoreOf(g, c)}} :
           c \in ScheduledNodes(g)}

(* _terminal_block_id *)
TerminalBlock(g, n) == <<n, Len(NodeStages(g.nodes[n].macro)), 0>>

MutSameCoreOnly(g, c) ==
  {TerminalBlock(g, p) : p \in {q \in Producers(g, c) : CoreOf(g, q) = CoreOf(g, c)}}

(* _input_dependency_block_ids *)
InputBlocks(g, c) ==
  {IF CoreOf(g, p) = CoreOf(g, c) THEN TerminalBlock(g, p) ELSE <<c, 0, p>> :
     p \in Producers(g, c)}

(* _stage_dependencies: neither dma_in nor a store that follows another stage
   waits for the inputs. *)
StageDependencies(g, b) ==
  LET stage == StageOf(g, b).name IN
  {d \in {<<b[1], b[2] - 1, 0>>} : b[2] > 1} \cup
  {d \in InputBlocks(g, b[1]) :
     stage \in {"prepare", "compute"} \/ (b[2] = 1 /\ stage = "store")}

MutAwaitConsumer(g, b) == {TerminalBlock(g, b[1])}

TransferDependencies(g, b) == {TerminalBlock(g, b[3])}

BlockDuration(g, b) ==
  IF IsTransferBlock(b) THEN TransferSlots(g.nodes[b[3]].send, g.sync)
  ELSE DurationSlots(g.nodes[b[1]].macro, StageOf(g, b).name, CostOf(g, b))

BlockWindows(g, b) ==
  IF IsTransferBlock(b)
  THEN TransferReservations({IF g.core_link THEN "Core Link" ELSE "DMA"},
                            BlockDuration(g, b), g.sync)
  ELSE StageReservations(g.nodes[b[1]].macro, StageOf(g, b).name, StageOf(g, b).units,
                         BlockDuration(g, b), CostOf(g, b))

(* core_id: a transfer belongs to the core of its producer. *)
BlockCore(g, b) == CoreOf(g, IF IsTransferBlock(b) THEN b[3] ELSE b[1])

SharedUnits == {"DMA", "Core Link", "SYNC"}

MutMapResourceName(core, unit) ==
  <<IF unit \in {"Core Link", "SYNC"} THEN "shared" ELSE IF core = 0 THEN "core0" ELSE "core1", unit>>

(* _map_resource_name *)
MapResourceName(core, unit) ==
  <<IF unit \in SharedUnits THEN "shared" ELSE IF core = 0 THEN "core0" ELSE "core1", unit>>

BlockRequests(g, b) ==
  {[h EXCEPT !.res = MapResourceName(BlockCore(g, b), h.res)] : h \in BlockWindows(g, b)}

(* The heap's order on (node_index, stage_index, block_id): a node's transfers,
   of stage index -1, come before its stages. *)
RanksBelow(a, b) ==
  \/ a[1] < b[1]
  \/ a[1] = b[1] /\ a[2] < b[2]
  \/ a[1] = b[1] /\ a[2] = b[2] /\ a[3] < b[3]

(* _build_pending_blocks *)
PendingJob(g) ==
  LET blocks == StageBlocks(g) \cup TransferBlocks(g) IN
  [graph    |-> g,
   blocks   |-> blocks,
   depends  |-> [b \in blocks |-> IF IsTransferBlock(b) THEN TransferDependencies(g, b)
                                ELSE StageDependencies(g, b)],
   duration |-> [b \in blocks |-> BlockDuration(g, b)],
   requests |-> [b \in blocks |-> BlockRequests(g, b)],
   rank     |-> [b \in blocks |-> Cardinality({a \in blocks : RanksBelow(a, b)})]]
=============================================================================
