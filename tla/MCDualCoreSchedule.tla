------------------------- MODULE MCDualCoreSchedule -------------------------
(* Small NIGIRs: every dataflow among three nodes, cycles included, in every
   list order, and graphs of four nodes with nodes that get no blocks, tensors
   with two producers, pairs that share two tensors and a node fed by itself. *)
EXTENDS DualCoreSchedule, TLC

MCGemmComputeResources == [m \in {"GEMM"} |-> {"MXU"}] @@ [m \in {"WDQ_GEMM"} |-> {"WDQ", "MXU"}]

(* The stages that the recorded schedules of tests/fixtures/diagnosis_baseline
   have for these macros. *)
MCStagePolicies ==
  [m \in {"RMSNORM"} |-> <<Stage("dma_in", {"DMA"}), Stage("compute", {"VPU"}),
                           Stage("store", {"DMA"})>>]
  @@ [m \in {"SHAPE_HELPER"} |-> <<Stage("prepare", {"VPU"}), Stage("compute", {"VPU"})>>]

Cost == [s \in StageNames |->
          [load |-> 1, write |-> 1, side |-> 1, vector |-> IF s = "compute" THEN 2 ELSE 1,
           body |-> 2, overhead |-> 1, score |-> 2, stream |-> 1, summarised |-> TRUE]]

Node(macro, inputs, outputs) ==
  [macro |-> macro, bound |-> TRUE, tiled |-> TRUE, inputs |-> inputs, outputs |-> outputs,
   cost |-> Cost, send |-> 1]

Graph(nodes, link, sync) == [nodes |-> nodes, core_link |-> link, sync |-> sync]

Macros == {<<"WDQ_GEMM", "RMSNORM", "SDPA">>, <<"RMSNORM", "SHAPE_HELPER", "SDPA_DECODE">>,
           <<"SHAPE_HELPER", "WDQ_GEMM", "WDQ_GEMM">>}

AnyThree ==
  {Graph([n \in 1..3 |-> Node(m[n], d[n], {n})], link, IF link THEN 1 ELSE 2) :
     d \in {e \in [1..3 -> SUBSET (1..3)] : \A n \in 1..3 : n \notin e[n]},
     m \in Macros, link \in BOOLEAN}

(* The third node is bound but not tiled, or has no stages, or is not bound. *)
Skipped ==
  {Node("GEMM", {"b"}, {"c"}), [Node("GEMM", {"b"}, {"c"}) EXCEPT !.tiled = FALSE],
   [Node("RMSNORM", {"b"}, {"c"}) EXCEPT !.bound = FALSE], Node("CONCAT", {"b"}, {"c"})}

WithFour ==
  {Graph(<<Node("RMSNORM", {"x"}, {"a", "b"}), Node("WDQ_GEMM", {"a", "b"}, {"d"}), third,
           Node("RMSNORM", ins, {"b", "e"})>>, link, 1) :
     third \in Skipped, ins \in {{"c"}, {"b"}, {"a", "c", "d"}, {"d", "e"}}, link \in BOOLEAN}

MCJobs == {PendingJob(g) : g \in AnyThree \cup WithFour}

MCResource == {"shared", "core0", "core1"} \X (SharedUnits \cup {"MXU", "VPU", "WDQ"})
=============================================================================
