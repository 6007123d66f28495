--------------------------- MODULE MCStageDuration ---------------------------
(* Every macro with its stages, with counts small enough to meet every clamp
   and large enough for the divisions by 2, 4 and 8 to round both ways; and nodes
   whose counts are derived from shapes around the widths of the target. *)
EXTENDS StageDuration, SlotCounts

Base == [load |-> 1, write |-> 1, side |-> 1, vector |-> 1, body |-> 1, overhead |-> 1,
         score |-> 1, stream |-> 1, summarised |-> TRUE]

Ask(macro, stage, units, cost) ==
  [macro |-> macro, stage |-> stage, units |-> units, cost |-> cost]

(* Derived counts. *)
Target == [lanes |-> 2, sublanes |-> 2, engines |-> 8, dma |-> 4, link |-> 3]

Attention == [query |-> 2, kv |-> 3, heads |-> 2, headDim |-> 2, kvHeads |-> 1]

MkNode(macro, shape, op) ==
  [macro |-> macro, shape |-> shape, kTile |-> 4, group |-> 3, outputs |-> 2,
   scaled |-> op = "scaled", op |-> op,
   attention |-> IF macro \in {"SDPA", "SDPA_DECODE", "KVSTORE"} THEN Attention ELSE NoAttention]

Tiles ==
  {NoTile} \cup {[m |-> n, n |-> 3, k |-> 4, reads |-> n * 9, writes |-> n * 5, summarised |-> b] :
                  n \in 1..2, b \in BOOLEAN}

Placed == <<[role |-> "input", size |-> 10], [role |-> "weight", size |-> 7],
            [role |-> "temp", size |-> 3], [role |-> "output", size |-> 6]>>

DerivedAt ==
  {<<m, "dma_in", {"DMA"}>> : m \in TailMacros \cup {"GEMM", "KVSTORE"}}
  \cup {<<m, "store", {"DMA"}>> : m \in PrefixMacros \cup FoldedMacros \cup {"GEMM"}}
  \cup {<<m, "prepare", {"VPU"}>> : m \in {"ROPE", "ATTENTION_MASK_PREP"}}
  \cup {<<m, "compute", {"VPU"}>> : m \in {"RMSNORM", "ATTENTION_MASK_PREP", "ROPE_TABLE"}}
  \cup {<<m, "compute", {"MXU", "VPU"}>> : m \in {"GEGLU", "RMSNORM_GEMM", "SDPA"}}
  \cup {<<"WDQ_GEMM", "compute", {"WDQ", "MXU"}>>, <<"SDPA_DECODE", "compute", {"DMA", "VPU"}>>}

Derived ==
  {Ask(d[1], d[2], d[3],
       StageCost(MkNode(d[1], shape, op), d[2], tile, Placed, Target)) :
     d \in DerivedAt, shape \in {<<>>, <<0>>, <<2, 3>>, <<4, 0, 300>>},
     op \in {"Add", "ScatterND", "scaled"}, tile \in Tiles}

MCRequests ==
  {Ask(m, "dma_in", {"DMA"}, [Base EXCEPT !.load = n, !.side = s]) :
     m \in TailMacros \cup {"GEMM", "SDPA"}, n \in 1..4, s \in 1..4}
  \cup {Ask(m, "store", {"DMA"}, [Base EXCEPT !.write = n, !.side = s]) :
     m \in PrefixMacros \cup FoldedMacros \cup {"GEMM"}, n \in 1..4, s \in 1..4}
  \cup {Ask(m, "prepare", {"VPU"}, [Base EXCEPT !.vector = n]) :
     m \in {"SDPA", "ROPE", "GEGLU"}, n \in 1..3}
  \cup {Ask(m, "compute", {"MXU", "VPU"}, [Base EXCEPT !.body = n, !.overhead = s]) :
     m \in {"RMSNORM_GEMM", "SDPA"}, n \in 1..6, s \in 1..9}
  \cup {Ask("WDQ_GEMM", "compute", {"WDQ", "MXU"}, [Base EXCEPT !.body = n, !.overhead = s]) :
     n \in 1..10, s \in 1..10}
  \cup {Ask("GEGLU", "compute", {"MXU", "VPU"}, [Base EXCEPT !.vector = n]) : n \in 1..34}
  \cup {Ask("SDPA_DECODE", "compute", {"DMA", "VPU"},
            [Base EXCEPT !.score = n, !.stream = s, !.summarised = b]) :
     n \in 1..4, s \in 1..4, b \in BOOLEAN}
  \cup {Ask("GEMM", "compute", {"MXU"}, [Base EXCEPT !.body = n]) : n \in 1..3}
  \cup Derived

MCTransfers ==
  {[units |-> {u}, transport |-> n, sync |-> s] :
     u \in {"DMA", "Core Link"}, n \in 1..4, s \in 0..4}
  \cup {[units |-> {IF kind = "core_link" THEN "Core Link" ELSE "DMA"},
         transport |-> TransportSlots(bytes, kind, Target), sync |-> s] :
           kind \in {"core_link", "dma"}, bytes \in {1, 4, 12, 13}, s \in 0..2}
=============================================================================
