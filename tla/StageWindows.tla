----------------------------- MODULE StageWindows -----------------------------
(***************************************************************************)
(* scheduler/duration.py: how many slots a stage takes, and which window   *)
(* of it each resource is held for.                                        *)
(*                                                                         *)
(* The slot counts that duration.py derives from shapes, tile sizes and    *)
(* bandwidths (each of them max(1, ceil(x / y))) are given as a record     *)
(*   load, write    DMA transport of the stage's bytes                     *)
(*   side           the vector or dequantisation slots beside a transport  *)
(*   vector         a vector stage, its complexity factor included         *)
(*   body, overhead the matrix body and its vector overhead                *)
(*   score, stream  SDPA_DECODE's vector and streaming slots               *)
(*   summarised     whether the tile candidate has a resource summary      *)
(* What is done with them, in both halves of the file, is modelled in full. *)
(***************************************************************************)
EXTENDS Integers

CeilDiv(a, b) == (a + b - 1) \div b
Least(a, b)    == IF a <= b THEN a ELSE b
Greatest(a, b) == IF a >= b THEN a ELSE b

GemmLikeMacros == {"GEMM", "WDQ_GEMM", "RMSNORM_GEMM", "SDPA"}
VectorStageMacros ==
  {"RMSNORM", "ELEM_ADD", "GEGLU", "ROPE", "ATTENTION_MASK_PREP", "EMBEDDING_LOOKUP",
   "SHAPE_HELPER", "LAYOUT_FALLBACK"}

(* Stages whose transport is followed, or preceded, by work on another unit. *)
TailMacros    == {"WDQ_GEMM", "ROPE_TABLE", "EMBEDDING_LOOKUP", "KVLOAD"}
PrefixMacros  == {"KVSTORE", "ATTENTION_MASK_PREP", "ELEM_ADD", "RMSNORM", "EMBEDDING_LOOKUP",
                  "GEGLU", "ROPE"}
\* Only the reservations know these prefixes; the duration leaves them out.
FoldedMacros  == {"LAYOUT_FALLBACK", "SDPA", "SDPA_DECODE"}

StageNames == {"dma_in", "prepare", "compute", "store"}

Counts == {"load", "write", "side", "vector", "body", "overhead", "score", "stream"}

(* duration.py clamps every count to at least one slot. *)
IsCost(c) == c.summarised \in BOOLEAN /\ \A f \in Counts : c[f] \in Nat \ {0}

-----------------------------------------------------------------------------
(* estimate_stage_duration_slots                                            *)

MutDmaStageSlots(macro, stage, c) ==
  IF stage = "dma_in" THEN c.load
  ELSE c.write + (IF macro \in PrefixMacros THEN c.side ELSE 0)

(* _dma_stage_slot_breakdown, summed *)
DmaStageSlots(macro, stage, c) ==
  IF stage = "dma_in"
  THEN c.load + (IF macro \in TailMacros THEN c.side ELSE 0)
  ELSE c.write + (IF macro \in PrefixMacros THEN c.side ELSE 0)

ComputeSlots(macro, c) ==
  CASE macro = "SDPA_DECODE"         -> Greatest(c.score, c.stream)
    [] macro \in GemmLikeMacros      -> c.body + (IF macro = "GEMM" THEN 0 ELSE c.overhead)
    [] macro \in VectorStageMacros   -> c.vector
    [] OTHER                         -> 1

DurationSlots(macro, stage, c) ==
  CASE stage \in {"dma_in", "store"} -> DmaStageSlots(macro, stage, c)
    [] stage = "prepare"             -> c.vector
    [] stage = "compute"             -> ComputeSlots(macro, c)

TransferSlots(transport, sync) == transport + sync

-----------------------------------------------------------------------------
(* estimate_stage_resource_reservations                                     *)

Hold(unit, offset, slots) == [res |-> unit, off |-> offset, len |-> slots]

(* Every unit for the whole stage. *)
HoldAll(units, slots) == {Hold(u, 0, slots) : u \in units}

MutPhased(prefix, middle, tail) ==
  {h \in {Hold("VPU", 0, prefix), Hold("MXU", prefix, middle), Hold("VPU", middle, tail)} :
     h.len > 0 \/ h.res = "MXU"}

(* Vector work, matrix body, vector work, back to back. *)
Phased(prefix, middle, tail) ==
  {h \in {Hold("VPU", 0, prefix), Hold("MXU", prefix, middle),
          Hold("VPU", prefix + middle, tail)} : h.len > 0 \/ h.res = "MXU"}

(* _geglu_compute_phase_slots *)
GegluPhases(slots) ==
  IF slots <= 2
  THEN <<0, Greatest(1, slots - 1), 1>>
  ELSE LET tail0  == CeilDiv(slots, 4)
           prefix == Least(CeilDiv(slots, 8), Greatest(1, slots - tail0 - 1))
           middle == Greatest(1, slots - prefix - tail0)
       IN <<prefix, middle, Greatest(1, slots - prefix - middle)>>

MutSdpaPhases(slots, overhead) ==
  LET clamped == Least(Greatest(1, overhead), Greatest(1, slots - 1))
  IN <<CeilDiv(clamped, 2), Greatest(1, slots - clamped), 0>>

(* _sdpa_compute_phase_slots *)
SdpaPhases(slots, overhead) ==
  IF slots <= 1
  THEN <<0, 1, 0>>
  ELSE LET clamped == Least(Greatest(1, overhead), Greatest(1, slots - 1))
           prefix0 == CeilDiv(clamped, 2)
           tail0   == clamped - prefix0
           prefix  == Least(prefix0, Greatest(1, slots - tail0 - 1))
           middle  == Greatest(1, slots - prefix - tail0)
       IN <<prefix, middle, Greatest(0, slots - prefix - middle)>>

(* The slots before, and after, a DMA stage's transport.  KVSTORE's prefix is
   the only one that is not clamped to leave the transport a slot. *)
DmaPrefix(macro, stage, slots, c) ==
  CASE stage = "store" /\ macro = "KVSTORE" -> c.side
    [] stage = "store" /\ macro \in (PrefixMacros \cup FoldedMacros) \ {"KVSTORE"}
                                            -> Least(Greatest(0, slots - 1), c.side)
    [] OTHER                                -> 0

DmaTail(macro, stage, c) ==
  IF stage = "dma_in" /\ macro \in TailMacros THEN c.side ELSE 0

SideUnit(macro) == IF macro = "WDQ_GEMM" THEN "WDQ" ELSE "VPU"

MutSplitDma(macro, stage, slots, c) ==
  LET prefix    == DmaPrefix(macro, stage, slots, c)
      tail      == DmaTail(macro, stage, c)
      transport == Greatest(1, slots - prefix)
  IN {h \in {Hold("VPU", 0, prefix), Hold("DMA", prefix, transport),
             Hold(SideUnit(macro), transport, tail)} : h.len > 0}

(* prefix on VPU, transport on DMA, tail on the side unit *)
SplitDma(macro, stage, slots, c) ==
  LET prefix    == DmaPrefix(macro, stage, slots, c)
      tail      == DmaTail(macro, stage, c)
      transport == Greatest(1, slots - prefix - tail)
  IN {h \in {Hold("VPU", 0, prefix), Hold("DMA", prefix, transport),
             Hold(SideUnit(macro), transport, tail)} : h.len > 0}

(* Windows of a compute stage of more than one slot that uses several units. *)
SplitCompute(macro, units, slots, c) ==
  LET overhead == Least(Greatest(1, c.overhead), Greatest(1, slots - 1))
      mixed    == {"MXU", "VPU"} \subseteq units
      dma      == IF c.summarised THEN c.stream ELSE slots
      wdq      == CeilDiv(slots, 8)
  IN
  CASE macro = "SDPA_DECODE" /\ {"DMA", "VPU"} \subseteq units ->
         {Hold("DMA", 0, Least(slots, dma)), Hold("VPU", 0, Least(slots, c.score))}
    [] macro = "RMSNORM_GEMM" /\ mixed ->
         {Hold("VPU", 0, overhead), Hold("MXU", overhead, Greatest(1, slots - overhead))}
    [] macro = "SDPA" /\ mixed ->
         LET p == SdpaPhases(slots, overhead) IN Phased(p[1], p[2], p[3])
    [] macro = "GEGLU" /\ mixed ->
         LET p == GegluPhases(slots) IN Phased(p[1], p[2], p[3])
    [] macro = "WDQ_GEMM" /\ {"WDQ", "MXU"} \subseteq units ->
         {Hold("WDQ", 0, wdq), Hold("MXU", wdq, Greatest(1, slots - wdq))}
    [] OTHER -> HoldAll(units, slots)

(* Whether a DMA stage of the macro is split at all. *)
Splits(macro, stage) ==
  IF stage = "dma_in" THEN macro \in TailMacros
  ELSE macro \in PrefixMacros \cup FoldedMacros

StageReservations(macro, stage, units, slots, c) ==
  CASE stage \in {"dma_in", "store"} /\ "DMA" \in units /\ Splits(macro, stage) ->
         SplitDma(macro, stage, slots, c)
    [] stage = "compute" /\ slots > 1 -> SplitCompute(macro, units, slots, c)
    [] OTHER -> HoldAll(units, slots)

MutTransferReservations(units, slots, sync) ==
  HoldAll(units, slots) \cup {Hold("SYNC", slots - sync, sync)}

(* A transfer holds its link for the transport and SYNC for the rest. *)
TransferReservations(units, slots, sync) ==
  LET transport == Greatest(1, slots - sync) IN
  HoldAll(units, transport)
    \cup {h \in {Hold("SYNC", transport, slots - transport)} : h.len > 0}
=============================================================================
