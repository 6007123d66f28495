------------------------------ MODULE SlotCounts ------------------------------
(***************************************************************************)
(* scheduler/duration.py: the slot counts of a stage, from the node's      *)
(* shapes, its tile candidate, its allocations and the target.             *)
(*                                                                         *)
(*   v       a bound node: macro, shape (resolved), kTile, group, outputs  *)
(*           (how many), scaled (scaled_output), op (original_op_kind) and *)
(*           attention, a record or NoAttention                            *)
(*   tile    a tile candidate: m, n, k, reads, writes, and summarised; or  *)
(*           NoTile                                                        *)
(*   placed  the node's allocations: sequence of [role, size]              *)
(*   target  lanes, sublanes, engines (rows times columns of the MXU) and  *)
(*           the bandwidths dma and link, in whole bytes per slot          *)
(***************************************************************************)
EXTENDS StageWindows, SequencesExt

NoTile == [m |-> 0, n |-> 0, k |-> 0, reads |-> 0, writes |-> 0, summarised |-> FALSE]
NoAttention == [query |-> 0, kv |-> 0, heads |-> 0, headDim |-> 0, kvHeads |-> 0]

(* max(1, n) *)
AtLeastOne(n) == IF n \in Nat \ {0} THEN n ELSE 1

(* Slots for n pieces of work, so many of them in a slot. *)
SlotsFor(n, each) == AtLeastOne(CeilDiv(n, AtLeastOne(each)))

(* _dma_stage_bytes and _sdpa_decode_stream_bytes *)
RolesLoaded   == {"input", "weight", "quant_param", "kv_cache", "metadata", "temp"}
RolesStored   == {"output", "temp"}
RolesStreamed == {"input", "kv_cache", "metadata", "temp"}

Summarised(tile) == tile.summarised

BytesOf(roles, placed) ==
  FoldLeft(LAMBDA n, a : IF a.role \in roles THEN n + a.size ELSE n, 0, placed)

Moved(tile, roles, placed) ==
  AtLeastOne(IF ~ Summarised(tile) THEN BytesOf(roles, placed)
             ELSE IF roles = RolesStored THEN tile.writes ELSE tile.reads)

(* _tile_shape *)
Tile(v, tile) ==
  CASE tile # NoTile  -> tile
    [] OTHER          -> [m |-> IF v.shape = <<>> THEN 1 ELSE AtLeastOne(Head(v.shape)),
                          n |-> IF v.shape = <<>> THEN 1 ELSE AtLeastOne(Last(v.shape)),
                          k |-> AtLeastOne(v.kTile)]

(* _vector_element_count: SDPA_DECODE, and every macro without a tile, works on the
   whole tensor whatever the tile that is moved. *)
VectorElements(v, tile) ==
  IF tile # NoTile /\ v.macro \in GemmLikeMacros THEN AtLeastOne(tile.m * tile.n)
  ELSE FoldLeft(LAMBDA n, dim : n * AtLeastOne(dim), 1, v.shape)

Complexity(op) == IF op = "ScatterND" THEN 4 ELSE IF op = "Trilu" THEN 2 ELSE 1

(* _vector_stage_factor_for_node *)
Factor(v, stage) ==
  CASE v.macro = "ATTENTION_MASK_PREP" /\ stage = "compute" -> 2 * Complexity(v.op)
    [] v.macro = "GEGLU" /\ stage = "compute"               -> 3
    [] v.macro = "RMSNORM" /\ stage = "compute"             -> 2
    [] v.macro \in {"GEGLU", "ROPE", "ATTENTION_MASK_PREP", "LAYOUT_FALLBACK"}
         /\ stage \in {"prepare", "compute"}                -> 2
    [] OTHER                                                -> 1

(* _attention_score_element_count, of a node that binding gave no attention one. *)
Scores(v) ==
  IF v.attention = NoAttention THEN 1
  ELSE AtLeastOne(v.attention.query * v.attention.kv * v.attention.heads)

(* _kv_layout_vector_slots *)
KvElements(v) ==
  IF v.attention # NoAttention
  THEN AtLeastOne(v.attention.query * v.attention.headDim * v.attention.kvHeads)
  ELSE IF v.shape = <<>> THEN 1 ELSE AtLeastOne(Last(v.shape))

(* The vector or dequantisation slots before a store and behind a load. *)
PackedPerLane ==
  [ELEM_ADD |-> 512, RMSNORM |-> 256, GEGLU |-> 128, ATTENTION_MASK_PREP |-> 128,
   SDPA |-> 64, SDPA_DECODE |-> 64, LAYOUT_FALLBACK |-> 64, ROPE |-> 32]

LoadSide(v, tile, target) ==
  CASE v.macro = "WDQ_GEMM" ->
         SlotsFor(Tile(v, tile).m * SlotsFor(Tile(v, tile).k, v.group), target.sublanes)
    [] v.macro = "ROPE_TABLE" ->
         SlotsFor(VectorElements(v, tile) * AtLeastOne(v.outputs) * 2, target.lanes)
    [] v.macro = "EMBEDDING_LOOKUP" -> SlotsFor(VectorElements(v, tile), target.lanes)
    [] v.macro = "KVLOAD" -> SlotsFor(KvElements(v), target.lanes)
    [] OTHER -> 1

StoreSide(v, tile, target) ==
  CASE v.macro = "KVSTORE" -> SlotsFor(KvElements(v), target.lanes)
    [] v.macro = "EMBEDDING_LOOKUP" ->
         SlotsFor(VectorElements(v, tile), target.lanes * (IF v.scaled THEN 128 ELSE 256))
    [] v.macro \in DOMAIN PackedPerLane ->
         LET complexity == IF v.macro = "ATTENTION_MASK_PREP" THEN Complexity(v.op) ELSE 1
         IN  SlotsFor(VectorElements(v, tile) * complexity, target.lanes * PackedPerLane[v.macro])
    [] OTHER -> 1

(* _mixed_engine_compute_overhead_slots *)
Overhead(v, tile, target) ==
  CASE v.macro = "WDQ_GEMM"     -> SlotsFor(Tile(v, tile).m * Tile(v, tile).k, target.lanes)
    [] v.macro = "RMSNORM_GEMM" -> SlotsFor(VectorElements(v, tile), target.lanes)
    [] v.macro = "SDPA"         -> SlotsFor(Scores(v), target.lanes)
    [] OTHER                    -> 1

(* The counts that StageWindows puts together; where a macro has no use for one it is 1. *)
StageCost(v, stage, tile, placed, target) ==
  LET t == Tile(v, tile) IN
  [load       |-> SlotsFor(Moved(tile, RolesLoaded, placed), target.dma),
   write      |-> SlotsFor(Moved(tile, RolesStored, placed), target.dma),
   stream     |-> SlotsFor(Moved(tile, RolesStreamed, placed), target.dma),
   side       |-> IF stage = "dma_in" THEN LoadSide(v, tile, target)
                  ELSE StoreSide(v, tile, target),
   vector     |-> AtLeastOne(SlotsFor(VectorElements(v, tile), target.lanes) * Factor(v, stage)),
   body       |-> SlotsFor(t.m * t.n * t.k, target.engines),
   overhead   |-> Overhead(v, tile, target),
   score      |-> SlotsFor(Scores(v), target.lanes),
   summarised |-> Summarised(tile)]

(* estimate_transfer_timing_slots *)
TransportSlots(bytes, kind, target) ==
  SlotsFor(bytes, IF kind = "core_link" THEN target.link ELSE target.dma)
===============================================================================
