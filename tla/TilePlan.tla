------------------------------- MODULE TilePlan -------------------------------
(***************************************************************************)
(* scheduler/tile.py: plan_tiling_artifact, run on the plan that           *)
(* plan_memory_artifact returned.  One step makes the candidates of one    *)
(* node and ranks them; nodes that are neither matrix products nor         *)
(* attention get none.  scale is a quotient of two row counts, and is kept *)
(* exact here; the two maps of staged bytes, by source kind and by backing *)
(* store, have the same sum, which is what the ranking reads.  The rows    *)
(* and columns of the MXU are those of the target; memory.py reads neither *)
(* and plans for 128.                                                      *)
(***************************************************************************)
EXTENDS MemoryPlan

CONSTANT Mxus           \* capabilities.mxu of the targets

ASSUME MxusAssumption == Mxus \subseteq [rows : Nat \ {0}, cols : Nat \ {0}]

VARIABLES mxu,
          candidates    \* of each node passed, the best first

PrefillTemplate == <<64, 48, 32, 24, 16, 12, 8, 4, 2, 1>>

AllocationsOf(v) == {a \in ToSet(allocations) : a.node = v.id}

(* round(): ties go to the even neighbour. *)
RoundHalfEven(num, den) ==
  LET q == num \div den
      r == num % den
  IN  IF 2 * r > den \/ (2 * r = den /\ q % 2 = 1) THEN q + 1 ELSE q

MutScaledBytes(a, m, base) == AtLeast1(RoundHalfEven(a.size * m, base))

(* _scaled_allocation_bytes: what is stored outside stays as large as it is. *)
ScaledBytes(a, m, base) ==
  IF a.role \in {"weight", "quant_param"} THEN a.size
  ELSE AtLeast1(RoundHalfEven(a.size * m, base))

(* What the candidate of m rows reads of the allocations. *)
Scaled(m, base) ==
  [i \in DOMAIN allocations |->
     LET a == allocations[i] IN
     [node |-> a.node, role |-> a.role, region |-> a.region, binding |-> a.binding,
      size |-> ScaledBytes(a, m, base)]]

WithRole(which, roles) == {a \in which : a.role \in roles}

TileColumns(v) == Smaller(mxu.cols, LogicalN(v))

QuantAligned(v, k) == v.quantised => k % v.group = 0 \/ v.group % k = 0

(* _build_candidate *)
Candidate(v, m, base, k) ==
  LET scaled == Scaled(m, base)
      own == {a \in ToSet(scaled) : a.node = v.id}
  IN
  [id |-> <<v.id, m, TileColumns(v), k>>, node |-> v.id, m |-> m, n |-> TileColumns(v), k |-> k,
   read |-> Total(scaled, WithRole(own, {"input", "weight", "quant_param", "kv_cache"})),
   write |-> Total(scaled, WithRole(own, {"output"})),
   vmem |-> Total(scaled, {a \in own : a.region \in Region}),
   pressure |-> [r \in Region |-> Total(scaled, {a \in own : a.region = r})],
   staged |-> Total(scaled, {a \in WithRole(own, {"weight", "quant_param", "kv_cache"}) :
                               a.binding \in DOMAIN bindings}),
   aligned |-> QuantAligned(v, k)]

(* _fallback_logical_m_dimension: a row, of a shape with one dimension. *)
FallbackM(v) == IF Len(v.shape) <= 1 THEN 1 ELSE LogicalM(v)

MutAccumulatedRows(v) == LogicalM(v)

(* _infer_gemm_base_m_tile: the rows of so many columns the accumulator has room for. *)
AccumulatedRows(v) ==
  LET accum == {a \in AllocationsOf(v) : a.region = "accum" /\ a.tensor = "accum"}
      bytes == Total(allocations, accum)
  IN  IF bytes > 0 THEN AtLeast1(bytes \div (TileColumns(v) * 4)) ELSE FallbackM(v)

(* _prefill_m_tile_candidates: the base and the next ones of the template, four in all. *)
PrefillRows(base) ==
  LET below == SmallestOf({i \in 1..11 : i = 11 \/ PrefillTemplate[i] < base}) IN
  <<base>> \o SubSeq(PrefillTemplate, below, Smaller(below + 2, 10))

GemmCandidates(v) ==
  LET base == AccumulatedRows(v)
      rows == IF scenario.mode = "decode" THEN <<1>> ELSE PrefillRows(base)
  IN  [i \in DOMAIN rows |-> Candidate(v, rows[i], base, Smaller(mxu.rows, AtLeast1(v.kTile)))]

AttentionBase(v) ==
  IF scenario.mode = "decode" \/ v.macro = "SDPA_DECODE" THEN 1
  ELSE AtLeast1(Smaller(scenario.query, 16))

(* The base and, of 8 and 4, what is not above it: a base of 8 or 4 is listed twice. *)
AttentionRows(base) ==
  CASE base < 4              -> <<base>>
    [] base \in 4..7         -> <<base, 4>>
    [] base > 7              -> <<base, 8, 4>>

AttentionCandidates(v) ==
  LET base == AttentionBase(v)
      rows == AttentionRows(base)
  IN  [i \in DOMAIN rows |->
         Candidate(v, rows[i], base, Smaller(mxu.rows, AtLeast1(HeadDim(v, scenario))))]

(* The first position where two keys of equal length differ decides. *)
KeyLess(a, b) ==
  \E i \in DOMAIN a : a[i] < b[i] /\ \A j \in 1..(i - 1) : a[j] = b[j]

(* _candidate_rank_key, without the id: candidates that agree on the rest are equal. *)
RankKey(c) ==
  IF scenario.mode = "decode" THEN <<c.vmem, c.read, c.m>> ELSE <<-c.m, c.vmem, c.staged>>

(* _rank_candidates *)
Ranked(cs) ==
  LET places == CHOOSE p \in Bijection(DOMAIN cs, DOMAIN cs) :
                  \A i, j \in DOMAIN cs :
                    i < j => ~ KeyLess(RankKey(cs[p[j]]), RankKey(cs[p[i]]))
  IN  [i \in DOMAIN cs |-> cs[places[i]]]

NodeCandidates(v) ==
  CASE v.macro \in GemmLikeMacros -> Ranked(GemmCandidates(v))
    [] v.macro \in SdpaMacros     -> Ranked(AttentionCandidates(v))
    [] OTHER                      -> <<>>

TileInit == Init /\ mxu \in Mxus /\ candidates = <<>>

PlanMemory == Next /\ UNCHANGED <<mxu, candidates>>

TileNode ==
  /\ phase = "done" /\ Len(candidates) < Len(nig)
  /\ candidates' = Append(candidates, NodeCandidates(nig[Len(candidates) + 1]))
  /\ UNCHANGED <<vars, mxu>>

TileNext == PlanMemory \/ TileNode

TileSpec == TileInit /\ [][TileNext]_<<vars, mxu, candidates>>

-----------------------------------------------------------------------------

(* The two planners count the rows of an attention node differently: tile.py takes the
   query for them, and a SDPA_DECODE for one row, memory.py the rows of the shape. *)
SameRows(v) ==
  v.macro \in SdpaMacros /\ scenario.mode = "prefill" =>
    v.macro = "SDPA" /\ Smaller(LogicalM(v), 16) = Smaller(scenario.query, 16)

(* A decode offers one row of a product.  Where the accumulator, planned for wider
   columns, has room for more rows of the MXU's, that is only part of the plan. *)
PartOfPlan(v, top, tile) ==
  scenario.mode = "decode" /\ v.macro \in GemmLikeMacros /\ top.n < tile.n

(* The candidate ranked first, which is the one the dual-core planner takes, stays
   within the tile the memory plan was made for.  A product of more than one row needs
   no more accumulator than was allocated, however wide the MXU is.  The rows that
   tile.py works out again, from the bytes of the accumulator or from the length of the
   query, are those memory.py sized the buffers with: for a product if the MXU is as
   wide as memory.py takes it to be, so that the tile has the columns it planned, and
   for attention if its query and shape have the same rows.  What the candidate claims
   of each region is never more than what was allocated there, and exactly that unless
   it is part of the plan only, so the fit diagnostics speak of it. *)
TopIsPlanned ==
  \A i \in DOMAIN candidates :
    LET v == nig[i]
        top == Head(candidates[i])
        tile == TileShape(v, i)
        allocated(r) == Total(allocations, {a \in AllocationsOf(v) : a.region = r})
        product == v.macro \in GemmLikeMacros
    IN  candidates[i] # <<>> =>
          /\ product /\ top.m > 1 => top.m * top.n <= tile.m * tile.n
          /\ SameRows(v) /\ (product => top.n = tile.n) => top.m = tile.m
          /\ \A r \in Region : top.pressure[r] <= allocated(r)
          /\ ~ PartOfPlan(v, top, tile) =>
               \A r \in Region : top.pressure[r] = allocated(r)

(* Going down the ranks a working set never grows: in no region, in what is read, in
   what is written, and in the rows. What is staged of weights is the same for every
   candidate, and at most four are offered. *)
RanksShrink ==
  \A i \in DOMAIN candidates :
    LET cs == candidates[i]
        stored == WithRole(AllocationsOf(nig[i]), {"weight", "quant_param"})
    IN  /\ Len(cs) <= 4
        /\ \A p, q \in DOMAIN cs : p < q =>
             /\ cs[p].m >= cs[q].m /\ cs[p].read >= cs[q].read /\ cs[p].write >= cs[q].write
             /\ \A r \in Region : cs[p].pressure[r] >= cs[q].pressure[r]
        /\ \A p \in DOMAIN cs :
             cs[p].read >= Total(allocations, stored)
=============================================================================
