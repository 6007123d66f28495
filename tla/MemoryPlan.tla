------------------------------ MODULE MemoryPlan ------------------------------
(***************************************************************************)
(* scheduler/memory.py: plan_memory_artifact.  One step plans one node of  *)
(* a bound NIGIR: its allocations, the storage bindings and KV formulas    *)
(* they need, and the peaks of the VMEM regions.                           *)
(*                                                                         *)
(* An allocation names its binding by what the binding's id is put together *)
(* from.  Sums by memory class and backing store, of which a region's      *)
(* summary has those of its peak, follow from the allocations listed there. *)
(***************************************************************************)
EXTENDS NodeBinding

CONSTANTS Sanitize,      \* _sanitize_symbol_component, on the names of Tensor
          Nigs,          \* lists of bound nodes
          Scenarios,
          Profiles       \* region_capacities: bytes of the regions a target has

Region  == {"ping", "pong", "weight", "accum", "misc", "wdq_reserved", "quant"}
Buckets == <<"preload", "compute", "store", "persist">>
NoBucket  == "no bucket"
NoBinding == <<>>

ASSUME ProfilesAssumption == \A c \in Profiles : c \in [DOMAIN c -> Nat \ {0}]

GemmLikeMacros == {"GEMM", "WDQ_GEMM", "RMSNORM_GEMM"}

(* What QuantBinding's fields allow, and FrontendShapeBinding's. *)
IsBoundNode(v) ==
  /\ v.inputs \in Seq(Tensor) /\ v.outputs \in Seq(Tensor)
  /\ v.shape \in Seq(Int)
  /\ v.fallback \in MemoryClass
  /\ v.weights \in Nat
  /\ v.activations \in Nat \ {0} /\ v.group \in Nat \ {0}
  /\ v.headDim \in Int /\ v.kTile \in Int
  /\ v.layer \in Nat \cup {NoLayer}
  /\ v.quantised \in BOOLEAN /\ v.bound \in BOOLEAN

(* NIGIR's validator: node ids are unique.  A matrix product and a table lookup
   have one output, as the ONNX operators they come from do. *)
IsNig(g) ==
  /\ g \in Seq(ToSet(g))
  /\ \A i \in DOMAIN g :
       /\ IsBoundNode(g[i])
       /\ g[i].macro \in GemmLikeMacros \cup {"EMBEDDING_LOOKUP"} => Len(g[i].outputs) <= 1
  /\ \A i, j \in DOMAIN g : g[i].id = g[j].id => i = j

ASSUME NigsAssumption == \A g \in Nigs : IsNig(g)

IsScenario(s) ==
  /\ s.mode \in {"prefill", "decode"}
  /\ s.query \in Nat \ {0} /\ s.pastLen \in Nat
  /\ s.kvHeads \in Nat \ {0} /\ s.headDim \in Nat \ {0}

ASSUME ScenariosAssumption == \A s \in Scenarios : IsScenario(s)

VARIABLES nig, scenario, capacity,   \* the arguments
          phase,
          index,         \* node_index
          allocations,
          bindings,      \* storage_bindings_by_id
          formulas,      \* kv_formulas
          addresses,     \* address_diagnostics, a set
          peak,          \* of each region: bytes, bucket, set of allocation ids, offending nodes
          bucketPeak     \* peak_bytes_by_region_and_bucket

vars == <<nig, scenario, capacity, phase, index, allocations, bindings, formulas,
          addresses, peak, bucketPeak>>

-----------------------------------------------------------------------------
(* Sizes.                                                                  *)

AtLeast1(n) == IF n < 1 THEN 1 ELSE n
Smaller(a, b) == IF a < b THEN a ELSE b
Greater(a, b) == IF a < b THEN b ELSE a
SmallestOf(S) == CHOOSE n \in S : \A m \in S : n <= m

(* Whole bytes of n elements of h half bytes: math.ceil for a shape, elsewhere an
   int field that takes a whole number only, which all sizes here are. *)
Bytes(n, h) == AtLeast1((n * h + 1) \div 2)

Elements(shape) ==
  LET ofFirst[n \in 0..Len(shape)] ==
        IF n = 0 THEN 1 ELSE ofFirst[n - 1] * AtLeast1(shape[n])
  IN  ofFirst[Len(shape)]

ShapeBytes(v) == Bytes(Elements(v.shape), v.activations)

(* _logical_m_dimension, and the last dimension. *)
LogicalM(v) ==
  CASE v.shape = <<>>     -> 1
    [] Len(v.shape) = 1   -> AtLeast1(v.shape[1])
    [] Len(v.shape) > 1   -> Elements(Front(v.shape))

LogicalN(v) == IF v.shape = <<>> THEN 1 ELSE AtLeast1(Last(v.shape))

EffectiveWeights(v) == IF v.weights = NoDtype THEN v.activations ELSE v.weights

MutMaxFitRows(region, halfBytes) ==
  IF region \in DOMAIN capacity THEN (2 * capacity[region]) \div halfBytes ELSE 1

(* _max_fit_rows, for rows of so many half bytes; a missing region fits one. *)
MaxFitRows(region, halfBytes) ==
  IF region \in DOMAIN capacity THEN AtLeast1((2 * capacity[region]) \div halfBytes) ELSE 1

StreamingMacros == {"GEGLU", "ROPE", "RMSNORM", "ELEM_ADD"} \cup SdpaMacros
VpuTempMacros ==
  {"RMSNORM", "GEGLU", "ROPE", "ELEM_ADD", "ATTENTION_MASK_PREP", "LAYOUT_FALLBACK",
   "SHAPE_HELPER"} \cup SdpaMacros

(* Nodes take turns with the regions of their inputs and outputs. *)
InRegion(n)  == IF n % 2 = 1 THEN "ping" ELSE "pong"
OutRegion(n) == IF n % 2 = 1 THEN "pong" ELSE "ping"

MutGemmTile(v, n) ==
  LET width == Smaller(128, LogicalN(v)) IN
  [m |-> SmallestOf({IF scenario.mode = "decode" THEN 1 ELSE 64,
                     LogicalM(v),
                     MaxFitRows("accum", width * 8),
                     MaxFitRows(InRegion(n), 128 * v.activations)}),
   n |-> width, k |-> 128]

GemmTile(v, n) ==
  LET width == Smaller(128, LogicalN(v)) IN
  [m |-> SmallestOf({IF scenario.mode = "decode" THEN 1 ELSE 64,
                     LogicalM(v),
                     MaxFitRows("accum", width * 8),
                     MaxFitRows(InRegion(n), 128 * v.activations),
                     MaxFitRows(OutRegion(n), width * v.activations)}),
   n |-> width, k |-> 128]

EmbeddingTile(v, n) ==
  LET dim == LogicalN(v) IN
  [m |-> SmallestOf({LogicalM(v), MaxFitRows("weight", dim * EffectiveWeights(v)),
                     MaxFitRows(OutRegion(n), dim * v.activations)}),
   n |-> dim, k |-> dim]

Square(m, width) == [m |-> AtLeast1(m), n |-> AtLeast1(width), k |-> AtLeast1(width)]

(* _planning_tile_shape *)
TileShape(v, n) ==
  CASE v.macro \in GemmLikeMacros     -> GemmTile(v, n)
    [] v.macro = "EMBEDDING_LOOKUP"   -> EmbeddingTile(v, n)
    [] v.macro \in {"KVLOAD", "KVSTORE"} ->
         Square(IF scenario.mode = "decode" THEN scenario.query ELSE Smaller(scenario.query, 16),
                Smaller(HeadDim(v, scenario), 128))
    [] v.macro \in StreamingMacros \cup {"LAYOUT_FALLBACK"} ->
         Square(Smaller(LogicalM(v), IF scenario.mode = "decode" THEN 1 ELSE 16),
                Smaller(LogicalN(v), 128))
    [] OTHER                          -> [m |-> LogicalM(v), n |-> LogicalN(v), k |-> 128]

TiledInput == {"EMBEDDING_LOOKUP", "LAYOUT_FALLBACK", "KVSTORE"} \cup StreamingMacros

InputBytes(v, tile) ==
  CASE v.macro \in GemmLikeMacros -> Bytes(tile.m * tile.k, v.activations)
    [] v.macro \in TiledInput     -> Bytes(tile.m * tile.n, v.activations)
    [] OTHER                      -> ShapeBytes(v)

OutputBytes(v, tile) ==
  CASE v.macro \in GemmLikeMacros \cup (TiledInput \ {"KVSTORE"}) ->
         Bytes(tile.m * tile.n, v.activations)
    [] v.macro \in {"KVLOAD", "KVSTORE"} -> Smaller(ShapeBytes(v), tile.m * tile.k * 2)
    [] OTHER                      -> ShapeBytes(v)

(* The scale of a fused norm. *)
IsNormScale(v, t) == v.macro = "RMSNORM_GEMM" /\ Len(v.inputs) >= 2 /\ t = v.inputs[2]

TableWidth(v) ==
  IF v.headDim > 0 THEN v.headDim ELSE IF v.shape = <<>> THEN 0 ELSE Last(v.shape)

WeightBytes(v, t, tile) ==
  CASE v.macro = "EMBEDDING_LOOKUP" ->
         IF t = v.inputs[1] THEN Bytes(tile.m * tile.n, EffectiveWeights(v))
         ELSE Bytes(1, v.activations)
    [] v.macro = "ROPE_TABLE"       -> Bytes(AtLeast1(TableWidth(v)) \div 2, EffectiveWeights(v))
    [] IsNormScale(v, t)            -> Bytes(tile.k, EffectiveWeights(v))
    [] OTHER                        -> Bytes(tile.k * tile.n, EffectiveWeights(v))

MiscBytes(v, tile) ==
  IF v.macro = "ROPE"
  THEN Greater(256, Smaller((tile.m * tile.n * v.activations) \div 2, 2048))
  ELSE Greater(256, Smaller(ShapeBytes(v), 4096))

QuantBytes(v, tile) == 2 * AtLeast1((tile.k + v.group - 1) \div v.group)

TokenStride(v) == scenario.kvHeads * HeadDim(v, scenario) * 2

KvBytes(v) == IF HasAttention(v) THEN AtLeast1(KvLen(scenario) * TokenStride(v)) ELSE 1

-----------------------------------------------------------------------------
(* Allocations of one node.                                                *)

(* _kv_tensor_kind: the name decides, and "value" is looked for first. *)
TensorKind(v, t) ==
  CASE "value" \in Says[t]                        -> "value"
    [] Says[t] \cap {"key", "value"} = {"key"}    -> "key"
    [] OTHER -> IF v.kvKind = "value" THEN "value" ELSE "key"

StorageId(role, v, part) == <<role, v.id, part>>

Place(v, prefix, t, role, bucket, class, region, size, binding) ==
  [id |-> <<v.id, prefix, t>>, node |-> v.id, tensor |-> t, role |-> role, bucket |-> bucket,
   class |-> class, region |-> region, size |-> size, binding |-> binding]

KvSlice(v, prefix, t) ==
  Place(v, prefix, t, "kv_cache", "persist", "KV_CACHE", "no region", KvBytes(v),
        StorageId("kv", v, TensorKind(v, t)))

InputAllocation(v, t, n, tile) ==
  LET class == InputClass(v, t) IN
  CASE class = "ACTIVATION" -> Place(v, "input", t, "input", "preload", class, InRegion(n),
                                     InputBytes(v, tile), NoBinding)
    [] class = "WEIGHT" -> Place(v, "weight", t, "weight", "preload", class,
                                 IF IsNormScale(v, t) THEN "misc" ELSE "weight",
                                 WeightBytes(v, t, tile), StorageId("weight", v, Sanitize[t]))
    [] class = "QUANT_PARAM" -> Place(v, "quant", t, "quant_param", "preload", class, "quant",
                                      QuantBytes(v, tile), StorageId("quant", v, Sanitize[t]))
    [] class = "KV_CACHE" -> KvSlice(v, "kv", t)
    [] class = "METADATA" -> Place(v, "meta", t, "metadata", "preload", class, "misc", 256, NoBinding)

OutputAllocation(v, t, n, tile) ==
  LET class == OutputClass(v, t) IN
  CASE class = "ACTIVATION" -> Place(v, "output", t, "output", "store", class, OutRegion(n),
                                     OutputBytes(v, tile), NoBinding)
    [] class = "KV_CACHE" -> KvSlice(v, "output", t)
    [] OTHER -> Place(v, "output", t, "metadata", "store", class, "misc", 256, NoBinding)

Temp(v, t, class, size) == Place(v, "temp", t, "temp", "compute", class, t, size, NoBinding)

(* The lowering leaves quant_mode "none"; that binding resolves it is not read. *)
Temps(v, tile) ==
  (IF v.macro \in GemmLikeMacros
   THEN <<Temp(v, "accum", "ACTIVATION", AtLeast1(tile.m * tile.n * 4))>> ELSE <<>>)
  \o (IF v.quantised THEN <<Temp(v, "wdq_reserved", "QUANT_PARAM", 1024)>> ELSE <<>>)
  \o (IF v.macro \in VpuTempMacros
      THEN <<Temp(v, "misc", "METADATA", MiscBytes(v, tile))>> ELSE <<>>)

(* _plan_node_allocations *)
NodeAllocations(v, n) ==
  LET tile == TileShape(v, n) IN
  [i \in DOMAIN v.inputs |-> InputAllocation(v, v.inputs[i], n, tile)]
  \o [i \in DOMAIN v.outputs |-> OutputAllocation(v, v.outputs[i], n, tile)]
  \o Temps(v, tile)

-----------------------------------------------------------------------------
(* KV formulas.                                                            *)

IsKv(v, t) ==
  \/ t \in ToSet(v.inputs) /\ InputClass(v, t) = "KV_CACHE"
  \/ t \in ToSet(v.outputs) /\ OutputClass(v, t) = "KV_CACHE"

KvTensors(v) == SelectSeq(v.inputs \o v.outputs, LAMBDA t : IsKv(v, t))

KvKinds(v) ==
  CASE v.macro \in {"KVSTORE", "KVLOAD"} ->
         <<IF KvTensors(v) # <<>> THEN TensorKind(v, Head(KvTensors(v)))
           ELSE IF v.kvKind = "value" THEN "value" ELSE "key">>
    [] v.macro \in SdpaMacros -> <<"key", "value">>
    [] OTHER                  -> <<>>

MutFormula(v, kind) ==
  LET kindStride == KvLen(scenario) * TokenStride(v) IN
  [node |-> v.id, kind |-> kind, layer |-> v.layer, kindStride |-> kindStride,
   layerStride |-> kindStride]

Formula(v, kind) ==
  LET kindStride == KvLen(scenario) * TokenStride(v) IN
  [node |-> v.id, kind |-> kind, layer |-> v.layer, kindStride |-> kindStride,
   layerStride |-> 2 * kindStride]

(* _build_kv_formulas *)
NodeFormulas(v) ==
  [i \in DOMAIN KvKinds(v) |-> Formula(v, KvKinds(v)[i])]

-----------------------------------------------------------------------------
(* Storage bindings.                                                       *)

Descriptor(role, t, kind) == [role |-> role, tensor |-> t, kind |-> kind]

NamedAfter(v, kind) ==
  LET ofKind == SelectSeq(KvTensors(v), LAMBDA t : TensorKind(v, t) = kind) IN
  IF ofKind # <<>> THEN Head(ofKind) ELSE "past_" \o kind

Entry(id, descriptor) == [id |-> id, is |-> descriptor]

MutEntries(v, placed) ==
  [i \in DOMAIN placed |->
     LET a == placed[i] IN
     Entry(a.binding, Descriptor(a.role, a.tensor,
       IF a.role = "kv_cache" THEN TensorKind(v, a.tensor) ELSE "no kind"))]

(* What a node registers, in the order of the calls: for its allocations, and for
   its formulas, a slice that only a formula speaks of too. *)
Entries(v, placed) ==
  [i \in DOMAIN placed |->
     LET a == placed[i] IN
     Entry(a.binding, Descriptor(a.role, a.tensor,
       IF a.role = "kv_cache" THEN TensorKind(v, a.tensor) ELSE "no kind"))]
  \o [i \in DOMAIN KvKinds(v) |->
        LET kind == KvKinds(v)[i] IN
        Entry(StorageId("kv", v, kind), Descriptor("kv_cache", NamedAfter(v, kind), kind))]

(* bindings_by_id.setdefault: the first descriptor of an id stays. *)
Registered(byId, entries) ==
  LET ids == {e.id : e \in ToSet(entries)} \ {NoBinding}
      first(id) == SmallestOf({i \in DOMAIN entries : entries[i].id = id})
  IN  [id \in DOMAIN byId \cup ids |->
         IF id \in DOMAIN byId THEN byId[id] ELSE entries[first(id)].is]

Address(v, binding, resolved) == [node |-> v.id, binding |-> binding, resolved |-> resolved]

NodeAddresses(v, placed) ==
  {Address(v, a.binding, TRUE) :
     a \in {b \in ToSet(placed) : b.role \in {"weight", "quant_param"}}}
  \cup {Address(v, StorageId("kv", v, kind), v.layer # NoLayer) : kind \in ToSet(KvKinds(v))}

-----------------------------------------------------------------------------
(* Peaks.                                                                  *)

In(placed, region, bucket) == {a \in ToSet(placed) : a.region = region /\ a.bucket = bucket}

(* The bytes of the allocations of the list that are in the set; one that is listed
   twice, for a tensor that is an input twice, counts twice. *)
Total(placed, which) ==
  LET ofFirst[n \in 0..Len(placed)] ==
        IF n = 0 THEN 0
        ELSE ofFirst[n - 1] + (IF placed[n] \in which THEN placed[n].size ELSE 0)
  IN  ofFirst[Len(placed)]

MutHigher(old, v, bucket, placed, held) ==
  [bytes |-> Total(placed, held), bucket |-> bucket, ids |-> {a.id : a \in held},
   offenders |-> old.offenders \cup {v.id}]

(* A new peak forgets the nodes of the one before. *)
Higher(old, v, bucket, placed, held) ==
  [bytes |-> Total(placed, held), bucket |-> bucket, ids |-> {a.id : a \in held},
   offenders |-> {v.id}]

Raised(old, v, region, bucket, placed) ==
  LET held == In(placed, region, bucket)
      bytes == Total(placed, held)
  IN  CASE bytes > old.bytes -> Higher(old, v, bucket, placed, held)
        [] bytes = old.bytes /\ bytes > 0 -> [old EXCEPT !.offenders = @ \cup {v.id}]
        [] OTHER -> old

(* A node's buckets are looked at in their order. *)
RaisedByNode(old, v, region, placed) ==
  LET after(p, k) == Raised(p, v, region, Buckets[k], placed)
  IN  after(after(after(after(old, 1), 2), 3), 4)

-----------------------------------------------------------------------------

Init ==
  /\ nig \in Nigs
  /\ scenario \in Scenarios
  /\ capacity \in Profiles
  /\ phase = "plan"
  /\ index = 1
  /\ allocations = <<>> /\ formulas = <<>> /\ addresses = {}
  /\ bindings = <<>>
  /\ peak = [r \in Region |-> [bytes |-> 0, bucket |-> NoBucket, ids |-> {}, offenders |-> {}]]
  /\ bucketPeak = [r \in Region |-> [k \in ToSet(Buckets) |-> 0]]

PlanNode ==
  /\ phase = "plan"
  /\ index <= Len(nig)
  /\ LET v == nig[index]
         placed == NodeAllocations(v, index)
     IN  /\ v.bound
         /\ allocations' = allocations \o placed
         /\ bindings' = Registered(bindings, Entries(v, placed))
         /\ formulas' = formulas \o NodeFormulas(v)
         /\ addresses' = addresses \cup NodeAddresses(v, placed)
         /\ peak' = [r \in Region |-> RaisedByNode(peak[r], v, r, placed)]
         /\ bucketPeak' = [r \in Region |-> [k \in ToSet(Buckets) |->
                             Greater(bucketPeak[r][k], Total(placed, In(placed, r, k)))]]
  /\ index' = index + 1
  /\ UNCHANGED <<nig, scenario, capacity, phase>>

(* NIGIR asks some macros for no binding; the planner asks all of them. *)
Refuse ==
  /\ phase = "plan"
  /\ index <= Len(nig)
  /\ ~ nig[index].bound
  /\ phase' = "refused"
  /\ UNCHANGED <<nig, scenario, capacity, index, allocations, bindings, formulas, addresses,
                 peak, bucketPeak>>

(* MemoryPlanArtifact's validator. *)
ReferencesKnown ==
  /\ \A a \in ToSet(allocations) : a.binding # NoBinding => a.binding \in DOMAIN bindings
  /\ \A d \in addresses : d.binding \in DOMAIN bindings

Conclude ==
  /\ phase = "plan"
  /\ index > Len(nig)
  /\ phase' = IF ReferencesKnown THEN "done" ELSE "refused"
  /\ UNCHANGED <<nig, scenario, capacity, index, allocations, bindings, formulas, addresses,
                 peak, bucketPeak>>

Next == PlanNode \/ Refuse \/ Conclude

Spec == Init /\ [][Next]_vars

-----------------------------------------------------------------------------
(* Properties.                                                             *)

Planned == 1..(index - 1)

(* The bytes node i holds of a region in a bucket. *)
Held(i, r, k) ==
  {a \in ToSet(allocations) : a.node = nig[i].id /\ a.region = r /\ a.bucket = k}
Load(i, r, k) == Total(allocations, Held(i, r, k))

(* Type correctness: every tile has a row, a column and a depth, every size is
   positive, as PlannedAllocation demands, and a region's peak is a natural
   number of bytes in one of the four buckets. *)
TypeOK ==
  /\ nig \in Nigs /\ scenario \in Scenarios /\ capacity \in Profiles
  /\ phase \in {"plan", "done", "refused"}
  /\ index \in 1..(Len(nig) + 1)
  /\ \A i \in Planned : TileShape(nig[i], i) \in [m : Nat \ {0}, n : Nat \ {0}, k : Nat \ {0}]
  /\ \A a \in ToSet(allocations) :
       /\ a.size \in Nat \ {0}
       /\ a.region \in Region \cup {"no region"}
       /\ a.bucket \in ToSet(Buckets)
       /\ a.class \in MemoryClass
  /\ \A r \in Region : /\ peak[r].bytes \in Nat
                       /\ peak[r].bucket \in ToSet(Buckets) \cup {NoBucket}
                       /\ bucketPeak[r] \in [ToSet(Buckets) -> Nat]

(* What a fit diagnostic reports of a region is true of the allocations it is made
   from: the peak is the most any node holds at a time, its bucket and its
   allocations are those of one node that holds as much, the offenders are all
   the nodes that do, and each bucket has a peak of its own (memory.py keeps
   these in dicts that different branches of the loop update). *)
PeaksExact ==
  \A r \in Region :
    LET buckets == ToSet(Buckets)
        loads(k) == {Load(i, r, k) : i \in Planned}
        peaked == {i \in Planned : \E k \in buckets : Load(i, r, k) = peak[r].bytes}
    IN  /\ \A k \in buckets : bucketPeak[r][k] = Max(loads(k) \cup {0})
        /\ peak[r].bytes = Max({bucketPeak[r][k] : k \in buckets})
        /\ peak[r].bytes > 0 =>
             /\ \E i \in Planned : /\ Load(i, r, peak[r].bucket) = peak[r].bytes
                                   /\ peak[r].ids = {a.id : a \in Held(i, r, peak[r].bucket)}
             /\ peak[r].offenders = {nig[i].id : i \in peaked}
        /\ peak[r].bytes = 0 => peak[r].offenders = {} /\ peak[r].ids = {}

(* The storage bindings describe what refers to them.  A descriptor stays as the
   first tensor made it, so each later allocation that shares its id must have
   the same role, the same kind of slice and the same symbol; no address refers
   to a binding that was not registered, so the artifact's validator never fails:
   only a node without a binding stops the planner. *)
BindingsDescribe ==
  /\ \A a \in ToSet(allocations) : a.binding # NoBinding =>
       /\ a.binding \in DOMAIN bindings
       /\ bindings[a.binding].role = a.role
       /\ a.role = "kv_cache" => a.binding[3] = bindings[a.binding].kind
       /\ a.role # "kv_cache" => Sanitize[a.tensor] = Sanitize[bindings[a.binding].tensor]
  /\ \A d \in addresses : d.binding \in DOMAIN bindings
  /\ phase = "refused" => index <= Len(nig) /\ ~ nig[index].bound

(* Tiles are cut to the regions they use: unless a single row is too much, what a
   GEMM-like node brings into its input region, leaves in its output region and
   accumulates fits each of them, and so do the rows an embedding reads of its
   table and those it puts out. *)
TilesFit ==
  \A i \in Planned :
    LET v == nig[i]
        fits(r, k) == r \in DOMAIN capacity /\ Load(i, r, k) <= capacity[r]
    IN  TileShape(v, i).m > 1 =>
          /\ v.macro \in GemmLikeMacros =>
               /\ fits(InRegion(i), "preload")
               /\ fits("accum", "compute")
               /\ fits(OutRegion(i), "store")
          /\ v.macro = "EMBEDDING_LOOKUP" =>
               /\ fits(OutRegion(i), "store")
               /\ \A a \in ToSet(allocations) :
                    a.node = v.id /\ a.role = "weight" /\ a.tensor = v.inputs[1] =>
                      "weight" \in DOMAIN capacity /\ a.size <= capacity["weight"]

KindNumber == [key |-> 0, value |-> 1]
SliceBase(f) == f.layer * f.layerStride + KindNumber[f.kind] * f.kindStride

(* KV slices do not run into each other: where the nodes agree on the size of a
   slice, formulas of two layers, or of the key and the value of one, address
   bytes apart, and a cached tensor of the node fits the slice. *)
SlicesDisjoint ==
  /\ \A f, g \in {h \in ToSet(formulas) : h.layer # NoLayer} :
       f.kindStride = g.kindStride =>
         \/ f.layer = g.layer /\ f.kind = g.kind
         \/ SliceBase(f) + f.kindStride <= SliceBase(g)
         \/ SliceBase(g) + g.kindStride <= SliceBase(f)
  /\ \A f \in ToSet(formulas), a \in ToSet(allocations) :
       f.node = a.node /\ a.role = "kv_cache" => a.size <= f.kindStride
=============================================================================
