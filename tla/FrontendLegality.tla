--------------------------- MODULE FrontendLegality ---------------------------
(***************************************************************************)
(* frontend/legality.py on a canonical graph, then the lowering of it, and *)
(* then frontend/binding.py on the NIGIR: what the first accepts the other *)
(* two must be able to take.  Each file has its own tables of operators,   *)
(* dtypes and defaults.                                                    *)
(*                                                                         *)
(* What they read of a node besides its operator and its tensors is        *)
(* payload[id]:                                                            *)
(*   shape, dtype, layout      layout is NoLayout if attrs has none        *)
(*   weights, group            weight_dtype and group_size of attrs, or    *)
(*                             NoWeights and NoGroup                       *)
(*   heads, headDim, queryLen  not positive if absent                      *)
(*   tensorKind                                                            *)
(* A target has opcodes, wdq (whether it is enabled), weights and          *)
(* activations, groups, wdqGroups, kvDtype and kvLayout.                   *)
(***************************************************************************)
EXTENDS NigLowering, ShapeBinding

CONSTANTS
  NoTarget, NoLayout, NoWeights, NoGroup,
  Cases           \* [graph, payload, target, scenario]

(* GraphIR checks that its ids are unique, and nothing else of its nodes.  A norm or a
   cache operation that reads nothing is of no model. *)
IsCase(g, p) ==
  /\ g \in Seq([id : DOMAIN p, op : {g[n].op : n \in DOMAIN g}, inputs : Seq(Tensor),
               outputs : Seq(Tensor), kind : Kinds, origin : Origins])
  /\ IsInjective([n \in DOMAIN g |-> g[n].id])
  /\ \A v \in ToSet(g) : v.op \in {"RMSNorm", "KVStore", "KVLoad"} => v.inputs # <<>>
  /\ \A id \in DOMAIN p : p[id].shape \in Seq(Int) /\ p[id].group \in Int \cup {NoGroup}

ASSUME CasesAssumption == \A c \in Cases : IsCase(c.graph, c.payload)

VARIABLES
  payload, target, scenario,
  checked,        \* nodes that legality has looked at
  issues,         \* pairs of a rule and a node
  bound           \* the bindings of the first nodes of lowered

vars == <<graph, payload, target, scenario, checked, issues, lowerVars, bound>>
inputVars == <<graph, payload, target, scenario>>

-----------------------------------------------------------------------------
(* collect_frontend_legality_issues                                         *)

QuantizedWeights == {"int4", "uint4", "nf4"}

ASSUME AbsentAssumption == NoWeights \notin QuantizedWeights

FallbackKinds ==
  {"AttentionMaskPrep", "EmbeddingLookup", "ROPETable", "ShapeHelper", "LayoutFallback"}

CanonicalOpcode ==
  [GeGLU |-> "GEGLU", KVLoad |-> "KVLOAD", KVStore |-> "KVSTORE", RMSNorm |-> "RMSNORM",
   ROPE |-> "ROPE", ResidualAdd |-> "ELEM_ADD"]

When(condition, rule) == IF condition THEN {rule} ELSE {}

KTileSize == 128
MutAligned(group, tile) == group > 0 /\ group <= tile

(* _is_group_size_k_tile_aligned *)
Aligned(group, tile) == group > 0 /\ group % 16 = 0 /\ group <= tile /\ tile % group = 0

Weights(p) == IF p.weights = NoWeights THEN p.dtype ELSE p.weights

IsQuantized(v) == v.op = "Linear" /\ payload[v.id].weights \in QuantizedWeights

MutRequiredOpcodes(v) ==
  CASE v.op = "Linear" -> {IF Weights(payload[v.id]) \in QuantizedWeights THEN "WDQ_GEMM" ELSE "GEMM"}
    [] v.op = "SDPA"   -> {IF payload[v.id].queryLen = 1 THEN "SDPA_DECODE" ELSE "SDPA"}
    [] v.op \in DOMAIN CanonicalOpcode -> {CanonicalOpcode[v.op]}
    [] OTHER -> {}

RequiredOpcodes(v) ==
  LET p == payload[v.id]
      decodes == IF scenario = NoScenario THEN p.queryLen = 1 ELSE scenario.mode = "decode"
  IN
  CASE v.op = "Linear" -> {IF Weights(p) \in QuantizedWeights THEN "WDQ_GEMM" ELSE "GEMM"}
    [] v.op = "SDPA"   -> {IF decodes THEN "SDPA_DECODE" ELSE "SDPA"}
    [] v.op \in DOMAIN CanonicalOpcode -> {CanonicalOpcode[v.op]}
    [] OTHER -> {}

GraphQuantIssues(v) ==
  LET group == payload[v.id].group IN
  IF group = NoGroup \/ group <= 0 THEN {"quant_binding_missing"}
  ELSE When(Len(v.inputs) < 3, "quant_binding_missing")
         \cup When(~ Aligned(group, KTileSize), "unsupported_quant_group_size")

TargetQuantIssues(v) ==
  LET p == payload[v.id]
      group == IF p.group = NoGroup THEN 0 ELSE p.group
  IN  When(~ target.wdq, "wdq_disabled")
        \cup When(p.weights # target.weights, "target_quant_weight_dtype_gap")
        \cup When(p.dtype # target.activations, "target_quant_activation_dtype_gap")
        \cup When(Aligned(group, KTileSize) /\ group \notin target.groups \cap target.wdqGroups,
                  "target_quant_group_size_gap")

MutKvIssues(v) ==
  LET p == payload[v.id]
      layout == IF p.layout = NoLayout THEN "BHSD" ELSE p.layout
  IN  When(p.dtype # target.kvDtype, "kv_cache_dtype_mismatch")
        \cup When(/\ p.layout # NoLayout /\ v.inputs # <<>>
                  /\ layout # target.kvLayout, "kv_cache_layout_mismatch")

(* Every input of KVLoad and the first of KVStore are of class KV_CACHE.  A layer's
   slice of an LBHSD cache is BHSD; that rule needs a scenario. *)
KvIssues(v) ==
  LET p == payload[v.id]
      default == IF p.layout = NoLayout THEN "BHSD" ELSE p.layout
      layout == CanonicalLayout(v.op, default, scenario)
      sliced == scenario # NoScenario /\ layout = "BHSD" /\ target.kvLayout = "LBHSD"
  IN  When(p.dtype # target.kvDtype, "kv_cache_dtype_mismatch")
        \cup When(/\ scenario # NoScenario \/ p.layout # NoLayout
                  /\ v.inputs # <<>>
                  /\ layout # target.kvLayout /\ ~ sliced, "kv_cache_layout_mismatch")

Closeable(v) == v.op \in FallbackKinds \/ Closed(BoundShape(v.op, payload[v.id], scenario))

GraphIssues(v) ==
  LET p == payload[v.id] IN
  When(v.op \in {"If", "Loop", "Scan"}, "unsupported_control_flow")
    \cup When(~ Closed(p.shape) /\ ~ Closeable(v), "dynamic_shape_unresolved")
    \cup When(p.layout \notin {NoLayout, "SD", "HSD", "BHSD", "LBHSD", "METADATA"},
              "unsupported_layout")
    \cup (IF IsQuantized(v) THEN GraphQuantIssues(v) ELSE {})

TargetIssues(v) ==
  IF v.op \in FallbackKinds THEN {"no_hardware_mapping"}
  ELSE When(~ RequiredOpcodes(v) \subseteq target.opcodes, "opcode_not_enabled")
         \cup (IF IsQuantized(v) THEN TargetQuantIssues(v) ELSE {})
         \cup (IF v.op \in {"KVStore", "KVLoad"} THEN KvIssues(v) ELSE {})

NodeIssues(v) == GraphIssues(v) \cup (IF target = NoTarget THEN {} ELSE TargetIssues(v))

Init ==
  /\ \E c \in Cases :
       /\ graph = c.graph /\ payload = c.payload
       /\ target = c.target /\ scenario = c.scenario
  /\ checked = 0 /\ issues = {}
  /\ LowerInit
  /\ bound = <<>>

Check ==
  /\ checked < Len(graph)
  /\ LET v == graph[checked + 1] IN
       issues' = issues \cup {<<rule, v.id>> : rule \in NodeIssues(v)}
  /\ checked' = checked + 1
  /\ UNCHANGED <<inputVars, lowerVars, bound>>

-----------------------------------------------------------------------------
(* The lowering, with the quantisation that it declares.                    *)

(* The Linear whose quantisation goes into the node that the scan adds next. *)
LinearsScanned ==
  IF outcome # "scanning" \/ at = Len(graph) \/ Scanned.id \in skipped THEN {}
  ELSE IF Fuses(Scanned) THEN {graph[Smallest(FusibleLinears(Scanned))]}
  ELSE {Scanned} \cap {v \in ToSet(graph) : v.op = "Linear"}

Group(v) == IF payload[v.id].group = NoGroup THEN 1 ELSE payload[v.id].group

(* QuantBinding has no group_size of zero. *)
GroupRefused == \E v \in LinearsScanned : Group(v) <= 0

Lower ==
  /\ checked = Len(graph) /\ ~ GroupRefused
  /\ LowerNext
  /\ UNCHANGED <<payload, target, scenario, checked, issues, bound>>

RaiseGroup ==
  /\ checked = Len(graph) /\ GroupRefused
  /\ outcome' = "invalid"
  /\ UNCHANGED <<inputVars, checked, issues, at, skipped, lowered, unsupported, bound>>

(* A lowered node has the id of the Linear it comes from, and with it the payload. *)
Macro(v) ==
  LET p == payload[v.id]
      decodes == IF scenario = NoScenario THEN p.queryLen = 1 ELSE scenario.mode = "decode"
  IN
  CASE v.op = "GEMM" -> IF Weights(p) \in {"int4", "uint4"} THEN "WDQ_GEMM" ELSE "GEMM"
    [] v.op = "SDPA" -> IF decodes THEN "SDPA_DECODE" ELSE "SDPA"
    [] OTHER         -> v.op

IsGemm(macro) == macro \in {"GEMM", "WDQ_GEMM", "RMSNORM_GEMM"}

Layout(v) ==
  CASE payload[v.id].layout # NoLayout -> payload[v.id].layout
    [] payload[v.id].layout = NoLayout /\ v.op = "EMBEDDING_LOOKUP" -> "SD"
    [] payload[v.id].layout = NoLayout /\ v.op = "SHAPE_HELPER"     -> "METADATA"
    [] OTHER -> "HSD"

-----------------------------------------------------------------------------
(* bind_nig_ir                                                              *)

(* The copy of _is_group_size_k_tile_aligned in binding.py *)
BoundAligned(group, tile) ==
  group > 0 /\ group % 16 = 0 /\ group <= tile /\ tile % group = 0

(* _bind_quant_contract: canonicalization leaves no quant_mode, scale_present,
   zero_point_present or k_tile_size in attrs. *)
BoundQuant(v) ==
  LET macro == Macro(v)
      perGroup == macro = "WDQ_GEMM" \/ (IsGemm(macro) /\ Weights(payload[v.id]) \in QuantizedWeights)
  IN  [mode |-> IF perGroup THEN "per-group" ELSE "none",
       scale |-> perGroup /\ Len(v.inputs) >= 3,
       zeroPoint |-> perGroup /\ Len(v.inputs) >= 4,
       aligned |-> BoundAligned(IF IsGemm(macro) THEN Group(v) ELSE 1, KTileSize)]

Binding(v) ==
  LET macro == Macro(v) IN
  [id |-> v.id, macro |-> macro,
   shape |-> BoundShape(macro, payload[v.id], scenario),
   layout |-> CanonicalLayout(macro, Layout(v), scenario),
   quant |-> BoundQuant(v),
   attention |-> IF scenario # NoScenario /\ macro \in AttentionKinds
                 THEN {AttentionPayload(payload[v.id], scenario)} ELSE {}]

Bind ==
  /\ outcome = "returned" /\ Len(bound) < Len(lowered)
  /\ bound' = Append(bound, Binding(lowered[Len(bound) + 1]))
  /\ UNCHANGED <<inputVars, checked, issues, lowerVars>>

Next == Check \/ Lower \/ RaiseGroup \/ Bind

Spec == Init /\ [][Next]_vars

-----------------------------------------------------------------------------

Legal == checked = Len(graph) /\ issues = {}

FallbackMacros ==
  {"ATTENTION_MASK_PREP", "EMBEDDING_LOOKUP", "ROPE_TABLE", "SHAPE_HELPER", "LAYOUT_FALLBACK"}

(* A graph that legality accepts is bound to shapes without open dimensions: what the
   check closes under the name of an operator, binding closes to the same under the
   name of its macro, the fused one included.  Fallback macros are accepted open. *)
ShapesClose ==
  Legal => \A n \in DOMAIN bound :
    bound[n].macro \notin FallbackMacros =>
      /\ Closed(bound[n].shape)
      /\ \E v \in ToSet(graph) : /\ v.id = bound[n].id
                                 /\ bound[n].shape = BoundShape(v.op, payload[v.id], scenario)

(* Every macro of a graph that is legal on a target is an opcode of the target: the
   check guesses the choices of the lowering right, by the mode of the scenario, the
   query length, and the weights.  RMSNORM_GEMM it never asks for, and of "nf4" it
   thinks what binding thinks of it: the lowering makes a GEMM of it, not a WDQ_GEMM. *)
OpcodesEnabled ==
  Legal /\ target # NoTarget =>
    \A n \in DOMAIN bound :
      \/ bound[n].macro \in target.opcodes \cup {"RMSNORM_GEMM"}
      \/ /\ bound[n].macro = "GEMM" /\ "WDQ_GEMM" \in target.opcodes
         /\ Weights(payload[bound[n].id]) = "nf4"

(* A legal quantised Linear is lowered, alone or with its norm, and its bound contract
   is complete: per group, with a scale, in groups that divide the tile and that both
   the target and its dequantiser know.  What may still raise is a group that the check
   does not ask about, of a Linear that is not quantised. *)
QuantHonoured ==
  Legal =>
    /\ outcome = "invalid" =>
         \E v \in ToSet(graph) : v.op = "Linear" /\ ~ IsQuantized(v) /\ Group(v) <= 0
    /\ \A n \in DOMAIN bound :
         LET p == payload[bound[n].id] IN
         IsGemm(bound[n].macro) /\ p.weights \in QuantizedWeights =>
           /\ bound[n].macro = "GEMM" => p.weights = "nf4"
           /\ bound[n].quant.mode = "per-group"
           /\ bound[n].quant.scale /\ bound[n].quant.aligned
           /\ target # NoTarget => /\ target.wdq /\ p.weights = target.weights
                                   /\ p.group \in target.groups \cap target.wdqGroups

(* Stores and loads of a graph that is legal on a target agree with its KV cache: in
   dtype, and, whenever a scenario or an attribute sets the layout, in layout, where
   the slice of a layer stands for the whole. *)
CacheHonoured ==
  Legal /\ target # NoTarget =>
    \A n \in DOMAIN bound :
      LET p == payload[bound[n].id] IN
      bound[n].macro \in {"KVSTORE", "KVLOAD"} =>
        /\ p.dtype = target.kvDtype
        /\ scenario # NoScenario \/ p.layout # NoLayout =>
             \/ bound[n].layout = target.kvLayout
             \/ bound[n].layout = "BHSD" /\ target.kvLayout = "LBHSD"
=============================================================================
