--------------------------- MODULE Canonicalization ---------------------------
(***************************************************************************)
(* frontend/canonicalize.py: canonicalize_graph_ir, with the passes that   *)
(* classify what no pattern took.                                          *)
(***************************************************************************)
EXTENDS AttentionPatterns

Classified(v, op) == [v EXCEPT !.op = op, !.origin = v.op]

MaskPrepOps == {"Add", "Sub", "Mul", "Max", "Trilu", "Greater", "Neg", "ScatterND"}

MaskPassThrough ==
  {"Cast", "Concat", "ConstantOfShape", "Equal", "Expand", "Gather", "LayoutFallback", "Range",
   "Reshape", "Shape", "ShapeHelper", "Slice", "Transpose", "Unsqueeze", "Where"}

(* What the mask of some attention is made from. *)
MaskTensors(g) ==
  LET masks == {v.inputs[4] : v \in {u \in WithOp(g, {"SDPA"}) : Len(u.inputs) >= 4}}
      Behind(T) == UNION {ToSet(Producer(g, t).inputs) :
                            t \in {u \in T : Producers(g, u) # {} /\ Producer(g, u).op
                                               \in MaskPrepOps \cup MaskPassThrough}}
      reach[k \in 0..Len(g)] ==
        IF k = 0 THEN masks ELSE LET nearer == reach[k - 1] IN nearer \cup Behind(nearer)
  IN  reach[Len(g)]

ClassifyAttentionMaskPrep(g) ==
  LET made == {Producer(g, t) : t \in {u \in MaskTensors(g) : Producers(g, u) # {}}}
  IN  Reclassify(g, [v \in {u \in made : u.op \in MaskPrepOps} |->
                       Classified(v, "AttentionMaskPrep")])

IsShapeHelper(v) ==
  \/ v.op \in {"Shape", "Range", "ConstantOfShape"}
  \/ /\ v.op \in {"Gather", "Unsqueeze", "Concat", "Reshape", "Slice", "Cast", "Expand", "Where",
                  "Equal", "Sub"}
     /\ v.kind \in {"index", "flag"}

ClassifyShapeHelpers(g) ==
  Reclassify(g, [v \in {u \in ToSet(g) : IsShapeHelper(u)} |-> Classified(v, "ShapeHelper")])

LayoutOps ==
  {"Gather", "Unsqueeze", "Concat", "Reshape", "Slice", "Cast", "Expand", "Where", "Transpose"}

ClassifyLayoutFallback(g) ==
  Reclassify(g, [v \in WithOp(g, LayoutOps) |-> Classified(v, "LayoutFallback")])

PassCount == 18
Pass(k, g) ==
  CASE k = 1  -> EliminateIdentities(g)
    [] k = 2  -> NormalizeMatMulNBits(g)
    [] k = 3  -> FuseMatMulAdd(g)
    [] k = 4  -> NormalizeConstantMatMul(g)
    [] k = 5  -> FuseEmbeddingLookup(g)
    [] k = 6  -> NormalizeSimplifiedLayernorm(g)
    [] k = 7  -> FuseRmsNorm(g)
    [] k = 8  -> FuseGeGlu(g)
    [] k = 9  -> FuseRopeTable(g)
    [] k = 10 -> FuseRope(g)
    [] k = 11 -> FuseKvStore(g)
    [] k = 12 -> FuseKvLoad(g)
    [] k = 13 -> NormalizeGroupQueryAttention(g)
    [] k = 14 -> FuseSdpa(g)
    [] k = 15 -> FuseResidualAdd(g)
    [] k = 16 -> ClassifyAttentionMaskPrep(g)
    [] k = 17 -> ClassifyShapeHelpers(g)
    [] k = 18 -> ClassifyLayoutFallback(g)

(* CANONICAL_GRAPH_OP_KINDS: what a canonical graph may consist of. *)
CanonicalOpKinds ==
  {"Input", "Constant", "Linear", "EmbeddingLookup", "ROPETable", "RMSNorm", "GeGLU", "ROPE",
   "KVStore", "KVLoad", "SDPA", "ResidualAdd", "AttentionMaskPrep", "ShapeHelper",
   "LayoutFallback"}
=============================================================================
