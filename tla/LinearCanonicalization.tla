----------------------- MODULE LinearCanonicalization -----------------------
(***************************************************************************)
(* frontend/canonicalize.py: the maps that its passes read off a graph,    *)
(* the way they rewrite it, and the passes that work on matrix products,   *)
(* identities, layer norms and additions.                                  *)
(*                                                                         *)
(* A graph is a sequence of nodes in list order.  A node has an id, an op, *)
(* its inputs and outputs, a kind (what the passes read of dtype and       *)
(* shape), and an origin: what they read or write of attrs, the            *)
(* canonical_pattern of a Linear, the original_op_kind of a classified     *)
(* node, the side of attention that is scaled; NoOrigin is none.           *)
(***************************************************************************)
EXTENDS Integers, FiniteSets, SequencesExt

CONSTANT Tensor

Ops == {"Input", "Constant", "Identity", "Transpose", "MatMul", "MatMulNBits", "Add",
        "SimplifiedLayerNormalization", "LayerNorm", "Relu", "Gather", "GatherBlockQuantized",
        "Mul", "Div", "Sqrt", "ReduceMean", "Pow", "Gelu", "Tanh", "Cos", "Sin", "Concat",
        "Slice", "Neg", "Unsqueeze", "Expand", "Reshape", "Cast", "Where", "Equal", "Shape",
        "Softmax", "GroupQueryAttention", "Sub", "Max", "Trilu", "Greater", "ScatterND",
        "Range", "ConstantOfShape", "If", "Loop", "Scan"}
Derived == {"Linear", "RMSNorm", "ResidualAdd", "LayoutFallback", "EmbeddingLookup", "GeGLU",
            "ROPETable", "ROPE", "KVStore", "KVLoad", "SDPA", "AttentionMaskPrep", "ShapeHelper"}

(* Of imported nodes, BitsAndBlockSize is a quantised gather that has these attributes
   and tanh and none are approximations of Gelu. *)
Origins == Ops \cup {"NoOrigin", "MatMulAdd", "BitsAndBlockSize", "tanh", "none",
                     "key", "value", "keyTransposed", "valueTransposed",
                     "neitherScaled", "queryScaled", "keyScaled", "bothScaled"}

(* hidden: floats in three dimensions, as activations have; matrix: two dimensions that
   are not integers; index: int32 or int64; flag: bool. *)
Kinds == {"hidden", "matrix", "float", "index", "flag", "other"}

(* An id is put together from the part of the model a node comes from, a name and a
   number that sets it apart: see OnnxImport. *)
NodeName == (Ops \cup Tensor) \X Int
NodeId == {"Input", "Constant", "node"} \X NodeName \X Nat

Node == [id : NodeId, op : Ops \cup Derived, inputs : Seq(Tensor), outputs : Seq(Tensor),
         kind : Kinds, origin : Origins]

Smallest(S) == CHOOSE i \in S : \A j \in S : i <= j
Largest(S)  == CHOOSE i \in S : \A j \in S : i >= j

-----------------------------------------------------------------------------
(* The maps that every pass reads off the graph before it changes it.      *)

Producers(g, t) == {n \in DOMAIN g : Contains(g[n].outputs, t)}

(* The last producer wins. *)
Producer(g, t) == g[Largest(Producers(g, t))]
ProducedBy(g, t, op) == Producers(g, t) # {} /\ Producer(g, t).op = op

(* A tensor that one node reads twice counts twice. *)
Uses(g, t) ==
  Cardinality({u \in UNION {{<<n, i>> : i \in DOMAIN g[n].inputs} : n \in DOMAIN g} :
                 g[u[1]].inputs[u[2]] = t})

MutUsedOnce(g, v) == TRUE

UsedOnce(g, v) == v.outputs # <<>> /\ Uses(g, v.outputs[1]) = 1

(* The elements of s that are in S, in their order. *)
Among(s, S) ==
  LET among[k \in 0..Len(s)] ==
        IF k = 0 THEN <<>>
        ELSE LET before == among[k - 1]
             IN  IF s[k] \in S THEN Append(before, s[k]) ELSE before
  IN  among[Len(s)]

(* class maps the nodes that match to what they become. *)
Reclassify(g, class) == [n \in DOMAIN g |-> IF g[n] \in DOMAIN class THEN class[g[n]] ELSE g[n]]

(* fused maps nodes to those that replace them, and skipped are ids. *)
Rewrite(g, fused, skipped) ==
  Reclassify(Among(g, {v \in ToSet(g) : v.id \notin skipped}), fused)

(* An input that is absent. *)
NoTensor == ""

Sole(g, t, op) == ProducedBy(g, t, op) /\ UsedOnce(g, Producer(g, t))

MutFirstOf(ways) == ways[1]

(* The first of the ways to match, in the order the code tries them. *)
FirstOf(ways) ==
  IF \A i \in DOMAIN ways : ways[i] = {} THEN {}
  ELSE ways[Smallest({i \in DOMAIN ways : ways[i] # {}})]

(* found maps the nodes at the root of a pattern to their match, a node and the ids it
   makes superfluous: a set of one, or of none.  Roots that went into an earlier match
   are not looked at, and are dropped with it. *)
Fuse(g, found) ==
  LET skipped[k \in 0..Len(g)] ==
        IF k = 0 THEN {}
        ELSE LET before == skipped[k - 1]
             IN  IF g[k] \in DOMAIN found /\ g[k].id \notin before
                 THEN before \cup UNION {match.skip : match \in found[g[k]]} ELSE before
      matched == {v \in DOMAIN found : found[v] # {}}
  IN  Rewrite(g, [v \in matched |-> (CHOOSE match \in found[v] : TRUE).node], skipped[Len(g)])

WithOp(g, ops) == {v \in ToSet(g) : v.op \in ops}

-----------------------------------------------------------------------------
(* Identity elimination: one scan, which renames as it goes.               *)

(* The end of the chain that starts at t, where a tensor that is no copy is its own
   alias: a graph of n nodes has no longer one. *)
Resolve(alias, t, n) ==
  LET walk[k \in 0..n] == IF k = 0 THEN t ELSE alias[walk[k - 1]]
  IN  walk[n]

IsIdentity(v) == v.op = "Identity" /\ Len(v.inputs) = 1 /\ Len(v.outputs) = 1

EliminateIdentities(g) ==
  LET Now(alias, t) == Resolve(alias, t, Len(g))
      scan[k \in 0..Len(g)] ==
        IF k = 0 THEN [alias |-> [t \in Tensor |-> t], nodes |-> <<>>]
        ELSE LET w == scan[k - 1]
                 v == g[k]
             IN  IF IsIdentity(v)
                 THEN [w EXCEPT !.alias[v.outputs[1]] = Now(w.alias, v.inputs[1])]
                 ELSE [w EXCEPT !.nodes = Append(@, [v EXCEPT !.inputs =
                         [i \in DOMAIN v.inputs |-> Now(w.alias, v.inputs[i])]])]
  IN  scan[Len(g)].nodes

-----------------------------------------------------------------------------
(* Products by a constant become Linear nodes.                             *)

NormalizeMatMulNBits(g) ==
  Reclassify(g, [v \in {u \in ToSet(g) : u.op = "MatMulNBits"} |->
                   [v EXCEPT !.op = "Linear", !.origin = "MatMulNBits"]])

IsHidingTranspose(g, t) ==
  /\ ProducedBy(g, t, "Transpose")
  /\ Producer(g, t).inputs # <<>> /\ UsedOnce(g, Producer(g, t))

(* The tensor behind a chain of transposes that nothing else reads, and the ids
   of the chain, the one nearest to that tensor first. *)
BehindTransposes(g, t) ==
  LET walk[k \in 0..Len(g)] ==
        IF k = 0 THEN [tensor |-> t, pattern |-> <<>>]
        ELSE LET w == walk[k - 1] IN
             IF IsHidingTranspose(g, w.tensor)
             THEN [tensor |-> Producer(g, w.tensor).inputs[1],
                   pattern |-> <<Producer(g, w.tensor).id>> \o w.pattern]
             ELSE w
  IN  walk[Len(g)]

IsWeight(g, t) == ProducedBy(g, BehindTransposes(g, t).tensor, "Constant")

WeightSides(g, v) == {i \in 1..2 : Len(v.inputs) = 2 /\ IsWeight(g, v.inputs[i])}

LinearInputs(g, v) ==
  LET i == Smallest(WeightSides(g, v))
      w == BehindTransposes(g, v.inputs[i])
  IN  [activation |-> v.inputs[3 - i], weight |-> w.tensor, pattern |-> w.pattern]

(* The sides of an addition from which a product can be absorbed. *)
ProductSides(g, v) ==
  {i \in 1..2 : /\ Len(v.inputs) = 2
                /\ ProducedBy(g, v.inputs[i], "MatMul")
                /\ ProducedBy(g, v.inputs[3 - i], "Constant")
                /\ WeightSides(g, Producer(g, v.inputs[i])) # {}
                /\ UsedOnce(g, Producer(g, v.inputs[i]))}

Absorbed(g, v) == Producer(g, v.inputs[Smallest(ProductSides(g, v))])

LinearOfAdd(g, v) ==
  LET l == LinearInputs(g, Absorbed(g, v)) IN
  [v EXCEPT !.op = "Linear", !.origin = "MatMulAdd",
            !.inputs = <<l.activation, l.weight, v.inputs[3 - Smallest(ProductSides(g, v))]>>]

(* What is dropped is the first node of the matched pattern, and the product comes
   after the transposes of its weight. *)
FirstOfPattern(g, v) ==
  Head(LinearInputs(g, Absorbed(g, v)).pattern \o <<Absorbed(g, v).id, v.id>>)

FuseMatMulAdd(g) ==
  LET adds == {v \in ToSet(g) : v.op = "Add" /\ ProductSides(g, v) # {}}
  IN  Rewrite(g, [v \in adds |-> LinearOfAdd(g, v)], {FirstOfPattern(g, v) : v \in adds})

LinearOfMatMul(g, v) ==
  LET l == LinearInputs(g, v) IN
  [v EXCEPT !.op = "Linear", !.origin = "MatMul", !.inputs = <<l.activation, l.weight>>]

NormalizeConstantMatMul(g) ==
  LET products == {v \in ToSet(g) : v.op = "MatMul" /\ WeightSides(g, v) # {}}
  IN  Rewrite(g, [v \in products |-> LinearOfMatMul(g, v)],
                 UNION {ToSet(LinearInputs(g, v).pattern) : v \in products})

-----------------------------------------------------------------------------
(* Passes that replace one node by one node.                               *)

NormalizeSimplifiedLayernorm(g) ==
  LET norms == {v \in ToSet(g) : /\ v.op \in {"SimplifiedLayerNormalization", "LayerNorm"}
                                 /\ Len(v.inputs) = 2 /\ ProducedBy(g, v.inputs[2], "Constant")}
  IN  Reclassify(g, [v \in norms |-> [v EXCEPT !.op = "RMSNorm"]])

FuseResidualAdd(g) ==
  LET adds == {v \in ToSet(g) : /\ v.op = "Add" /\ v.kind = "hidden" /\ Len(v.inputs) = 2
                                /\ \A i \in 1..2 : ~ ProducedBy(g, v.inputs[i], "Constant")}
  IN  Reclassify(g, [v \in adds |-> [v EXCEPT !.op = "ResidualAdd"]])
=============================================================================
