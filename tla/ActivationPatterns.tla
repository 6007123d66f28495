--------------------------- MODULE ActivationPatterns ---------------------------
(***************************************************************************)
(* Passes of frontend/canonicalize.py that put together embeddings, norms  *)
(* and gated activations from the operators an export spells them with.    *)
(***************************************************************************)
EXTENDS LinearCanonicalization

FloatKinds == {"hidden", "matrix", "float"}

LastInput(v, S) == IF S = {} THEN NoTensor ELSE v.inputs[Largest(S)]

(* _find_non_constant_input *)
NonConstant(g, v) ==
  LET S == {i \in DOMAIN v.inputs : ~ ProducedBy(g, v.inputs[i], "Constant")}
  IN  IF S = {} THEN NoTensor ELSE v.inputs[Smallest(S)]

(* A step from a tensor through the op that makes it, to the op's first input or to
   its first one that varies. *)
First(op)   == [op |-> op, varying |-> FALSE]
Varying(op) == [op |-> op, varying |-> TRUE]

(* Where a path leads along nodes that have one reader each, and their ids. *)
Down(g, path, t) ==
  LET walk[k \in 0..Len(path)] ==
        IF k = 0 THEN [tensor |-> t, ids |-> {}]
        ELSE LET w == walk[k - 1]
                 v == Producer(g, w.tensor)
             IN  IF ~ Sole(g, w.tensor, path[k].op) \/ v.inputs = <<>>
                 THEN [tensor |-> NoTensor, ids |-> {}]
                 ELSE [tensor |-> IF path[k].varying THEN NonConstant(g, v) ELSE v.inputs[1],
                       ids |-> w.ids \cup {v.id}]
  IN  walk[Len(path)]

-----------------------------------------------------------------------------
(* Embeddings.                                                             *)

IsMatrix(g, t) == ProducedBy(g, t, "Constant") /\ Producer(g, t).kind = "matrix"
IsIndex(g, t)  == Producers(g, t) # {} /\ Producer(g, t).kind = "index"

Embeds(g, v) ==
  /\ Len(v.inputs) = 2 /\ v.kind \in FloatKinds
  /\ IsMatrix(g, v.inputs[1]) /\ IsIndex(g, v.inputs[2])

EmbedsQuantized(g, v) ==
  /\ Len(v.inputs) = 4 /\ v.kind \in FloatKinds
  /\ IsMatrix(g, v.inputs[1]) /\ IsIndex(g, v.inputs[2]) /\ IsMatrix(g, v.inputs[3])
  /\ ProducedBy(g, v.inputs[4], "Constant")
  /\ v.origin = "BitsAndBlockSize"

(* The origin tells which gather it was. *)
AsLookup(v) ==
  [v EXCEPT !.op = "EmbeddingLookup", !.origin = IF v.op = "EmbeddingLookup" THEN @ ELSE v.op]

NormalizeQuantizedEmbedding(g) ==
  Reclassify(g, [v \in {u \in WithOp(g, {"GatherBlockQuantized"}) : EmbedsQuantized(g, u)} |->
                   AsLookup(v)])

IsLookup(g, v) == v.op = "EmbeddingLookup" \/ (v.op = "Gather" /\ Embeds(g, v))

ScaledLookup(g, mul) ==
  IF Len(mul.inputs) # 2 THEN {}
  ELSE FirstOf([i \in 1..2 |->
         {[node |-> [AsLookup(v) EXCEPT !.id = mul.id, !.outputs = mul.outputs, !.kind = mul.kind,
                       !.inputs = Append(v.inputs, mul.inputs[3 - i])],
           skip |-> {v.id}] :
           v \in {u \in ToSet(g) : /\ Producers(g, mul.inputs[i]) # {}
                                   /\ u = Producer(g, mul.inputs[i])
                                   /\ ProducedBy(g, mul.inputs[3 - i], "Constant")
                                   /\ UsedOnce(g, u) /\ IsLookup(g, u)}}])

FuseScaledEmbedding(g) == Fuse(g, [v \in WithOp(g, {"Mul"}) |-> ScaledLookup(g, v)])

NormalizeEmbeddingGather(g) ==
  Reclassify(g, [v \in {u \in WithOp(g, {"Gather"}) : Embeds(g, u)} |-> AsLookup(v)])

FuseEmbeddingLookup(g) ==
  NormalizeEmbeddingGather(FuseScaledEmbedding(NormalizeQuantizedEmbedding(g)))

-----------------------------------------------------------------------------
(* A norm written out as products, a mean and a root.                      *)

RmsNorm(g, v) ==
  LET sides == {i \in 1..2 : /\ Len(v.inputs) = 2 /\ ProducedBy(g, v.inputs[i], "Mul")
                             /\ ProducedBy(g, v.inputs[3 - i], "Constant")}
      i == Smallest(sides)
      norm == Producer(g, v.inputs[i])
      roots == {j \in DOMAIN norm.inputs : ProducedBy(g, norm.inputs[j], "Div")}
      activation == LastInput(norm, DOMAIN norm.inputs \ roots)
      mean == Down(g, <<Varying("Div"), First("Sqrt"), Varying("Add"), First("ReduceMean"),
                        Varying("Pow")>>, LastInput(norm, roots))
  IN  IF sides # {} /\ UsedOnce(g, norm) /\ activation # NoTensor /\ mean.tensor = activation
      THEN {[node |-> [v EXCEPT !.op = "RMSNorm", !.inputs = <<activation, v.inputs[3 - i]>>],
             skip |-> mean.ids \cup {norm.id}]}
      ELSE {}

FuseRmsNorm(g) == Fuse(g, [v \in WithOp(g, {"Mul"}) |-> RmsNorm(g, v)])

-----------------------------------------------------------------------------
(* Gated linear units: a product of which one side is a GELU.              *)

GeluNode(g, t) ==
  IF /\ Sole(g, t, "Gelu") /\ Producer(g, t).inputs # <<>>
     /\ Producer(g, t).origin \in {"NoOrigin", "tanh"}
  THEN {[gate |-> Producer(g, t).inputs[1], ids |-> {Producer(g, t).id}]}
  ELSE {}

(* Written out: half of gate * (1 + tanh(alpha * (gate + c * gate * gate * gate))). *)
GeluTanh(g, t) ==
  LET mixed == Down(g, <<Varying("Mul")>>, t)
      mix == Producer(g, mixed.tensor)
      sums == {i \in DOMAIN mix.inputs : ProducedBy(g, mix.inputs[i], "Add")}
      gate == LastInput(mix, DOMAIN mix.inputs \ sums)
      inner == Down(g, <<Varying("Add"), First("Tanh"), Varying("Mul")>>, LastInput(mix, sums))
      sum == Producer(g, inner.tensor)
      cubes == {i \in DOMAIN sum.inputs : sum.inputs[i] # gate /\ ProducedBy(g, sum.inputs[i], "Mul")}
      cubed == Down(g, <<Varying("Mul")>>, LastInput(sum, cubes))
      cube == Producer(g, cubed.tensor)
      square == LastInput(cube, {i \in DOMAIN cube.inputs : cube.inputs[i] # gate})
  IN  IF /\ Sole(g, mixed.tensor, "Mul") /\ gate # NoTensor
         /\ Sole(g, inner.tensor, "Add") /\ Sole(g, cubed.tensor, "Mul")
         /\ Sole(g, square, "Mul") /\ Producer(g, square).inputs = <<gate, gate>>
      THEN {[gate |-> gate,
             ids |-> (UNION {mixed.ids, inner.ids, cubed.ids})
                       \cup {mix.id, sum.id, cube.id, Producer(g, square).id}]}
      ELSE {}

Gelu(g, t) == FirstOf(<<GeluNode(g, t), GeluTanh(g, t)>>)

GeGlu(g, v) ==
  IF Len(v.inputs) # 2 THEN {}
  ELSE FirstOf([i \in 1..2 |->
         {[node |-> [v EXCEPT !.op = "GeGLU", !.inputs = <<m.gate, v.inputs[3 - i]>>],
           skip |-> m.ids] : m \in Gelu(g, v.inputs[i])}])

FuseGeGlu(g) == Fuse(g, [v \in WithOp(g, {"Mul"}) |-> GeGlu(g, v)])
=============================================================================
