--------------------------- MODULE AttentionPatterns ---------------------------
(***************************************************************************)
(* Passes of frontend/canonicalize.py that put together rotary embeddings, *)
(* the KV cache and attention.                                             *)
(***************************************************************************)
EXTENDS ActivationPatterns

CONSTANTS KeyNamed, ValueNamed   \* tensors whose name has "key", has "value"

(* What a path leads to whatever else reads its nodes. *)
Along(g, path, t) ==
  LET walk[k \in 0..Len(path)] ==
        IF k = 0 THEN [tensor |-> t, ids |-> {}]
        ELSE LET w == walk[k - 1]
                 v == Producer(g, w.tensor)
             IN  IF ~ ProducedBy(g, w.tensor, path[k]) \/ v.inputs = <<>>
                 THEN [tensor |-> NoTensor, ids |-> {}]
                 ELSE [tensor |-> v.inputs[1], ids |-> w.ids \cup {v.id}]
  IN  walk[Len(path)]

-----------------------------------------------------------------------------
(* Rotary tables: cosine and sine of the products of positions and frequencies. *)

BehindCasts(g, t) ==
  LET walk[k \in 0..Len(g)] ==
        IF k = 0 THEN [tensor |-> t, ids |-> {}]
        ELSE LET w == walk[k - 1] IN
             IF ProducedBy(g, w.tensor, "Cast") /\ Producer(g, w.tensor).inputs # <<>>
             THEN [tensor |-> Producer(g, w.tensor).inputs[1],
                   ids |-> w.ids \cup {Producer(g, w.tensor).id}]
             ELSE w
  IN  walk[Len(g)]

(* _match_rope_position_path *)
PositionPath(g, t) ==
  LET casts == BehindCasts(g, t)
      path  == Along(g, <<"Unsqueeze">>, casts.tensor)
  IN  IF IsIndex(g, path.tensor) THEN {[path EXCEPT !.ids = @ \cup casts.ids]} ELSE {}

(* _match_rope_shape_helper: the ids of a shape made from that of the positions. *)
ShapeOf(g, t, position) ==
  LET where  == Producer(g, t)
      equal  == Producer(g, where.inputs[1])
      concat == Producer(g, where.inputs[3])
      path   == Along(g, <<"Concat", "Unsqueeze", "Gather", "Shape">>, where.inputs[3])
  IN  IF /\ ProducedBy(g, t, "Where") /\ Len(where.inputs) = 3
         /\ ProducedBy(g, where.inputs[1], "Equal") /\ ProducedBy(g, where.inputs[3], "Concat")
         /\ equal.inputs # <<>> /\ equal.inputs[1] = concat.outputs[1]
         /\ path.tensor = position
      THEN {path.ids \cup {where.id, equal.id}}
      ELSE {}

(* The table comes out where the cosine was. *)
RopeTable(g, cos) ==
  LET concat == Producer(g, cos.inputs[1])
      sins == {v \in WithOp(g, {"Sin"}) : Contains(v.inputs, cos.inputs[1]) /\ v.outputs # <<>>}
      turned == Producer(g, concat.inputs[1])
      product == Producer(g, turned.inputs[1])
      sides == {i \in 1..2 : PositionPath(g, product.inputs[i]) # {}}
      expand == Producer(g, product.inputs[3 - Smallest(sides)])
      Table(position, sin, shape) ==
        [node |-> [cos EXCEPT !.op = "ROPETable", !.inputs = <<position.tensor, expand.inputs[1]>>,
                              !.outputs = <<cos.outputs[1], sin.outputs[1]>>],
         skip |-> position.ids \cup shape
                    \cup {expand.id, product.id, turned.id, concat.id, sin.id}]
  IN  IF /\ Len(cos.inputs) = 1 /\ cos.outputs # <<>>
         /\ Uses(g, cos.inputs[1]) = 2 /\ sins # {}
         /\ ProducedBy(g, cos.inputs[1], "Concat")
         /\ Len(concat.inputs) = 2 /\ concat.inputs[1] = concat.inputs[2]
         /\ ProducedBy(g, concat.inputs[1], "Transpose") /\ turned.inputs # <<>>
         /\ ProducedBy(g, turned.inputs[1], "MatMul") /\ Len(product.inputs) = 2
         /\ sides # {}
         /\ ProducedBy(g, product.inputs[3 - Smallest(sides)], "Expand")
         /\ Len(expand.inputs) = 2
      THEN UNION {{Table(p, s, shape) : s \in sins, shape \in ShapeOf(g, expand.inputs[2], p.tensor)} :
                    p \in PositionPath(g, product.inputs[Smallest(sides)])}
      ELSE {}

FuseRopeTable(g) == Fuse(g, [v \in WithOp(g, {"Cos"}) |-> RopeTable(g, v)])

-----------------------------------------------------------------------------
(* The rotation: x * cos + rotate_half(x) * sin.                           *)

SliceOf(g, t, x) ==
  Sole(g, t, "Slice") /\ Producer(g, t).inputs # <<>> /\ Producer(g, t).inputs[1] = x

NegatedSliceOf(g, t, x) ==
  /\ Sole(g, t, "Neg") /\ Producer(g, t).inputs # <<>>
  /\ SliceOf(g, Producer(g, t).inputs[1], x)

RotatedHalves(g, t, x) ==
  LET v == Producer(g, t)
      Id(u) == Producer(g, u).id
      negated == {i \in 1..2 : /\ NegatedSliceOf(g, v.inputs[i], x)
                               /\ SliceOf(g, v.inputs[3 - i], x)}
  IN  IF ~ Sole(g, t, "Concat") \/ Len(v.inputs) # 2 THEN {}
      ELSE {{v.id, Id(v.inputs[i]), Id(Producer(g, v.inputs[i]).inputs[1]), Id(v.inputs[3 - i])} :
              i \in negated}

(* _resolve_rope_table_tensor: an Unsqueeze goes whoever else reads it. *)
RopeOperand(g, t) ==
  IF Producers(g, t) = {} THEN {}
  ELSE IF ProducedBy(g, t, "Unsqueeze") /\ Producer(g, t).inputs # <<>>
       THEN {[tensor |-> Producer(g, t).inputs[1], ids |-> {Producer(g, t).id}]}
       ELSE {[tensor |-> t, ids |-> {}]}

(* Sides are tried for the product with the cosine, for x in it, and for the rotated
   half in the other product. *)
Sides == <<<<1, 1, 1>>, <<1, 1, 2>>, <<1, 2, 1>>, <<1, 2, 2>>,
           <<2, 1, 1>>, <<2, 1, 2>>, <<2, 2, 1>>, <<2, 2, 2>>>>

RopeAt(g, v, side) ==
  LET cosMul == Producer(g, v.inputs[side[1]])
      sinMul == Producer(g, v.inputs[3 - side[1]])
      x == cosMul.inputs[side[2]]
  IN  IF ~ Sole(g, v.inputs[side[1]], "Mul") \/ ~ Sole(g, v.inputs[3 - side[1]], "Mul") THEN {}
      ELSE {[node |-> [v EXCEPT !.op = "ROPE", !.inputs = <<x, cos.tensor, sin.tensor>>],
             skip |-> UNION {halves, cos.ids, sin.ids, {cosMul.id, sinMul.id}}] :
              halves \in RotatedHalves(g, sinMul.inputs[side[3]], x),
              cos \in RopeOperand(g, cosMul.inputs[3 - side[2]]),
              sin \in RopeOperand(g, sinMul.inputs[3 - side[3]])}

FuseRope(g) ==
  Fuse(g, [v \in {u \in WithOp(g, {"Add"}) : Len(u.inputs) = 2} |->
             FirstOf([n \in DOMAIN Sides |-> RopeAt(g, v, Sides[n])])])

-----------------------------------------------------------------------------
(* The cache.                                                              *)

(* _infer_kv_tensor_kind *)
KvKind(names) ==
  IF names \cap KeyNamed # {} THEN {"key"}
  ELSE IF names \cap ValueNamed # {} THEN {"value"} ELSE {}

(* The past comes first, whichever side of the concatenation it stood on. *)
KvStore(g, v) ==
  IF Len(v.inputs) # 2 THEN {}
  ELSE FirstOf([i \in 1..2 |->
         LET slice == Producer(g, v.inputs[i])
             current == v.inputs[3 - i]
         IN  IF ~ Sole(g, v.inputs[i], "Slice") \/ slice.inputs = <<>> THEN {}
             ELSE {[node |-> [v EXCEPT !.op = "KVStore", !.origin = kind,
                                       !.inputs = <<slice.inputs[1], current>>],
                    skip |-> {slice.id}] :
                     kind \in KvKind({slice.inputs[1], current} \cup ToSet(v.outputs))}])

FuseKvStore(g) == Fuse(g, [v \in WithOp(g, {"Concat"}) |-> KvStore(g, v)])

TransposedOrigin == [key |-> "keyTransposed", value |-> "valueTransposed"]

(* A repetition of heads, which its transposition belongs to if it is transposed. *)
KvLoad(g, v) ==
  LET transposed == v.op = "Transpose"
      last == IF transposed THEN Producer(g, v.inputs[1]) ELSE v
      loads == IF transposed THEN v.inputs # <<>> /\ Sole(g, v.inputs[1], "Reshape")
               ELSE /\ v.outputs # <<>>
                    /\ \A u \in WithOp(g, {"Transpose"}) : ~ Contains(u.inputs, v.outputs[1])
      base == Down(g, <<First("Expand"), First("Unsqueeze")>>, last.inputs[1])
  IN  IF loads /\ last.inputs # <<>> /\ base.tensor # NoTensor
      THEN {[node |-> [v EXCEPT !.op = "KVLoad",
                                !.origin = IF transposed THEN TransposedOrigin[kind] ELSE kind,
                                !.inputs = <<base.tensor>>],
             skip |-> base.ids \cup (IF transposed THEN {last.id} ELSE {})] :
              kind \in KvKind({base.tensor} \cup ToSet(v.outputs))}
      ELSE {}

FuseKvLoad(g) == Fuse(g, [v \in WithOp(g, {"Reshape", "Transpose"}) |-> KvLoad(g, v)])

-----------------------------------------------------------------------------
(* Attention.                                                              *)

(* Absent inputs do not keep their place. *)
NormalizeGroupQueryAttention(g) ==
  LET Present(t) == t # NoTensor
      Whole(v) == /\ Len(v.inputs) >= 11 /\ Len(v.outputs) >= 3
                  /\ \A i \in {1, 2, 3, 11} : Present(v.inputs[i])
  IN  Reclassify(g, [v \in {u \in WithOp(g, {"GroupQueryAttention"}) : Whole(u)} |->
        [v EXCEPT !.op = "SDPA", !.origin = "GroupQueryAttention",
                  !.inputs = SubSeq(v.inputs, 1, 3) \o <<v.inputs[11]>>
                               \o Among(SubSeq(v.inputs, 4, 10), Tensor \ {NoTensor})]])

(* _find_input_with_producer_kind: the side of v that op makes, if it makes just one. *)
SideFrom(g, v, op) ==
  LET made == {i \in DOMAIN v.inputs : ProducedBy(g, v.inputs[i], op)}
  IN  IF Len(v.inputs) = 2 /\ Cardinality(made) = 1 THEN made ELSE {}

(* _match_sdpa_scaled_input *)
Scaled(g, t) ==
  LET v == Producer(g, t)
      scales == {i \in 1..2 : ProducedBy(g, v.inputs[i], "Constant")}
  IN  IF Sole(g, t, "Mul") /\ Len(v.inputs) = 2 /\ scales # {}
      THEN [tensor |-> v.inputs[3 - Smallest(scales)], ids |-> {v.id}]
      ELSE [tensor |-> t, ids |-> {}]

ScaledOrigin(query, key) ==
  CASE query.ids = {} /\ key.ids = {} -> "neitherScaled"
    [] query.ids # {} /\ key.ids = {} -> "queryScaled"
    [] query.ids = {} /\ key.ids # {} -> "keyScaled"
    [] query.ids # {} /\ key.ids # {} -> "bothScaled"

Sdpa(g, v) ==
  LET turned == Down(g, <<First("Transpose")>>, v.inputs[1])
      attend == Producer(g, turned.tensor)
      softSide == SideFrom(g, attend, "Softmax")
      soft == Producer(g, attend.inputs[Smallest(softSide)])
      masked == Producer(g, soft.inputs[1])
      scoreSide == SideFrom(g, masked, "MatMul")
      scores == Producer(g, masked.inputs[Smallest(scoreSide)])
      query == Scaled(g, scores.inputs[1])
      key == Scaled(g, scores.inputs[2])
  IN  IF /\ v.inputs # <<>>
         /\ Sole(g, turned.tensor, "MatMul")
         /\ softSide # {} /\ soft.inputs # <<>> /\ UsedOnce(g, soft)
         /\ Sole(g, soft.inputs[1], "Add")
         /\ scoreSide # {} /\ Len(scores.inputs) = 2 /\ UsedOnce(g, scores)
      THEN {[node |-> [v EXCEPT !.op = "SDPA", !.origin = ScaledOrigin(query, key),
                         !.inputs = <<query.tensor, key.tensor, attend.inputs[3 - Smallest(softSide)],
                                      masked.inputs[3 - Smallest(scoreSide)]>>],
             skip |-> UNION {query.ids, key.ids, turned.ids,
                             {scores.id, masked.id, soft.id, attend.id}}]}
      ELSE {}

FuseSdpa(g) == Fuse(g, [v \in WithOp(g, {"Reshape"}) |-> Sdpa(g, v)])
=============================================================================
