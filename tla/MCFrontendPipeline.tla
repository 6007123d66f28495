------------------------- MODULE MCFrontendPipeline -------------------------
(* The models of the runs: those of MCPatterns, and small ones of an input x,
   a constant w for weights, a constant b for biases and scales, and up to three
   computing nodes in every combination; longer ones around the fusion of a norm
   with a Linear. *)
EXTENDS MCPatterns

(* The computing nodes that can read the tensors S. *)
Reading(S) ==
  {Hidden(op, <<a>>) : op \in {"Identity", "Transpose"}, a \in S}
    \cup {Hidden("MatMul", <<p, q>>) : p \in S, q \in S}
    \cup {Hidden("Add", <<p, q>>) : p \in (S \ {"w"}) \cup {"b"}, q \in (S \ {"w"}) \cup {"b"}}
    \cup {Hidden("MatMulNBits", <<a, "w">>) : a \in S \ {"w"}}
    \cup {Hidden("SimplifiedLayerNormalization", <<a, "b">>) : a \in S \ {"w"}}

Small(news) ==
  Model(<<Value("x", "hidden")>>, <<Value("w", "hidden"), Value("b", "hidden")>>, news)

(* The first node is read, by one of the next two or by both. *)
Reads(new, S) == ToSet(new.inputs) \cap S # {}
Firsts  == {p \in Reading({"x", "w"}) : Reads(p, {"x"}) \/ p.op = "Transpose"}
Seconds == {q \in Reading({"x", "w", "t1"}) : Reads(q, {"t1"})}
Thirds(q) ==
  {r \in Reading({"x", "w", "t1", "t2"}) :
     Reads(r, {"t2"}) \/ (Reads(r, {"t1"}) /\ q.op \in {"MatMul", "Add"})}

Threes ==
  (UNION {{<<p, q, r>> : p \in Firsts, r \in Thirds(q)} : q \in Seconds})
    \cup {<<p, q, Hidden(op, <<"t1", "t2">>)>> :
            p \in Firsts, q \in Firsts, op \in {"MatMul", "Add"}}

(* It has the name of the second node, should that be a MatMul without one. *)
Norm == [Hidden("SimplifiedLayerNormalization", <<"x", "b">>) EXCEPT !.name = <<"MatMul", 1>>]

(* A norm, its Linear behind an identity or a bias, and a second reader. *)
Fours == {<<Norm, p, q, r>> :
            p \in {Hidden("Identity", <<"t1">>), Hidden("Transpose", <<"w">>),
                   Hidden("MatMul", <<"t1", "w">>)},
            q \in {Hidden("MatMul", <<"t1", "t2">>), Hidden("MatMul", <<"t2", "w">>),
                   Hidden("Add", <<"t2", "b">>)},
            r \in Reading({"x", "w", "t1", "t2", "t3"})}

Odd == {<<[Norm EXCEPT !.inputs = <<"x", "x">>], Hidden("Relu", <<"t1">>)>>,
        <<Norm, [Hidden("Add", <<"t1", "x">>) EXCEPT !.kind = "other"]>>,
        <<[Norm EXCEPT !.op = "LayerNorm"], Hidden("MatMul", <<"w", "t1">>)>>}

(* A product whose weight stands behind a transpose and whose result gets a bias. *)
TransposedWithBias == Small(<<Hidden("Transpose", <<"w">>), Hidden("MatMul", <<"x", "t1">>),
                              Hidden("Add", <<"t2", "b">>)>>)

(* FuseMatMulAdd meets no transposed weight: MCFrontendTransposes.cfg shows what
   happens if it does. *)
Plain(m) ==
  LET h == NormalizeMatMulNBits(EliminateIdentities(ImportGraph(m))) IN
  \A v \in {u \in ToSet(h) : u.op = "Add" /\ ProductSides(h, u) # {}} :
    LinearInputs(h, Absorbed(h, v)).pattern = <<>>

MCModels ==
  {Small(news) : news \in {s \in Threes \cup Fours \cup Odd : Plain(Small(s))}} \cup PatternModels

MCTransposed == {TransposedWithBias}

(* An output that is the copy of a product to which a bias is added. *)
MCCopied == {Small(<<Hidden("MatMul", <<"x", "w">>), Hidden("Identity", <<"t1">>),
                     Hidden("Add", <<"t1", "b">>)>>)}
=============================================================================
