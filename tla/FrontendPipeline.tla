-------------------------- MODULE FrontendPipeline --------------------------
(***************************************************************************)
(* import_onnx_to_graph_ir, canonicalize_graph_ir, pass after pass, and    *)
(* then lower_graph_ir_to_nig on what it returns.                          *)
(***************************************************************************)
EXTENDS NigLowering, OnnxImport

CONSTANTS
  Models,           \* ONNX models
  Patterns          \* pairs of a model and the macros that its patterns stand for

ASSUME ModelsAssumption == \A m \in Models : IsModel(m)

VARIABLES
  model,            \* the ONNX model
  source,           \* the imported graph
  stage             \* canonicalizing passes that have run

vars == <<model, source, stage, graph, at, skipped, lowered, unsupported, outcome>>

Init ==
  /\ model \in Models /\ source = ImportGraph(model)
  /\ graph = source /\ stage = 0
  /\ LowerInit

Canonicalize ==
  /\ stage < PassCount
  /\ stage' = stage + 1
  /\ graph' = Pass(stage + 1, graph)
  /\ UNCHANGED <<model, source, lowerVars>>

Lower == stage = PassCount /\ LowerNext /\ UNCHANGED <<model, source, stage>>

Next == Canonicalize \/ Lower

Spec == Init /\ [][Next]_vars

-----------------------------------------------------------------------------
(* What a graph computes, symbolically.  A constant is the same constant in any
   layout, the operands of a sum are a set, and so are those of a product by a
   constant: on which side the weight stands is not kept by the code either.
   Constants that no pass looks into (exponents, epsilons, bounds of slices, target
   shapes), of kind "other", are all one setting.  Dimensions of one, casts and
   repetitions change no value. *)

Setting == <<"Setting">>

Sum(p, q)     == <<"Add", {p, q}>>
Product(p, q) == <<"Mul", {p, q}>>
SliceMeaning(p) == <<"Slice", p>>

MatMulMeaning(p, q) ==
  IF "Constant" \in {p[1], q[1]} THEN <<"Weighted", {p, q}>> ELSE <<"MatMul", <<p, q>>>>

LinearMeaning(origin, a) ==
  CASE origin = "MatMulAdd" -> Sum(MatMulMeaning(a[1], a[2]), a[3])
    [] origin = "MatMul" -> MatMulMeaning(a[1], a[2])
    [] OTHER -> <<"MatMulNBits", a>>

Norms == {"SimplifiedLayerNormalization", "LayerNorm", "RMSNorm", "RMSNORM"}

NormMeaning(x, scale) ==
  LET mean == <<"ReduceMean", <<<<"Pow", <<x, Setting>>>>>>>>
      root == <<"Sqrt", <<Sum(mean, Setting)>>>>
  IN  Product(Product(x, <<"Div", <<Setting, root>>>>), scale)

GeluMeaning(x) ==
  LET cubic == Product(Setting, Product(x, Product(x, x)))
      tanh  == <<"Tanh", <<Product(Setting, Sum(x, cubic))>>>>
  IN  Product(Setting, Product(x, Sum(Setting, tanh)))

TransposeMeaning(a) == IF a[1][1] = "Constant" THEN a[1] ELSE <<"Transpose", a>>

LookupMeaning(origin, a) ==
  LET width == IF origin = "Gather" THEN 2 ELSE 4
      row == <<origin, SubSeq(a, 1, width)>>
  IN  IF Len(a) > width THEN Product(row, a[width + 1]) ELSE row

TableMeaning(op, position, frequencies) ==
  LET angles == TransposeMeaning(<<MatMulMeaning(frequencies, position)>>)
  IN  <<op, <<<<"Concat", <<angles, angles>>>>>>>>

RopeMeaning(x, cos, sin) ==
  LET halves == <<"Concat", <<<<"Neg", <<SliceMeaning(x)>>>>, SliceMeaning(x)>>>>
  IN  Sum(Product(x, cos), Product(halves, sin))

(* The inputs of attention behind the mask are known by their names, not by place. *)
GroupMeaning(place, a, extra) == <<"GroupQueryAttention", place, a, extra>>

AttentionMeaning(origin, a) ==
  LET query == IF origin \in {"queryScaled", "bothScaled"} THEN Product(a[1], Setting) ELSE a[1]
      key == IF origin \in {"keyScaled", "bothScaled"} THEN Product(a[2], Setting) ELSE a[2]
      weights == <<"Softmax", <<Sum(MatMulMeaning(query, key), a[4])>>>>
  IN  <<"Reshape", TransposeMeaning(<<MatMulMeaning(weights, a[3])>>)>>

LoadMeaning(origin, x) ==
  IF origin \in {"keyTransposed", "valueTransposed"}
  THEN TransposeMeaning(<<<<"Reshape", x>>>>) ELSE <<"Reshape", x>>

ClassOps == {"LayoutFallback", "LAYOUT_FALLBACK", "ShapeHelper", "SHAPE_HELPER",
             "AttentionMaskPrep", "ATTENTION_MASK_PREP"}

(* The value of the output t of node v on the values a. *)
Meaning(v, a, t) ==
  LET op == IF v.op \in ClassOps THEN v.origin ELSE v.op
      place == SelectInSeq(v.outputs, LAMBDA u : u = t)
  IN
  CASE op = "Constant" /\ v.kind = "other" -> Setting
    [] op = "Input" \/ (op = "Constant" /\ v.kind # "other") -> <<op, t>>
    [] op \in {"Identity", "Unsqueeze", "Cast", "Expand"} -> a[1]
    [] op = "Transpose" -> TransposeMeaning(a)
    [] op \in {"Reshape", "Slice"} -> <<op, a[1]>>
    [] op = "MatMul" -> MatMulMeaning(a[1], a[2])
    [] op = "MatMulNBits" -> <<"MatMulNBits", a>>
    [] op \in {"Linear", "GEMM"} -> LinearMeaning(v.origin, a)
    [] op \in Norms -> NormMeaning(a[1], a[2])
    [] op = "RMSNORM_GEMM" ->
         LinearMeaning(v.origin, <<NormMeaning(a[1], a[2])>> \o SubSeq(a, 3, Len(a)))
    [] op \in {"Add", "ResidualAdd", "ELEM_ADD"} -> Sum(a[1], a[2])
    [] op = "Mul" -> Product(a[1], a[2])
    [] op = "Gelu" /\ v.origin # "none" -> GeluMeaning(a[1])
    [] op \in {"GeGLU", "GEGLU"} -> Product(GeluMeaning(a[1]), a[2])
    [] op \in {"EmbeddingLookup", "EMBEDDING_LOOKUP"} -> LookupMeaning(v.origin, a)
    [] op \in {"ROPETable", "ROPE_TABLE"} -> TableMeaning(<<"Cos", "Sin">>[place], a[1], a[2])
    [] op = "ROPE" -> RopeMeaning(a[1], a[2], a[3])
    [] op \in {"KVStore", "KVSTORE"} -> <<"Concat", <<SliceMeaning(a[1]), a[2]>>>>
    [] op \in {"KVLoad", "KVLOAD"} -> LoadMeaning(v.origin, a[1])
    [] op = "SDPA" /\ v.origin # "GroupQueryAttention" -> AttentionMeaning(v.origin, a)
    [] op = "SDPA" /\ v.origin = "GroupQueryAttention" ->
         GroupMeaning(place, SubSeq(a, 1, 4), SubSeq(a, 5, Len(a)))
    [] op = "GroupQueryAttention" /\ Len(a) >= 11 ->
         GroupMeaning(place, SubSeq(a, 1, 3) \o <<a[11]>>,
                      SelectSeq(SubSeq(a, 4, 10), LAMBDA p : p # <<"Missing", NoTensor>>))
    [] OTHER -> <<op, a>>

(* The meanings of the produced tensors when the nodes have been evaluated in order. *)
Meanings(g) ==
  LET Of(known, t) == IF t \in DOMAIN known THEN known[t] ELSE <<"Missing", t>>
      Step(known, v) ==
        LET a == [i \in DOMAIN v.inputs |-> Of(known, v.inputs[i])]
        IN  [t \in ToSet(v.outputs) |-> Meaning(v, a, t)] @@ known
  IN  FoldLeft(Step, <<>>, g)

Produced(g) == {t \in Tensor : Producers(g, t) # {}}
Results(g)  == {t \in Produced(g) : Uses(g, t) = 0}
Copies(g)   == {t \in Produced(g) : IsIdentity(Producer(g, t))}

(* The graph a reader of the result has: what was lowered, with the inputs and the
   constants, which have no macro. *)
Nig == Among(graph, {v \in ToSet(graph) : v.op \in {"Input", "Constant"}}) \o lowered

Now == IF outcome = "returned" THEN Nig ELSE graph

-----------------------------------------------------------------------------
(* The variables keep their types. *)
TypeOK ==
  /\ stage \in 0..PassCount
  /\ graph \in Seq(Node)
  /\ at \in 0..Len(graph)
  /\ skipped \subseteq {graph[n].id : n \in DOMAIN graph}
  /\ Len(lowered) <= at
  /\ \A n \in DOMAIN lowered : lowered[n].op \in Range(MacroOp) \cup {"RMSNORM_GEMM"}
  /\ ToSet(unsupported) \subseteq {graph[n].id : n \in DOMAIN graph}
  /\ outcome \in {"scanning", "returned", "unsupported", "duplicate"}

(* Attention has the outputs of the GroupQueryAttention it may have been. *)
Plural == Several \cup {"SDPA", "ROPETable"}

(* No two nodes have one id, a tensor has one producer, every node comes after the nodes
   whose outputs it reads, has the operands its operator takes, and one output if the
   operator puts out no more.  A rotary table puts out a sine too, but stands where the
   cosine stood, maybe after a reader of the sine. *)
Orderly(g) ==
  /\ g \in Seq(Node)
  /\ \A m, n \in DOMAIN g : g[m].id = g[n].id => m = n
  /\ \A t \in Tensor : \A m, n \in Producers(g, t) : m = n
  /\ Producers(g, NoTensor) = {}
  /\ \A n \in DOMAIN g :
       /\ \A t \in ToSet(g[n].inputs) : \A m \in Producers(g, t) :
            g[m].op # "ROPETable" => m < n
       /\ g[n].op = "Mul" => Len(g[n].inputs) = 2
       /\ g[n].op = "Sin" => Len(g[n].inputs) = 1
       /\ Len(g[n].outputs) > 1 => g[n].op \in Plural

(* Every tensor that is read is put out. *)
Complete(g) ==
  \A n \in DOMAIN g : \A t \in ToSet(g[n].inputs) \ {NoTensor} : Producers(g, t) # {}

(* What the passes and the lowering take for granted of a graph is true of the imported
   one, whatever its names sanitize to and although an initialized input is listed twice.
   Each pass hands it on, which drops nodes and puts fused ones in their place, except
   that a tensor may be left to readers whose producer is gone: see NothingDangling. *)
GraphsWellOrdered == Orderly(graph) /\ (stage = 0 => Complete(graph))

(* The nodes of which canonicalize.py takes the operands in either order although their
   order matters: a past that is appended to what is new (line 984), the rotated halves
   with the negated one behind (1432), values weighted from the right by their attention
   (1119), positions left of the frequencies they turn (916), a root divided by a
   constant (680), a constant to the power of an activation (710). *)
TakenEitherWay(g, v) ==
  LET Made(i, op) == ProducedBy(g, v.inputs[i], op)
      Past(t) == Producer(g, t).inputs[1]
  IN  /\ Len(v.inputs) = 2
      /\ \/ /\ v.op = "Concat" /\ Made(2, "Slice")
            /\ KvKind({Past(v.inputs[2]), v.inputs[1]} \cup ToSet(v.outputs)) # {}
         \/ v.op = "Concat" /\ Made(2, "Neg")
         \/ v.op = "MatMul" /\ (Made(2, "Softmax") \/ PositionPath(g, v.inputs[1]) # {})
         \/ v.op = "Div" /\ Made(2, "Constant")
         \/ v.op = "Pow" /\ Made(1, "Constant")

(* The graph with the operands of the nodes S the other way round. *)
Exchanged(g, S) ==
  [n \in DOMAIN g |-> IF n \in S THEN [g[n] EXCEPT !.inputs = Reverse(@)] ELSE g[n]]

(* After every pass, and in the lowered graph, each tensor that is still produced has
   the value it had in the imported model: operands are not exchanged between
   patterns, no node reads a tensor whose producer was dropped with a pattern it was
   not only part of, and what is fused is computed once the operands are there.  Some
   matchers do not look on which side an operand stands: a model with nodes that are
   TakenEitherWay means afterwards what it would have meant with some of these nodes
   written the other way round, and one that has none means what it meant. *)
MeaningKept ==
  at = 0 \/ outcome = "returned" =>
    LET after == Meanings(Now)
        loose == {n \in DOMAIN source : TakenEitherWay(source, source[n])}
    IN  \E S \in SUBSET loose :
          LET before == Meanings(Exchanged(source, S))
          IN  \A t \in Produced(Now) : after[t] = before[t]

(* What the model computes and no node reads, its outputs, every pass and the lowered
   graph still compute under the same name, with the value that MeaningKept tells.
   An output that is the copy of a tensor is left to OutputsKept. *)
ResultsKept ==
  at = 0 \/ outcome = "returned" => Results(source) \ Copies(source) \subseteq Produced(Now)

(* ".planning/research/ARCHITECTURE.md":304 says "The frontend canonicalization is
   already correct": every output is still computed, the copy of a tensor that a
   fusion absorbs included. *)
OutputsKept ==
  at = 0 \/ outcome = "returned" =>
    LET before == Meanings(source)
        after  == Meanings(Now)
    IN  \A t \in Results(source) : \E u \in Produced(Now) : after[u] = before[t]

(* A graph that spells a pattern out, with the operands of sums and products on either
   side and no other reader inside, is taken whole: one matcher does not take a part
   that another one needs, and nothing of the pattern is left to be refused or to run
   as layout. *)
PatternsRecognised ==
  outcome \in {"returned", "unsupported"} =>
    \A p \in Patterns : p[1] = model =>
      outcome = "returned" /\ {v.op : v \in ToSet(lowered)} = p[2]

(* The lowering refuses exactly the nodes that the import report counts as residual
   raw operators: the two lists of operators agree, and no residual node escapes as
   part of a fusion. *)
RefusesResidual ==
  outcome \in {"returned", "unsupported"} =>
    ToSet(unsupported) = {v.id : v \in {w \in ToSet(graph) : w.op \notin CanonicalOpKinds}}

(* Building the NIGIR never fails on a repeated id: a Linear that was lowered with its
   norm is not lowered again. *)
NeverDuplicate == outcome # "duplicate"

(* ".planning/research/ARCHITECTURE.md":346 says of canonicalization "Extensive pattern
   fusion work; correct": no pass leaves a node that reads a tensor nothing produces. *)
NothingDangling ==
  \A n \in DOMAIN graph : \A t \in ToSet(graph[n].inputs) : Producers(graph, t) # {}
=============================================================================
