------------------------------ MODULE MCPatterns ------------------------------
(* Models that spell out the patterns of canonicalize.py: with operands of
   sums and products on either side, with one more reader of any tensor whose readers
   the code counts, and with the operands of one node exchanged whose order matters. *)
EXTENDS FrontendPipeline

T == <<"t1", "t2", "t3", "t4", "t5", "t6", "t7", "t8", "t9", "t10", "t11", "t12", "t13",
       "t14", "t15", "t16", "t17", "t18", "t19", "t20", "t21", "t22", "t23", "t24", "t25",
       "t26", "t27", "t28", "t29", "t30", "t31">>

Named(word) == <<word, -1>>

New(op, inputs) ==
  [name |-> NoName, op |-> op, inputs |-> inputs, kind |-> "float", origin |-> "NoOrigin"]
Hidden(op, inputs)     == [New(op, inputs) EXCEPT !.kind = "hidden"]
Index(op, inputs)      == [New(op, inputs) EXCEPT !.kind = "index"]

Value(t, kind) == [tensor |-> t, name |-> Named(t), kind |-> kind]

(* The nth computing node puts out T[n]. *)
OutputsOf(new, n) == IF new.op = "GroupQueryAttention" THEN <<T[n], "t24", "t25">> ELSE <<T[n]>>

Model(inputs, initializers, news) ==
  [inputs |-> inputs, initializers |-> initializers,
   nodes |-> [n \in DOMAIN news |->
                [name |-> news[n].name, op |-> news[n].op, inputs |-> news[n].inputs,
                 outputs |-> OutputsOf(news[n], n), kind |-> news[n].kind,
                 origin |-> news[n].origin]]]

(* x, y and z are activations, w a matrix, b a vector, s what no pass looks into.  The
   names of the past sanitize alike, w and s are among the inputs too, and the first
   node has the name that one without a name would have in its place. *)
Past(t) == [Value(t, "float") EXCEPT !.name = Named("past_key")]

PatternInputs ==
  <<Value("x", "float"), Value("y", "float"), Value("z", "float"), Value("ids", "index"),
    Past("past_key"), Past("past_value"), Value("w", "matrix"), Value("s", "other")>>

PatternInitializers ==
  <<Value("w", "matrix"), Value("v", "matrix"), Value("b", "hidden"), Value("s", "other")>>

Uncomputed == {v.tensor : v \in ToSet(PatternInputs) \cup ToSet(PatternInitializers)}

PatternModel(news) ==
  Model(PatternInputs, PatternInitializers,
        [news EXCEPT ![1].name = <<news[Len(news)].op, Len(news) - 1>>])

On(left, p, q) == IF left THEN <<p, q>> ELSE <<q, p>>

Embedding(left) ==
  <<Hidden("Gather", <<"w", "ids">>), Hidden("Mul", On(left, "t1", "s"))>>

QuantizedEmbedding(left, origin) ==
  <<[Hidden("GatherBlockQuantized", <<"w", "ids", "v", "s">>) EXCEPT !.origin = origin],
    Hidden("Mul", On(left, "t1", "s"))>>

NormAndProduct(p, q, r) ==
  <<New("Pow", <<"x", "s">>), New("ReduceMean", <<"t1">>), New("Add", On(p, "t2", "s")),
    New("Sqrt", <<"t3">>), New("Div", <<"s", "t4">>), New("Mul", On(q, "x", "t5")),
    New("Mul", On(r, "t6", "b")), New("MatMul", <<"t7", "w">>)>>

GatedTanh(p, q, r) ==
  <<New("Mul", <<"x", "x">>), New("Mul", On(p, "x", "t1")), New("Mul", On(q, "s", "t2")),
    New("Add", On(p, "x", "t3")), New("Mul", On(q, "t4", "s")), New("Tanh", <<"t5">>),
    New("Add", On(q, "t6", "s")), New("Mul", On(p, "x", "t7")), New("Mul", On(q, "t8", "s")),
    New("Mul", On(r, "t9", "y"))>>

GatedGelu(left, origin) ==
  <<[New("Gelu", <<"x">>) EXCEPT !.origin = origin], New("Mul", On(left, "t1", "y"))>>

RopeTableNodes(left) ==
  <<Index("Shape", <<"ids">>), Index("Gather", <<"t1", "s">>), Index("Unsqueeze", <<"t2">>),
    Index("Concat", <<"t3", "s", "s">>), [Index("Equal", <<"t4", "s">>) EXCEPT !.kind = "flag"],
    Index("Where", <<"t5", "s", "t4">>), New("Expand", <<"w", "t6">>),
    Index("Unsqueeze", <<"ids">>), New("Cast", <<"t8">>), New("MatMul", On(left, "t7", "t9")),
    New("Transpose", <<"t10">>), New("Concat", <<"t11", "t11">>), New("Cos", <<"t12">>),
    New("Sin", <<"t12">>), New("Unsqueeze", <<"t13">>), New("Unsqueeze", <<"t14">>)>>

(* The table is t15 and t16; tensors up to the nth are taken. *)
Rotation(x, n, p, q, r) ==
  <<New("Slice", <<x, "s">>), New("Slice", <<x, "s">>), New("Neg", <<T[n + 2]>>),
    New("Concat", <<T[n + 3], T[n + 1]>>), New("Mul", On(p, x, "t15")),
    New("Mul", On(q, T[n + 4], "t16")), New("Add", On(r, T[n + 5], T[n + 6]))>>

Store(past) == <<New("Slice", <<past, "s">>), New("Concat", <<"t1", "x">>)>>

Load(past, transposed) ==
  <<New("Unsqueeze", <<past>>), New("Expand", <<"t1", "s">>), New("Reshape", <<"t2", "s">>)>>
    \o (IF transposed THEN <<New("Transpose", <<"t3">>)>> ELSE <<>>)

(* A query or key that is not scaled comes from some other node. *)
Attention(p, query, key) ==
  <<IF query = "Mul" THEN New("Mul", On(p, "x", "s")) ELSE New(query, <<"x">>),
    IF key = "Mul" THEN New("Mul", On(p, "y", "s")) ELSE New(key, <<"y">>),
    New("MatMul", <<"t1", "t2">>),
    [New("Greater", <<"ids", "s">>) EXCEPT !.kind = "flag"], New("Where", <<"t4", "s", "s">>),
    New("Sub", <<"t5", "s">>), New("Add", On(p, "t3", "t6")), New("Softmax", <<"t7">>),
    New("MatMul", <<"t8", "z">>), New("Transpose", <<"t9">>), Hidden("Reshape", <<"t10", "s">>)>>

GroupQuery(extra) ==
  <<New("GroupQueryAttention",
        <<"x", "y", "z">> \o extra \o <<"ids", "ids", "w", "v", "", "s">>)>>

(* Patterns that nothing else reads, with the sides B of sums and products, and the
   macros they are: all of them are fused. *)
Spelled(B) ==
  UNION {
    {<<Embedding(p), {"EMBEDDING_LOOKUP"}>> : p \in B},
    {<<QuantizedEmbedding(p, "BitsAndBlockSize"), {"EMBEDDING_LOOKUP"}>> : p \in B},
    {<<NormAndProduct(p, q, r), {"RMSNORM_GEMM"}>> : p \in B, q \in B, r \in B},
    {<<GatedTanh(p, q, r), {"GEGLU"}>> : p \in B, q \in B, r \in B},
    {<<GatedGelu(p, origin), {"GEGLU"}>> : p \in B, origin \in {"NoOrigin", "tanh"}},
    {<<RopeTableNodes(p) \o Rotation("x", 16, p, q, r), {"ROPE_TABLE", "ROPE"}>> :
       p \in B, q \in B, r \in B},
    {<<RopeTableNodes(p) \o Rotation("x", 16, p, p, q) \o Rotation("y", 23, q, p, p),
       {"ROPE_TABLE", "ROPE"}>> : p \in B, q \in B},
    {<<Store(past), {"KVSTORE"}>> : past \in {"past_key", "past_value"}},
    {<<Load(past, transposed), {"KVLOAD"}>> :
       past \in {"past_key", "past_value"}, transposed \in BOOLEAN},
    {<<Attention(p, q, k), {"SDPA", "ATTENTION_MASK_PREP", "LAYOUT_FALLBACK"}>> :
       p \in B, q \in {"Mul", "Transpose"}, k \in {"Mul", "Transpose"}},
    {<<GroupQuery(<<"past_key", other>>), {"SDPA"}>> : other \in {"", "past_value"}}}

Whole(B) == {p[1] : p \in Spelled(B)}

(* The operands of the nth node are exchanged. *)
OtherWay(news, n) == [news EXCEPT ![n].inputs = Reverse(@)]

(* A table of frequencies that are computed, not constants. *)
Computed(nodes) == [nodes EXCEPT ![7].inputs[1] = "z"]

(* Patterns that mean something else than what they are fused to, but for which
   the matchers take them: see TakenEitherWay. *)
Misspelled(B) ==
  {OtherWay(Store(past), 2) : past \in {"past_key", "past_value"}}
    \cup {<<New("Slice", <<"y", "s">>), New("Slice", <<"past_key", "s">>),
            New("Concat", <<"t1", "t2">>)>>}
    \cup {OtherWay(RopeTableNodes(p) \o Rotation("x", 16, p, q, r), 20) :
            p \in B, q \in B, r \in B}
    \cup {Computed(RopeTableNodes(p)) \o Rotation("x", 16, p, q, q) : p \in B, q \in B}
    \cup {OtherWay(Attention(p, q, k), 9) :
            p \in B, q \in {"Mul", "Transpose"}, k \in {"Mul", "Transpose"}}
    \cup {OtherWay(NormAndProduct(p, q, r), n) : p \in B, q \in B, r \in B, n \in {1, 5}}

(* Patterns that lack something. *)
Partial ==
  {QuantizedEmbedding(TRUE, "NoOrigin"), GatedGelu(TRUE, "none"), Store("y"), Load("y", TRUE),
   OtherWay(Store("y"), 2),
   Attention(TRUE, "Relu", "Mul"), GroupQuery(<<"past_key">>)}

(* Nothing counts the readers of what a rotary table is made from, nor of the table:
   of two rotations by one table the code needs both to match. *)
Counted(news) ==
  CASE news[1].op # "Shape" -> DOMAIN news
    [] news[1].op = "Shape" /\ Len(news) = 23 -> (12..23) \ {15, 16}
    [] news[1].op = "Shape" /\ Len(news) > 23 -> {23, 30}

Shared ==
  UNION {{Append(news, New("Transpose", <<T[n]>>)) : n \in Counted(news)} :
           news \in Whole({TRUE})}

PatternTensors == Uncomputed \cup {""} \cup ToSet(T)

SpelledMacros == {<<PatternModel(p[1]), p[2]>> : p \in Spelled(BOOLEAN)}
PatternModels ==
  {PatternModel(news) : news \in Whole(BOOLEAN) \cup Misspelled(BOOLEAN) \cup Partial \cup Shared}

KeyNames   == {"past_key"}
ValueNames == {"past_value"}
=============================================================================
