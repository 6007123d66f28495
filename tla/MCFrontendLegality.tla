-------------------------- MODULE MCFrontendLegality --------------------------
(* Canonical graphs of one computing node, and of a norm and its Linear, with every
   way to leave dimensions open, on targets that lack something, with and without a
   scenario. *)
EXTENDS FrontendLegality

MCTensor == {"x", "w", "scale", "zero", "b", "past", "t1", "t2"}

MkNode(op, inputs, output) ==
  [id |-> <<"node", <<op, -1>>, 0>>, op |-> op, inputs |-> inputs, outputs |-> <<output>>,
   kind |-> "float", origin |-> "NoOrigin"]

(* A leaf, closed, and unlike the others an input of the graph. *)
X == [id |-> <<"Input", <<"x", -1>>, 0>>, op |-> "Input", inputs |-> <<>>, outputs |-> <<"x">>,
      kind |-> "float", origin |-> "NoOrigin"]

Plain == [shape |-> <<1, 3, 8>>, dtype |-> "bf16", layout |-> NoLayout, weights |-> NoWeights,
          group |-> NoGroup, heads |-> 0, headDim |-> 0, queryLen |-> 0, tensorKind |-> "none"]

(* One node v with payload p behind the input, or a norm and v. *)
Alone(v, p) == [graph |-> <<X, v>>, payload |-> (v.id :> p) @@ (X.id :> Plain)]

Norm == MkNode("RMSNorm", <<"x", "b">>, "t1")

Behind(v, p, q) ==
  [graph |-> <<X, Norm, v>>,
   payload |-> (v.id :> p) @@ (Norm.id :> q) @@ (X.id :> Plain)]

OpenShapes ==
  {<<>>, <<-1>>, <<-1, 8>>, <<-1, -1, 8>>, <<-1, -1, -1>>, <<1, -1, -1, 4>>, <<-1, -1, -1, -1>>,
   <<-1, 2, 3, 4, -1>>}

Shaped == {[Plain EXCEPT !.shape = shape] : shape \in OpenShapes}

(* MatMulNBits has a block size, zero if the attribute is absent; its bits may be
   absent, or eight.  Quantised weights as a caller's own graph may declare them have
   any group, and a type no pass gives. *)
Quantised ==
  {[Plain EXCEPT !.weights = w, !.group = g, !.dtype = d] :
     w \in {"int4", "uint4", "nf4", "int8", "unknown"}, g \in {0, 32}, d \in {"bf16", "float16"}}
  \cup {[Plain EXCEPT !.weights = w, !.group = g, !.shape = shape] :
          w \in {"int4", "nf4"}, g \in {NoGroup, 0, 8, 16, 48, 128, 256},
          shape \in {<<1, 3, 8>>, <<-1, -1, 8>>}}

Linear(inputs) == MkNode("Linear", inputs, "t2")

Linears ==
  {Alone(Linear(i), p) : i \in {<<"x", "w">>, <<"x", "w", "scale">>, <<"x", "w", "scale", "zero">>},
                         p \in Shaped \cup Quantised}
  \cup {Behind(Linear(i), p, q) : i \in {<<"t1", "w">>, <<"t1", "w", "scale">>},
                                  p \in Shaped \cup Quantised,
                                  q \in {Plain, [Plain EXCEPT !.shape = <<-1, -1, 8>>]}}

Attentions ==
  {Alone(MkNode("SDPA", <<"x", "x", "x", "b">>, "t1"),
         [p EXCEPT !.queryLen = n, !.heads = h, !.headDim = h]) :
     p \in Shaped, n \in {0, 1, 3}, h \in {0, 2}}

Caches ==
  {Alone(MkNode(op, <<"past", "x">>, "t1"),
         [p EXCEPT !.layout = l, !.dtype = d, !.heads = h, !.tensorKind = "key"]) :
     op \in {"KVStore", "KVLoad"}, p \in Shaped, l \in {NoLayout, "BHSD", "LBHSD", "NCHW"},
     d \in {"bf16", "float16"}, h \in {0, 2}}

Others ==
  {Alone(MkNode(op, <<"x", "x">>, "t1"), p) :
     op \in {"ROPE", "GeGLU", "ResidualAdd", "RMSNorm", "ROPETable", "EmbeddingLookup",
             "ShapeHelper", "AttentionMaskPrep", "LayoutFallback", "Relu", "If"}, p \in Shaped}

Native ==
  {"GEMM", "WDQ_GEMM", "RMSNORM", "RMSNORM_GEMM", "ROPE", "SDPA", "GEGLU", "ELEM_ADD", "KVSTORE",
   "KVLOAD", "SDPA_DECODE"}

DualCoreV1 ==
  [opcodes |-> Native, wdq |-> TRUE, weights |-> "int4", activations |-> "bf16",
   groups |-> {128}, wdqGroups |-> {128}, kvDtype |-> "bf16", kvLayout |-> "LBHSD"]

Targets ==
  {NoTarget, DualCoreV1, [DualCoreV1 EXCEPT !.weights = "nf4"],
   [DualCoreV1 EXCEPT !.opcodes = Native \ {"SDPA_DECODE", "WDQ_GEMM"}, !.kvLayout = "BHSD"],
   [DualCoreV1 EXCEPT !.opcodes = Native \ {"SDPA", "GEMM"}, !.groups = {16, 32, 128},
                      !.wdqGroups = {32, 48, 256}, !.kvDtype = "float16"],
   [DualCoreV1 EXCEPT !.wdq = FALSE, !.kvLayout = "SBHD"]}

Prefill == [mode |-> "prefill", batch |-> 1, query |-> 3, pastLen |-> 0, heads |-> 2, kvHeads |-> 1,
            headDim |-> 4]

Scenarios ==
  {NoScenario, Prefill, [Prefill EXCEPT !.mode = "decode", !.query = 1, !.pastLen = 5]}

MCCases ==
  {[graph |-> c.graph, payload |-> c.payload, target |-> t, scenario |-> s] :
     c \in Linears \cup Attentions \cup Caches \cup Others, t \in Targets, s \in Scenarios}
=============================================================================
