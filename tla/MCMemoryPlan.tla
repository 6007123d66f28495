---------------------------- MODULE MCMemoryPlan ----------------------------
(* Lists of one, two and three nodes of a small library, in both modes, on the
   regions of profiles/riscv_npu_dual_core_v1.json, on regions a row hardly fits
   and on a target that lacks some. *)
EXTENDS MemoryPlan

MCTensor ==
  {"x", "h", "w", "w.", "scale", "zp", "ids", "table", "norm", "cos", "mask", "k",
   "past_key_values.0.key", "past_key_values.0.value", "cache.key", "present.0.key",
   "present.0.value", "out"}

MCSays ==
  [t \in MCTensor |->
     CASE t \in {"past_key_values.0.key", "past_key_values.0.value"} -> {"past", "key", "value"}
       [] t = "cache.key"       -> {"key"}
       [] t = "present.0.key"   -> {"present", "key"}
       [] t = "present.0.value" -> {"present", "value"}
       [] t = "cos"             -> {"table"}
       [] t = "mask"            -> {"mask"}
       [] OTHER                 -> {}]

MCSanitize == [t \in MCTensor |-> IF t = "w." THEN "w" ELSE t]

bf16 == 4
fp32 == 8
int8 == 2
int4 == 1

MkNode(macro, inputs, outputs, shape) ==
  [id |-> 0, macro |-> macro, inputs |-> inputs, outputs |-> outputs, shape |-> shape,
   fallback |-> "ACTIVATION", weights |-> bf16, activations |-> bf16, group |-> 64,
   quantised |-> FALSE, kTile |-> 128, headDim |-> 0, kvKind |-> "", layer |-> NoLayer, bound |-> TRUE]

Rows == <<1, 64, 256>>

Library == <<
  MkNode("GEMM", <<"x", "w">>, <<"h">>, Rows),
  [MkNode("GEMM", <<"x", "w", "w.">>, <<"h">>, <<1, 20, 64>>) EXCEPT !.weights = NoDtype,
                                                                  !.activations = fp32],
  [MkNode("WDQ_GEMM", <<"x", "w", "scale", "zp">>, <<"h">>, Rows) EXCEPT !.weights = int4,
                                                        !.quantised = TRUE, !.kTile = 96],
  MkNode("RMSNORM_GEMM", <<"x", "norm", "w", "scale">>, <<"h">>, Rows),
  MkNode("RMSNORM", <<"x", "norm">>, <<"h">>, Rows),
  MkNode("EMBEDDING_LOOKUP", <<"table", "ids">>, <<"h">>, Rows),
  [MkNode("EMBEDDING_LOOKUP", <<"table", "ids", "scale">>, <<"h">>, <<1, 64, 1536>>) EXCEPT
     !.weights = int8],
  MkNode("ROPE", <<"x", "cos">>, <<"h">>, <<1, 8, 64, 256>>),
  [MkNode("ROPE_TABLE", <<"ids", "w">>, <<"cos">>, <<64, 64>>) EXCEPT !.headDim = 128],
  [MkNode("KVSTORE", <<"past_key_values.0.key", "k">>, <<"present.0.key">>, <<1, 2, 80, 64>>)
     EXCEPT !.kvKind = "key", !.layer = 0],
  [MkNode("KVLOAD", <<"cache.key">>, <<"k">>, <<1, 2, 80, 64>>) EXCEPT !.layer = 1],
  [MkNode("SDPA", <<"x", "k", "h", "mask", "past_key_values.0.key", "past_key_values.0.value",
                    "cos", "w">>,
          <<"out", "present.0.key", "present.0.value">>, Rows) EXCEPT !.layer = 0],
  [MkNode("SDPA_DECODE", <<"x", "k">>, <<"out">>, Rows) EXCEPT !.layer = 1, !.headDim = 32],
  MkNode("GEGLU", <<"x", "h">>, <<"out">>, Rows),
  MkNode("ELEM_ADD", <<"x", "x">>, <<"out">>, <<>>),
  MkNode("LAYOUT_FALLBACK", <<"x">>, <<"h">>, <<7>>),
  MkNode("SHAPE_HELPER", <<"x">>, <<"ids">>, <<3, 0>>),
  [MkNode("ATTENTION_MASK_PREP", <<"ids">>, <<"mask">>, <<1, 64>>) EXCEPT !.bound = FALSE],
  MkNode("ATTENTION_MASK_PREP", <<"ids">>, <<"mask">>, <<1, 64>>) >>

(* Node ids are unique. *)
Nig(kinds) == [i \in DOMAIN kinds |-> [Library[kinds[i]] EXCEPT !.id = i]]

Kinds == DOMAIN Library

(* In threes: two nodes of the same kind behind a third one. *)
MCNigs ==
  {Nig(<<a, b>>) : a \in Kinds, b \in Kinds}
  \cup {Nig(<<a, b, b>>) : a \in {1, 3, 7, 12}, b \in {1, 4, 5, 10, 12}}
  \cup {Nig(<<a, b, a>>) : a \in {1, 10, 13}, b \in {2, 6, 11, 14}}

MCScenarios ==
  {[mode |-> IF q = 1 THEN "decode" ELSE "prefill", query |-> q,
    pastLen |-> IF q = 1 THEN 80 ELSE 0, kvHeads |-> 2, headDim |-> 64] : q \in {1, 5, 64}}

Kb == 1024

DualCoreV1 ==
  [ping |-> 30 * Kb, pong |-> 30 * Kb, weight |-> 32 * Kb, accum |-> 24 * Kb, misc |-> 4 * Kb,
   wdq_reserved |-> 4 * Kb, quant |-> 4 * Kb]

Tight ==
  [ping |-> 4 * Kb, pong |-> 2 * Kb, weight |-> Kb, accum |-> 8 * Kb, misc |-> Kb,
   wdq_reserved |-> Kb, quant |-> Kb]

Lacking == [ping |-> 8 * Kb, pong |-> 8 * Kb, weight |-> 16 * Kb]

MCProfiles == {DualCoreV1, Tight, Lacking}
=============================================================================
