----------------------------- MODULE NodeBinding -----------------------------
(***************************************************************************)
(* frontend/binding.py and the attention payload of                        *)
(* frontend/shape_binding.py: what binding adds to the nodes of a NIGIR.   *)
(* A node has                                                              *)
(*   id, macro, inputs, outputs                                            *)
(*   shape       the resolved shape                                        *)
(*   fallback    the memory class the lowering gave it                     *)
(*   weights, activations   dtypes, in half bytes an element; NoDtype      *)
(*   group       quant.group_size                                          *)
(*   quantised   quant.quant_mode is not "none"                            *)
(*   kTile       quant.k_tile_size                                         *)
(*   headDim     attrs["head_dim"], 0 if absent                            *)
(*   kvKind      attrs["tensor_kind"]                                      *)
(*   layer       what its source ids say, or NoLayer                       *)
(*   bound       it has a binding                                          *)
(* What the code reads from the name of a tensor is Says.                  *)
(***************************************************************************)
EXTENDS Integers, FiniteSets, SequencesExt

CONSTANTS Tensor,
          Says         \* the words found in a name: "past", "present", "table", ...

ASSUME SaysAssumption ==
  Says \in [Tensor -> SUBSET {"past", "present", "table", "mask", "key", "value"}]

NoDtype == 0
NoLayer == -1

MemoryClass == {"ACTIVATION", "WEIGHT", "KV_CACHE", "QUANT_PARAM", "METADATA"}

SdpaMacros == {"SDPA", "SDPA_DECODE"}
AttentionMacros == {"ROPE", "KVSTORE", "KVLOAD"} \cup SdpaMacros

(* The past, cached tables and masks are looked for behind the fourth input. *)
SdpaInputClass(i, t) ==
  CASE i <= 4               -> "ACTIVATION"
    [] i > 4 /\ "past" \in Says[t] -> "KV_CACHE"
    [] i > 4 /\ "past" \notin Says[t] /\ Says[t] \cap {"table", "mask"} # {} -> "METADATA"
    [] OTHER                -> "ACTIVATION"

(* The norm is classified under its canonical name only, which a bound node does
   not have: a RMSNORM takes the fallback. *)
ClassAt(v, i) ==
  CASE v.macro = "GEMM"             -> IF i = 1 THEN "ACTIVATION" ELSE "WEIGHT"
    [] v.macro = "WDQ_GEMM"         -> <<"ACTIVATION", "WEIGHT", "QUANT_PARAM">>[IF i > 3 THEN 3 ELSE i]
    [] v.macro = "RMSNORM_GEMM"     ->
         <<"ACTIVATION", "WEIGHT", "WEIGHT", "QUANT_PARAM">>[IF i > 4 THEN 4 ELSE i]
    [] v.macro \in SdpaMacros       -> SdpaInputClass(i, v.inputs[i])
    [] v.macro = "ROPE"             -> IF i = 1 THEN "ACTIVATION" ELSE "METADATA"
    [] v.macro = "ROPE_TABLE"       -> IF i = 1 THEN "METADATA" ELSE "WEIGHT"
    [] v.macro = "KVSTORE"          -> IF i = 1 THEN "KV_CACHE" ELSE "ACTIVATION"
    [] v.macro = "KVLOAD"           -> "KV_CACHE"
    [] v.macro = "EMBEDDING_LOOKUP" -> IF i = 2 THEN "METADATA" ELSE "WEIGHT"
    [] v.macro \in {"GEGLU", "ELEM_ADD", "LAYOUT_FALLBACK", "SHAPE_HELPER"} -> "ACTIVATION"
    [] OTHER                        -> v.fallback

(* A dict of tensor names: the last of equal names decides, in each classifier. *)
InputClass(v, t) == ClassAt(v, SelectLastInSeq(v.inputs, LAMBDA u : u = t))

OutputClass(v, t) ==
  CASE v.macro = "KVSTORE"                        -> "KV_CACHE"
    [] v.macro \in {"KVLOAD", "EMBEDDING_LOOKUP"} -> "ACTIVATION"
    [] v.macro \in SdpaMacros -> IF "present" \in Says[t] THEN "KV_CACHE" ELSE "ACTIVATION"
    [] v.macro \in {"ROPE_TABLE", "SHAPE_HELPER"} -> "METADATA"
    [] OTHER                                      -> v.fallback

(* A scenario has mode, query and pastLen and, of the model's metadata, kvHeads and
   headDim. *)
HasAttention(v) == v.macro \in AttentionMacros

KvLen(s) == s.pastLen + s.query

HeadDim(v, s) == IF v.headDim > 0 THEN v.headDim ELSE s.headDim
=============================================================================
