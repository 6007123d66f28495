----------------------------- MODULE ShapeBinding -----------------------------
(***************************************************************************)
(* frontend/shape_binding.py: dimensions that the model leaves open, -1,   *)
(* closed with what the scenario says.  Legality asks under the name of a  *)
(* canonical operator, and binding under the name of its macro.            *)
(*                                                                         *)
(* A scenario, with the model's metadata, has mode, batch, query, pastLen, *)
(* heads, kvHeads and headDim.  Of a node the code reads its shape and, of *)
(* attrs, heads, headDim (not positive if absent) and tensorKind.          *)
(***************************************************************************)
EXTENDS Integers, Sequences

CONSTANT NoScenario

AttentionKinds == {"ROPE", "KVStore", "KVLoad", "KVSTORE", "KVLOAD", "SDPA", "SDPA_DECODE"}

MutMainPathKinds ==
  {"Linear", "GEMM", "WDQ_GEMM", "RMSNorm", "RMSNORM", "GeGLU", "GEGLU", "ResidualAdd", "ELEM_ADD"}

MainPathKinds ==
  {"Linear", "GEMM", "WDQ_GEMM", "RMSNorm", "RMSNORM", "RMSNORM_GEMM", "GeGLU", "GEGLU",
   "ResidualAdd", "ELEM_ADD"}

OrElse(value, default) == IF value > 0 THEN value ELSE default

PresentLen(s) == s.pastLen + s.query

HeadAxis(kind, p, s) ==
  IF kind \in {"KVStore", "KVSTORE"} \/ (kind \in {"KVLoad", "KVLOAD"} /\ p.tensorKind = "cache")
  THEN s.kvHeads
  ELSE OrElse(p.heads, s.heads)

(* What the open dimensions are closed with, from the first axis on. *)
AttentionAxes(kind, p, s) ==
  IF kind \in {"SDPA", "SDPA_DECODE"}
  THEN <<s.batch, s.query, OrElse(p.heads, s.heads) * OrElse(p.headDim, s.headDim)>>
  ELSE <<s.batch, HeadAxis(kind, p, s), IF kind = "ROPE" THEN s.query ELSE PresentLen(s),
         OrElse(p.headDim, s.headDim)>>

MainPathAxes(p, s) ==
  CASE Len(p.shape) = 3 -> <<s.batch, s.query>>
    [] Len(p.shape) = 4 -> <<s.batch, HeadAxis("ROPE", p, s), s.query, OrElse(p.headDim, s.headDim)>>
    [] OTHER            -> <<s.batch>>

Axes(kind, p, s) ==
  CASE kind \in AttentionKinds -> AttentionAxes(kind, p, s)
    [] kind \in MainPathKinds  -> MainPathAxes(p, s)
    [] OTHER                   -> <<>>

Closed(shape) == \A i \in DOMAIN shape : shape[i] >= 0

(* resolve_bound_shape *)
BoundShape(kind, p, s) ==
  IF s = NoScenario THEN p.shape
  ELSE LET axes == Axes(kind, p, s) IN
       [i \in DOMAIN p.shape |->
          IF p.shape[i] < 0 /\ i \in DOMAIN axes THEN axes[i] ELSE p.shape[i]]

(* resolve_canonical_layout *)
CanonicalLayout(kind, default, s) ==
  CASE s # NoScenario /\ kind \in AttentionKinds \ {"SDPA", "SDPA_DECODE"} -> "BHSD"
    [] s # NoScenario /\ kind \in {"SDPA", "SDPA_DECODE"}                  -> "HSD"
    [] OTHER                                                               -> default

(* resolve_attention_binding_payload, without the layouts, which are always the same *)
AttentionPayload(p, s) ==
  [mode |-> s.mode, query |-> s.query, kvLen |-> PresentLen(s), kvHeads |-> s.kvHeads,
   heads |-> OrElse(p.heads, s.heads), headDim |-> OrElse(p.headDim, s.headDim)]
=============================================================================
