---------------------------- MODULE NigLowering ----------------------------
(***************************************************************************)
(* lower_graph_ir_to_nig of frontend/nig_lowering.py: one scan over the    *)
(* canonical graph, which emits a macro operation per node, except that an *)
(* RMSNorm read only by a Linear becomes one macro with it.  A lowered     *)
(* node is a node of LinearCanonicalization whose op is its macro_op, and  *)
(* keeps the id: _nig_node_id renames one to one.                          *)
(***************************************************************************)
EXTENDS Canonicalization

VARIABLES
  graph,                \* the Graph IR
  at,                   \* nodes that the scan has passed
  skipped,              \* skipped_graph_node_ids
  lowered,              \* lowered_nodes
  unsupported,          \* unsupported_node_ids
  outcome               \* "scanning", "returned", "unsupported" or "duplicate"

lowerVars == <<at, skipped, lowered, unsupported, outcome>>

MutMacroOp ==
  [Linear |-> "GEMM", RMSNorm |-> "RMSNORM", EmbeddingLookup |-> "EMBEDDING_LOOKUP",
   ROPETable |-> "ROPE_TABLE", GeGLU |-> "GEGLU", ROPE |-> "ROPE", KVStore |-> "KVSTORE",
   KVLoad |-> "KVLOAD", SDPA |-> "SDPA", ResidualAdd |-> "ELEM_ADD",
   ShapeHelper |-> "SHAPE_HELPER", AttentionMaskPrep |-> "ATTENTION_MASK_PREP"]

(* A Linear is a WDQ_GEMM if its weights have four bits, an SDPA an SDPA_DECODE when
   decoding: nothing here depends on which of the two. *)
MacroOp ==
  [Linear |-> "GEMM", RMSNorm |-> "RMSNORM", EmbeddingLookup |-> "EMBEDDING_LOOKUP",
   ROPETable |-> "ROPE_TABLE", GeGLU |-> "GEGLU", ROPE |-> "ROPE", KVStore |-> "KVSTORE",
   KVLoad |-> "KVLOAD", SDPA |-> "SDPA", ResidualAdd |-> "ELEM_ADD",
   ShapeHelper |-> "SHAPE_HELPER", LayoutFallback |-> "LAYOUT_FALLBACK",
   AttentionMaskPrep |-> "ATTENTION_MASK_PREP"]

LowerInit ==
  /\ at = 0 /\ skipped = {} /\ lowered = <<>> /\ unsupported = <<>> /\ outcome = "scanning"

Scanned == graph[at + 1]
Scan == outcome = "scanning" /\ at < Len(graph) /\ at' = at + 1 /\ outcome' = outcome

(* The first Linear that multiplies what the norm v outputs, if that is read once. *)
FusibleLinears(v) ==
  {n \in DOMAIN graph :
     /\ UsedOnce(graph, v)
     /\ graph[n].op = "Linear" /\ graph[n].inputs # <<>>
     /\ graph[n].inputs[1] = v.outputs[1]
     /\ Producer(graph, v.outputs[1]) = v}

Fuses(v) == v.op = "RMSNorm" /\ FusibleLinears(v) # {}

MutIgnored(v) == v.op \in {"Input", "Constant", "LayoutFallback"}

Ignored(v) == v.op \in {"Input", "Constant"}

Drop ==
  /\ Scan
  /\ Scanned.id \in skipped \/ Ignored(Scanned)
  /\ UNCHANGED <<graph, skipped, lowered, unsupported>>

MutLowerFused ==
  /\ Scan
  /\ Scanned.id \notin skipped /\ Fuses(Scanned)
  /\ LET linear == graph[Smallest(FusibleLinears(Scanned))] IN
       lowered' = Append(lowered, [linear EXCEPT !.op = "RMSNORM_GEMM",
                    !.inputs = Scanned.inputs \o Tail(linear.inputs)])
  /\ UNCHANGED <<graph, skipped, unsupported>>

LowerFused ==
  /\ Scan
  /\ Scanned.id \notin skipped /\ Fuses(Scanned)
  /\ LET linear == graph[Smallest(FusibleLinears(Scanned))] IN
       /\ lowered' = Append(lowered, [linear EXCEPT !.op = "RMSNORM_GEMM",
                       !.inputs = Scanned.inputs \o Tail(linear.inputs)])
       /\ skipped' = skipped \cup {linear.id}
  /\ UNCHANGED <<graph, unsupported>>

MutLowerAlone ==
  /\ Scan
  /\ Scanned.id \notin skipped /\ Scanned.op \in DOMAIN MacroOp /\ ~ Fuses(Scanned)
  /\ lowered' = Append(lowered, Scanned)
  /\ UNCHANGED <<graph, skipped, unsupported>>

LowerAlone ==
  /\ Scan
  /\ Scanned.id \notin skipped /\ Scanned.op \in DOMAIN MacroOp /\ ~ Fuses(Scanned)
  /\ lowered' = Append(lowered, [Scanned EXCEPT !.op = MacroOp[@]])
  /\ UNCHANGED <<graph, skipped, unsupported>>

Refuse ==
  /\ Scan
  /\ Scanned.id \notin skipped /\ ~ Ignored(Scanned) /\ Scanned.op \notin DOMAIN MacroOp
  /\ unsupported' = Append(unsupported, Scanned.id)
  /\ UNCHANGED <<graph, skipped, lowered>>

(* NIGIR is built, and checks its ids, before unsupported nodes are reported. *)
Conclude ==
  /\ outcome = "scanning" /\ at = Len(graph)
  /\ outcome' = IF ~ IsInjective([n \in DOMAIN lowered |-> lowered[n].id]) THEN "duplicate"
                ELSE IF unsupported # <<>> THEN "unsupported"
                ELSE "returned"
  /\ UNCHANGED <<graph, at, skipped, lowered, unsupported>>

LowerNext == Drop \/ LowerFused \/ LowerAlone \/ Refuse \/ Conclude
=============================================================================
