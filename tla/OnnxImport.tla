------------------------------ MODULE OnnxImport ------------------------------
(***************************************************************************)
(* import_onnx_to_graph_ir of frontend/onnx_importer.py: from an ONNX      *)
(* model to a graph.  A model has                                          *)
(*   inputs, initializers   sequences of [tensor, name, kind]              *)
(*   nodes                  of [name, op, inputs, outputs, kind, origin]   *)
(* A name is modelled by what it sanitizes to, a word and the number at    *)
(* its end, -1 if there is none.  Types and shapes, which the onnx library *)
(* infers, are the kinds.                                                  *)
(***************************************************************************)
EXTENDS LinearCanonicalization

NoName == <<"", -1>>

MutPureInputs(m) == m.inputs

(* Inputs that have a default value are listed as initializers too. *)
PureInputs(m) ==
  LET initialized == {v.tensor : v \in ToSet(m.initializers)}
  IN  Among(m.inputs, {v \in ToSet(m.inputs) : v.tensor \notin initialized})

ValueNode(v, op) ==
  [prefix |-> op, name |-> v.name,
   node |-> [op |-> op, inputs |-> <<>>, outputs |-> <<v.tensor>>, kind |-> v.kind,
             origin |-> "NoOrigin"]]

(* A node without a name gets its op and its index, from 0, for one. *)
NamedNode(m, n) ==
  LET v == m.nodes[n] IN
  [prefix |-> "node", name |-> IF v.name = NoName THEN <<v.op, n - 1>> ELSE v.name,
   node |-> [op |-> v.op, inputs |-> v.inputs, outputs |-> v.outputs, kind |-> v.kind,
             origin |-> v.origin]]

(* _make_unique_node_id: the first suffix that is free, 0 being none.  A sanitized name
   has no dot, so that a suffix never makes one name out of another. *)
UniqueId(seen, prefix, name) ==
  <<prefix, name,
    Smallest({k \in 0..Cardinality(seen) : <<prefix, name, k>> \notin seen})>>

WithId(id, node) ==
  [id |-> id, op |-> node.op, inputs |-> node.inputs, outputs |-> node.outputs,
   kind |-> node.kind, origin |-> node.origin]

ImportGraph(m) ==
  LET values == PureInputs(m)
      all == [n \in DOMAIN values |-> ValueNode(values[n], "Input")]
             \o [n \in DOMAIN m.initializers |-> ValueNode(m.initializers[n], "Constant")]
             \o [n \in DOMAIN m.nodes |-> NamedNode(m, n)]
      imported[k \in 0..Len(all)] ==
        IF k = 0 THEN [seen |-> {}, nodes |-> <<>>]
        ELSE LET w == imported[k - 1]
                 id == UniqueId(w.seen, all[k].prefix, all[k].name)
             IN  [seen |-> w.seen \cup {id}, nodes |-> Append(w.nodes, WithId(id, all[k].node))]
  IN  imported[Len(all)].nodes

-----------------------------------------------------------------------------

ModelValue == [tensor : Tensor \ {NoTensor}, name : NodeName, kind : Kinds]

(* None of Ops leaves out an output that has others behind it. *)
ModelNode ==
  [name : NodeName \cup {NoName}, op : Ops, inputs : Seq(Tensor),
   outputs : Seq(Tensor \ {NoTensor}), kind : Kinds, origin : Origins]

(* Operators whose operands the passes pair up without counting them. *)
Arity == [Mul |-> 2, Sin |-> 1]

(* Operators with several outputs. *)
Several == {"GroupQueryAttention", "If", "Loop", "Scan"}

(* onnx.checker's rules for a model: operators have the operands they take and put out
   one tensor if they are none of Several; every tensor is assigned once, an input that
   is initialized being one tensor, and before it is read.  The statistics that a norm
   may put out for training are left out: a model for inference asks for none. *)
IsModel(m) ==
  LET values == {v.tensor : v \in ToSet(m.inputs) \cup ToSet(m.initializers)}
      Assigned(n) == ToSet(m.nodes[n].outputs)
  IN  /\ m.inputs \in Seq(ModelValue) /\ m.initializers \in Seq(ModelValue)
      /\ m.nodes \in Seq(ModelNode)
      /\ \A v \in ToSet(m.nodes) :
           /\ v.op \in DOMAIN Arity => Len(v.inputs) = Arity[v.op]
           /\ Len(v.outputs) > 1 => v.op \in Several
      /\ IsInjective([n \in DOMAIN m.inputs |-> m.inputs[n].tensor])
      /\ IsInjective([n \in DOMAIN m.initializers |-> m.initializers[n].tensor])
      /\ \A n \in DOMAIN m.nodes :
           /\ Assigned(n) \cap values = {} /\ IsInjective(m.nodes[n].outputs)
           /\ \A k \in DOMAIN m.nodes \ {n} : Assigned(n) \cap Assigned(k) = {}
           /\ ToSet(m.nodes[n].inputs) \ {NoTensor}
                \subseteq values \cup UNION {Assigned(k) : k \in 1..(n - 1)}
=============================================================================
