--------------------------- MODULE TaskDagBuilder ---------------------------
(***************************************************************************)
(* build_task_dag of frontend/task_dag_builder.py: from a NIGIR to a       *)
(* validated TaskDAG.  Layout nodes get no task: what they output is       *)
(* rewritten to what they read, tensor by tensor, and the tasks that       *)
(* consumed it are wired to the producer behind it.                        *)
(*                                                                         *)
(* A nig has nodes, in list order, each with elided (its macro_op is one   *)
(* of _ELIDED_MACRO_OPS) and the sequences of tensors inputs and outputs,  *)
(* and graph_inputs, the set graph_input_names.  A node is named by its    *)
(* position n and its task is <<"task", n>>.                               *)
(***************************************************************************)
EXTENDS TaskDagValidation, Sequences, Functions

CONSTANTS
  Tensor,     \* tensor names
  NoName,     \* the empty name, which stands for an omitted input
  None,       \* no tensor
  Sanitize,   \* _sanitize_tensor_name, on Tensor
  Nigs        \* the inputs

Node == [elided : BOOLEAN, inputs : Seq(Tensor), outputs : Seq(Tensor)]

ASSUME NigsAssumption ==
  /\ IsFiniteSet(Tensor) /\ None \notin Tensor
  /\ \A g \in Nigs : g.nodes \in Seq(Node) /\ g.graph_inputs \subseteq Tensor

VARIABLES
  nig,        \* the NIGIR and its graph inputs
  at,         \* step B's loops: node and output
  asked,      \* the argument of _resolve_tensor_name, None outside a call
  current,    \* its loop variable
  rewrite,    \* tensor_rewrite
  resolved    \* what consumed tensors have been resolved to

buildVars == <<nig, at, asked, current, rewrite, resolved>>
vars == <<nig, at, asked, current, rewrite, resolved, phase, dag, queue, in_degree,
          topo_order, reachable, diagnostics>>

Elided  == {n \in DOMAIN nig.nodes : nig.nodes[n].elided}
Compute == DOMAIN nig.nodes \ Elided
Inputs(n)  == Range(nig.nodes[n].inputs)
Outputs(n) == Range(nig.nodes[n].outputs)

-----------------------------------------------------------------------------
(* Step B: the rewriting map.                                              *)

MutHasAlias(n) == Len(nig.nodes[n].inputs) = 1

(* A single input is taken even if it is the empty name. *)
HasAlias(n) == Len(nig.nodes[n].inputs) = 1 \/ Inputs(n) \ {NoName} # {}

IsAliasInput(n, t) ==
  LET ins == nig.nodes[n].inputs IN
  \/ Len(ins) = 1 /\ t = ins[1]
  \/ Len(ins) > 1 /\ \E i \in DOMAIN ins :
       /\ t = ins[i] /\ t # NoName
       /\ \A k \in 1..(i - 1) : ins[k] = NoName

Ask(t) == asked' = t /\ current' = t

MutLanded == rewrite[current] = None \/ current # asked

(* _resolve_tensor_name's loop ends. *)
Landed == rewrite[current] = None

Init ==
  /\ nig \in Nigs
  /\ at = [node |-> 1, output |-> 1]
  /\ asked = None /\ current = None
  /\ rewrite = [t \in Tensor |-> None]
  /\ resolved = [t \in Tensor |-> None]
  /\ phase = "elide"
  /\ dag = [tasks |-> {}, seeds |-> {}, sources |-> <<>>, outputs |-> {}]
  /\ queue = {} /\ in_degree = <<>> /\ topo_order = {} /\ reachable = {}
  /\ diagnostics = {}

InElision == phase = "elide" /\ asked = None /\ at.node \in DOMAIN nig.nodes

OutputLeft ==
  /\ at.node \in Elided /\ HasAlias(at.node)
  /\ at.output \in DOMAIN nig.nodes[at.node].outputs

NextNode ==
  /\ InElision /\ ~ OutputLeft
  /\ at' = [node |-> at.node + 1, output |-> 1]
  /\ UNCHANGED <<nig, asked, current, rewrite, resolved, validationVars>>

AskAlias ==
  /\ InElision /\ OutputLeft
  /\ \E t \in Inputs(at.node) : IsAliasInput(at.node, t) /\ Ask(t)
  /\ UNCHANGED <<nig, at, rewrite, resolved, validationVars>>

(* One turn of _resolve_tensor_name's loop, whoever called it. *)
Follow ==
  /\ asked # None /\ ~ Landed
  /\ current' = rewrite[current]
  /\ UNCHANGED <<nig, at, asked, rewrite, resolved, validationVars>>

MutSetAlias ==
  /\ phase = "elide" /\ asked # None /\ Landed
  /\ rewrite' = [rewrite EXCEPT ![nig.nodes[at.node].outputs[at.output]] = current]
  /\ asked' = None /\ current' = None
  /\ UNCHANGED <<nig, at, resolved, validationVars>>

SetAlias ==
  /\ phase = "elide" /\ asked # None /\ Landed
  /\ rewrite' = [rewrite EXCEPT ![nig.nodes[at.node].outputs[at.output]] = current]
  /\ at' = [at EXCEPT !.output = @ + 1]
  /\ asked' = None /\ current' = None
  /\ UNCHANGED <<nig, resolved, validationVars>>

-----------------------------------------------------------------------------
(* Steps C to F: the tasks, their wiring and the output tasks.  Steps D and E
   resolve every input of every compute node; the map no longer changes, so the
   second time gives what the first one gave. *)

ConsumedNames == UNION {Inputs(n) : n \in Compute}

ElisionDone ==
  /\ phase = "elide" /\ at.node \notin DOMAIN nig.nodes
  /\ phase' = "resolve"
  /\ UNCHANGED <<buildVars, dag, queue, in_degree, topo_order, reachable, diagnostics>>

AskConsumed ==
  /\ phase = "resolve" /\ asked = None
  /\ \E t \in ConsumedNames : resolved[t] = None /\ Ask(t)
  /\ UNCHANGED <<nig, at, rewrite, resolved, validationVars>>

RecordConsumed ==
  /\ phase = "resolve" /\ asked # None /\ Landed
  /\ resolved' = [resolved EXCEPT ![asked] = current]
  /\ asked' = None /\ current' = None
  /\ UNCHANGED <<nig, at, rewrite, validationVars>>

Consumed == {resolved[t] : t \in ConsumedNames}
Produced == UNION {Outputs(n) : n \in DOMAIN nig.nodes}
GraphInputTensors == (Consumed \ Produced) \cap nig.graph_inputs
ConstantTensors   == (Consumed \ Produced) \ nig.graph_inputs

InputTask(t)    == <<"task.input", Sanitize[t]>>
ConstantTask(t) == <<"task.const", Sanitize[t]>>
NodeTask(n)     == <<"task", n>>

(* nig_producer_by_tensor: the last node that outputs a tensor. *)
IsProducer(n, t) ==
  /\ n \in DOMAIN nig.nodes /\ t \in Outputs(n)
  /\ \A m \in DOMAIN nig.nodes : t \in Outputs(m) => m <= n

(* _find_non_elided_producer, then input_task_id_by_tensor, then
   constant_task_id_by_tensor; none of them may know the tensor.  The first one
   would search on behind an elided producer; FinderNeverDescends says that no
   tensor it is called on has an elided producer with anything behind it. *)
SourceTasks(t) ==
  {NodeTask(n) : n \in {m \in Compute : IsProducer(m, t)}}
    \cup {InputTask(u) : u \in {t} \cap GraphInputTensors}
    \cup {ConstantTask(u) : u \in {t} \cap ConstantTensors}

Tasks == {NodeTask(n) : n \in Compute}
           \cup {InputTask(t) : t \in GraphInputTensors}
           \cup {ConstantTask(t) : t \in ConstantTensors}

Seeds == {InputTask(t) : t \in GraphInputTensors}
           \cup {ConstantTask(t) : t \in ConstantTensors}

(* The inputs of node n that get a TaskInput; the others are left unwired. *)
WiredInputs(n) == {t \in Inputs(n) : SourceTasks(resolved[t]) # {}}

TaskInputTensors == UNION {{resolved[t] : t \in WiredInputs(n)} : n \in Compute}

MutOutputTasks ==
  {NodeTask(n) : n \in {m \in Compute :
     \E t \in Outputs(m) \ (TaskInputTensors \cup UNION {Inputs(e) : e \in Elided}) :
       \A k \in Compute : t \in Outputs(k) => m <= k}}

(* The first task that outputs a tensor no task has as an input. *)
OutputTasks ==
  {NodeTask(n) : n \in {m \in Compute :
     \E t \in Outputs(m) \ TaskInputTensors : \A k \in Compute : t \in Outputs(k) => m <= k}}

BuiltDag ==
  [tasks   |-> Tasks,
   seeds   |-> Seeds,
   sources |-> [k \in Tasks |->
                  UNION {SourceTasks(resolved[t]) :
                           t \in UNION {Inputs(n) : n \in {m \in Compute : NodeTask(m) = k}}}],
   outputs |-> OutputTasks]

(* Two tensors of one kind that sanitize alike get the same task id. *)
IdsUnique ==
  /\ \A t, u \in GraphInputTensors : Sanitize[t] = Sanitize[u] => t = u
  /\ \A t, u \in ConstantTensors : Sanitize[t] = Sanitize[u] => t = u

AllResolved == phase = "resolve" /\ asked = None /\ \A t \in ConsumedNames : resolved[t] # None

(* Step G: the schema accepts the tasks and validate_task_dag starts. *)
Assemble ==
  /\ AllResolved /\ IdsUnique
  /\ StartValidation(BuiltDag)
  /\ UNCHANGED buildVars

(* The schema's validator raises ValueError("task ids must be unique"). *)
RejectIds ==
  /\ AllResolved /\ ~ IdsUnique
  /\ phase' = "invalid"
  /\ UNCHANGED <<buildVars, dag, queue, in_degree, topo_order, reachable, diagnostics>>

Next ==
  \/ NextNode \/ AskAlias \/ Follow \/ SetAlias
  \/ ElisionDone \/ AskConsumed \/ RecordConsumed
  \/ Assemble \/ RejectIds
  \/ Validate /\ UNCHANGED buildVars

Spec == Init /\ [][Next]_vars

(* One call of a function that nothing interrupts. *)
FairSpec == Spec /\ WF_vars(Next)

-----------------------------------------------------------------------------

Returned == phase \in {"accepted", "rejected", "invalid"}

(* As in an ONNX graph, a tensor is the output of one node. *)
SingleProducer ==
  \A n, m \in DOMAIN nig.nodes : n # m => Outputs(n) \cap Outputs(m) = {}

(* What layout nodes make equal: <<t, u>> if t is the output of one whose first
   named input, or only input, is u. *)
Aliases ==
  {a \in Tensor \X Tensor : \E n \in Elided : a[1] \in Outputs(n) /\ IsAliasInput(n, a[2])}

AliasCycle ==
  LET A == Aliases IN
  \E S \in SUBSET {a[1] : a \in A} :
    S # {} /\ \A t \in S : \E a \in A : a[1] = t /\ a[2] \in S

(* u is t, or behind it along the aliases A. *)
Behind(A, t, u) ==
  \A R \in SUBSET ({t} \cup {a[2] : a \in A}) :
    t \in R /\ (\A a \in A : a[1] \in R => a[2] \in R) => u \in R

(* A task waits for exactly those tasks that compute, or stand for, the tensors
   at the end of the layout chains its inputs come from, in whatever order the
   NIGIR lists the layout nodes and their consumers.  (steps B, D and E) *)
WiredThroughLayout ==
  phase \in {"accepted", "rejected"} /\ SingleProducer =>
    LET A == Aliases
        Ends == {t \in Tensor : \A a \in A : a[1] # t}
    IN \A n \in Compute :
         dag.sources[NodeTask(n)] =
           UNION {SourceTasks(u) : u \in {v \in Ends : \E t \in Inputs(n) : Behind(A, t, v)}}

(* _find_non_elided_producer never has anything to search behind an elided
   producer: the rewriting has got there first. *)
FinderNeverDescends ==
  phase \in {"accepted", "rejected"} =>
    \A u \in Consumed : \A n \in Elided : IsProducer(n, u) => Inputs(n) \subseteq {NoName}

(* From every task of an accepted TaskDAG an output task can be reached: nothing
   is computed that no output needs. *)
NoDeadTask ==
  phase = "accepted" /\ SingleProducer /\ (\A n \in Compute : Outputs(n) # {}) =>
    \A U \in SUBSET dag.tasks :
      U # {} /\ (\A t \in U : Consumers(t) \subseteq U) => U \cap dag.outputs # {}

(* Liveness: a build whose layout nodes are not on a cycle of their own returns,
   with a TaskDAG or with an error. *)
BuildReturns == ~ AliasCycle => <>Returned

(* "Validation failures raise a TaskDAGBuildError with diagnostic information
   (orphaned tensors, cycle paths, missing producers)"
   (.planning/phases/02-task-dag-frontend/02-CONTEXT.md, D-16), and
   test_build_task_dag_raises_on_cycle gives build_task_dag cyclic NIGIRs: a
   build returns whatever the NIGIR.  It does not when layout nodes are on a
   cycle of their own: the map then rewrites a tensor to itself, and each turn
   of _resolve_tensor_name's loop leaves the whole state as it was. *)
CyclesRaise == <>Returned

(* "The frontend validates DAG properties before emitting: [...] all input
   tensors resolve to a producer task" (02-CONTEXT.md, D-15). *)
InputsResolve ==
  phase = "accepted" => \A n \in Compute : WiredInputs(n) = Inputs(n)
=============================================================================
