-------------------------- MODULE TaskDagValidation --------------------------
(***************************************************************************)
(* validate_task_dag of frontend/task_dag_builder.py: Kahn's algorithm and *)
(* the search for tasks that no Input or Constant task reaches.  Both work *)
(* on the TaskDAG's edges, which map a task to the set of its producers.   *)
(* A dag has                                                               *)
(*   tasks     the task ids                                                *)
(*   seeds     those of the Input and Constant tasks                       *)
(*   sources   edges                                                       *)
(*   outputs   output_tasks                                                *)
(* The order of the two queues decides only the wording of a diagnostic:   *)
(* they are sets here, and any member may be the next one.                 *)
(***************************************************************************)
EXTENDS Integers, FiniteSets

VARIABLES
  phase,        \* "kahn", "reach"; "accepted" or "rejected" when it returns
  dag,          \* the TaskDAG
  queue,        \* the queue of the loop that runs
  in_degree,
  topo_order,   \* the set of its members: only their number is used
  reachable,
  diagnostics   \* the checks that have failed

validationVars == <<phase, dag, queue, in_degree, topo_order, reachable, diagnostics>>

(* The schema's validators have seen to this before validate_task_dag runs. *)
IsDag(d) ==
  /\ IsFiniteSet(d.tasks)
  /\ d.seeds \subseteq d.tasks
  /\ d.sources \in [d.tasks -> SUBSET d.tasks]
  /\ d.outputs \subseteq d.tasks

(* reverse_edges *)
Consumers(t) == {c \in dag.tasks : t \in dag.sources[c]}

StartValidation(d) ==
  /\ dag' = d
  /\ phase' = "kahn"
  /\ in_degree' = [t \in d.tasks |-> Cardinality(d.sources[t])]
  /\ queue' = {t \in d.tasks : Cardinality(d.sources[t]) = 0}
  /\ topo_order' = {}
  /\ reachable' = {}
  /\ diagnostics' = {}

(* Kahn's loop takes one task off the queue. *)
KahnStep(t) ==
  /\ phase = "kahn" /\ t \in queue
  /\ topo_order' = topo_order \cup {t}
  /\ in_degree' = [c \in dag.tasks |-> IF c \in Consumers(t) THEN in_degree[c] - 1 ELSE in_degree[c]]
  /\ queue' = (queue \ {t}) \cup {c \in Consumers(t) : in_degree[c] = 1}
  /\ UNCHANGED <<phase, dag, reachable, diagnostics>>

MutKahnDone ==
  /\ phase = "kahn" /\ queue = {}
  /\ diagnostics' = IF topo_order = {} THEN {"cycle"} ELSE {}
  /\ phase' = "reach"
  /\ queue' = dag.seeds
  /\ UNCHANGED <<dag, in_degree, topo_order, reachable>>

KahnDone ==
  /\ phase = "kahn" /\ queue = {}
  /\ diagnostics' = IF Cardinality(topo_order) # Cardinality(dag.tasks) THEN {"cycle"} ELSE {}
  /\ phase' = "reach"
  /\ queue' = dag.seeds
  /\ UNCHANGED <<dag, in_degree, topo_order, reachable>>

MutReachStep(t) ==
  /\ phase = "reach" /\ t \in queue
  /\ reachable' = reachable \cup {t}
  /\ queue' = (queue \ {t}) \cup (dag.sources[t] \ reachable')
  /\ UNCHANGED <<phase, dag, in_degree, topo_order, diagnostics>>

(* The reachability loop takes one task off the queue. *)
ReachStep(t) ==
  /\ phase = "reach" /\ t \in queue
  /\ reachable' = reachable \cup {t}
  /\ queue' = (queue \ {t}) \cup (Consumers(t) \ reachable')
  /\ UNCHANGED <<phase, dag, in_degree, topo_order, diagnostics>>

Orphaned == (dag.tasks \ reachable) \ dag.outputs

Conclude ==
  /\ phase = "reach" /\ queue = {}
  /\ diagnostics' = diagnostics \cup (IF Orphaned # {} THEN {"orphaned"} ELSE {})
  /\ phase' = IF diagnostics' = {} THEN "accepted" ELSE "rejected"
  /\ UNCHANGED <<dag, queue, in_degree, topo_order, reachable>>

Validate ==
  \/ \E t \in queue : KahnStep(t) \/ ReachStep(t)
  \/ KahnDone
  \/ Conclude

-----------------------------------------------------------------------------

(* Every task of S waits for another one of S: S holds a cycle. *)
Stuck(S) == S # {} /\ \A t \in S : dag.sources[t] \cap S # {}

(* A task is in R if an Input or Constant task reaches it. *)
Closed(R) == dag.seeds \subseteq R /\ \A t \in R \cap dag.tasks : Consumers(t) \subseteq R

(* The cycle check is exact: validate_task_dag reports a cycle if the edges
   have one and only then. *)
CycleCheckExact ==
  phase \in {"accepted", "rejected"} =>
    ("cycle" \in diagnostics <=> \E S \in SUBSET dag.tasks : Stuck(S))

(* The orphan check is exact: it reports orphaned tasks if some task that is not
   an output is outside a set that the Input and Constant tasks and their
   consumers make up, and only then. *)
OrphanCheckExact ==
  phase \in {"accepted", "rejected"} =>
    ("orphaned" \in diagnostics <=>
       \E R \in SUBSET dag.tasks : Closed(R) /\ (dag.tasks \ R) \ dag.outputs # {})

=============================================================================
