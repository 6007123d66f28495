---------------------------- MODULE TaskDagProofs -----------------------------
(***************************************************************************)
(* Theorems about build_task_dag and validate_task_dag, for NIGIRs of any  *)
(* size and in any order.                                                  *)
(* Validation: what Kahn's loop takes off its queue never lies on a cycle, *)
(* and what it leaves behind waits for itself (Peeled, CycleKnown); what   *)
(* the search for orphans visits is in every closed set (Spread).          *)
(* Wiring: the rewriting map covers what layout nodes put out (Rewritten)  *)
(* and leads along their chains (Chained); a chain has one end (OneEnd),   *)
(* so that the end found is the one there is.                              *)
(***************************************************************************)
EXTENDS TaskDagBuilder, FiniteSetTheorems, TLAPS

-----------------------------------------------------------------------------
(* The built graph is one the schema accepts.                              *)

(* The nodes of a NIGIR, and the names they read and write. *)
LEMMA NodesTyped ==
  ASSUME nig \in Nigs
  PROVE  /\ Len(nig.nodes) \in Nat /\ DOMAIN nig.nodes = 1..Len(nig.nodes)
         /\ Compute \subseteq DOMAIN nig.nodes /\ Elided \subseteq DOMAIN nig.nodes
         /\ \A n \in DOMAIN nig.nodes :
              /\ nig.nodes[n].inputs \in Seq(Tensor) /\ nig.nodes[n].outputs \in Seq(Tensor)
              /\ Inputs(n) \subseteq Tensor /\ Outputs(n) \subseteq Tensor
         /\ nig.graph_inputs \subseteq Tensor
<1>1. nig.nodes \in Seq(Node) /\ nig.graph_inputs \subseteq Tensor
  BY NigsAssumption
<1>2. Len(nig.nodes) \in Nat /\ DOMAIN nig.nodes = 1..Len(nig.nodes)
  BY <1>1
<1>3. ASSUME NEW n \in DOMAIN nig.nodes
      PROVE  /\ nig.nodes[n].inputs \in Seq(Tensor) /\ nig.nodes[n].outputs \in Seq(Tensor)
             /\ Inputs(n) \subseteq Tensor /\ Outputs(n) \subseteq Tensor
  <2>1. nig.nodes[n] \in Node  BY <1>1
  <2>2. nig.nodes[n].inputs \in Seq(Tensor) /\ nig.nodes[n].outputs \in Seq(Tensor)
    BY <2>1 DEF Node
  <2> QED  BY <2>2 DEF Inputs, Outputs, Range
<1> QED  BY <1>1, <1>2, <1>3 DEF Compute, Elided

(* FS_Image with a function in the place of its operator. *)
LEMMA ImageFinite ==
  ASSUME NEW S, IsFiniteSet(S), NEW f, DOMAIN f = S
  PROVE  IsFiniteSet({f[x] : x \in S})
<1> DEFINE T == {f[x] : x \in S}
           g == [x \in S |-> f[x]]
<1>1. g \in [S -> T] /\ \A t \in T : \E x \in S : g[x] = t
  OBVIOUS
<1>2. g \in Surjection(S, T)  BY <1>1 DEF Surjection
<1> QED  BY <1>2, FS_Surjection

(* What build_task_dag gives is a finite graph whose edges join its own tasks. *)
LEMMA BuiltDagWell ==
  ASSUME nig \in Nigs
  PROVE  IsDag(BuiltDag)
<1>1. IsFiniteSet(Tensor)  BY NigsAssumption
<1>2. IsFiniteSet(Tasks)
  <2> DEFINE C == {NodeTask(n) : n \in Compute}
             I == {InputTask(t) : t \in GraphInputTensors}
             K == {ConstantTask(t) : t \in ConstantTensors}
  <2>1. IsFiniteSet(C)
    <3>1. IsFiniteSet(1..Len(nig.nodes))  BY NodesTyped, FS_Interval
    <3>2. IsFiniteSet(Compute)  BY <3>1, NodesTyped, FS_Subset
    <3> DEFINE f == [n \in Compute |-> NodeTask(n)]
    <3>3. C = {f[n] : n \in Compute} /\ DOMAIN f = Compute  OBVIOUS
    <3> QED  BY <3>2, <3>3, ImageFinite
  <2>2. IsFiniteSet(I)
    <3>1. IsFiniteSet(GraphInputTensors)
      BY <1>1, NodesTyped, FS_Subset DEF GraphInputTensors
    <3> DEFINE f == [t \in GraphInputTensors |-> InputTask(t)]
    <3>2. I = {f[t] : t \in GraphInputTensors} /\ DOMAIN f = GraphInputTensors  OBVIOUS
    <3> QED  BY <3>1, <3>2, ImageFinite
  <2>3. IsFiniteSet(K)
    <3>1. ConsumedNames \subseteq Tensor  BY NodesTyped DEF ConsumedNames
    <3>2. IsFiniteSet(ConsumedNames)  BY <1>1, <3>1, FS_Subset
    <3> DEFINE g == [t \in ConsumedNames |-> resolved[t]]
               f == [t \in ConstantTensors |-> ConstantTask(t)]
    <3>3. Consumed = {g[t] : t \in ConsumedNames} /\ DOMAIN g = ConsumedNames  BY DEF Consumed
    <3>4. IsFiniteSet(Consumed)  BY <3>2, <3>3, ImageFinite
    <3>5. IsFiniteSet(ConstantTensors)  BY <3>4, FS_Subset DEF ConstantTensors
    <3>6. K = {f[t] : t \in ConstantTensors} /\ DOMAIN f = ConstantTensors  OBVIOUS
    <3> QED  BY <3>5, <3>6, ImageFinite
  <2> QED  BY <2>1, <2>2, <2>3, FS_Union DEF Tasks
<1>3. \A t : SourceTasks(t) \subseteq Tasks
  BY DEF SourceTasks, Tasks
<1>4. BuiltDag.sources \in [Tasks -> SUBSET Tasks]
  BY <1>3 DEF BuiltDag
<1>5. Seeds \subseteq Tasks /\ OutputTasks \subseteq Tasks
  BY DEF Seeds, OutputTasks, Tasks
<1> QED  BY <1>2, <1>4, <1>5 DEF IsDag, BuiltDag

(* The graph depends on the NIGIR and the rewriting map only, which validation leaves alone. *)
LEMMA BuiltDagStays ==
  ASSUME nig' = nig, resolved' = resolved
  PROVE  BuiltDag' = BuiltDag
  BY DEF BuiltDag, Tasks, Seeds, OutputTasks, TaskInputTensors, WiredInputs, SourceTasks,
         Consumed, ConsumedNames, Produced, GraphInputTensors, ConstantTensors, Compute, Elided,
         Inputs, Outputs, IsProducer, InputTask, ConstantTask, NodeTask

(* What is validated is the graph that was built. *)
Phases == {"elide", "resolve", "kahn", "reach", "accepted", "rejected", "invalid"}
Validated == phase \in {"kahn", "reach", "accepted", "rejected"}

DagBuilt == nig \in Nigs /\ phase \in Phases /\ (Validated => dag = BuiltDag)

(* The graph under validation is the built one, and so is well formed. *)
LEMMA DagWell ==
  ASSUME DagBuilt, Validated
  PROVE  IsDag(dag)
  BY BuiltDagWell DEF DagBuilt

(* validate_task_dag reads the graph and never changes it. *)
LEMMA ValidateKeepsDag == Validate => dag' = dag
  BY DEF Validate, KahnStep, ReachStep, KahnDone, Conclude

(* From the end of building on, the graph is the built one. *)
LEMMA DagBuiltInvariant == Spec => []DagBuilt
<1>1. Init => DagBuilt
  BY DEF Init, DagBuilt, Phases, Validated
<1>2. DagBuilt /\ [Next]_vars => DagBuilt'
  <2> SUFFICES ASSUME DagBuilt, [Next]_vars PROVE DagBuilt'
    OBVIOUS
  <2> USE DEF DagBuilt, Phases, Validated
  <2>1. CASE NextNode \/ AskAlias \/ Follow \/ SetAlias
    <3>1. phase' = phase /\ dag' = dag /\ nig' = nig /\ resolved' = resolved
      BY <2>1 DEF NextNode, AskAlias, Follow, SetAlias, validationVars
    <3> QED  BY <3>1, BuiltDagStays
  <2>2. CASE ElisionDone \/ AskConsumed \/ RecordConsumed \/ RejectIds
    BY <2>2 DEF ElisionDone, AskConsumed, RecordConsumed, RejectIds, AllResolved, validationVars,
                buildVars
  <2>3. CASE Assemble
    <3>1. dag' = BuiltDag /\ phase' = "kahn" /\ nig' = nig /\ resolved' = resolved
      BY <2>3 DEF Assemble, StartValidation, buildVars
    <3> QED  BY <3>1, BuiltDagStays
  <2>4. CASE Validate /\ UNCHANGED buildVars
    <3>1. dag' = dag /\ nig' = nig /\ resolved' = resolved
      BY <2>4, ValidateKeepsDag DEF buildVars
    <3>2. Validated /\ phase' \in {"kahn", "reach", "accepted", "rejected"}
      BY <2>4 DEF Validate, KahnStep, ReachStep, KahnDone, Conclude
    <3> QED  BY <3>1, <3>2, BuiltDagStays
  <2>5. CASE UNCHANGED vars
    <3>1. phase' = phase /\ dag' = dag /\ nig' = nig /\ resolved' = resolved
      BY <2>5 DEF vars
    <3> QED  BY <3>1, BuiltDagStays
  <2> QED  BY <2>1, <2>2, <2>3, <2>4, <2>5 DEF Next
<1> QED  BY <1>1, <1>2, PTL DEF Spec

(* A step before validation, or of the builder's variables alone. *)
LEMMA BuilderSteps ==
  ASSUME [Next]_vars, ~ Validate, ~ Assemble
  PROVE  \/ phase \in {"elide", "resolve"} /\ phase' \in {"elide", "resolve", "invalid"}
         \/ UNCHANGED validationVars
  BY DEF Next, NextNode, AskAlias, Follow, SetAlias, ElisionDone, AskConsumed, RecordConsumed,
         RejectIds, AllResolved, vars, validationVars

-----------------------------------------------------------------------------
(* Kahn's algorithm.                                                       *)

(* The tasks taken off the queue come with their sources, none of them is on a cycle,
   and among any of them there is one that none of the others waits for. *)
Peeled ==
  Validated =>
    /\ topo_order \subseteq dag.tasks
    /\ \A t \in topo_order : dag.sources[t] \subseteq topo_order
    /\ \A S \in SUBSET dag.tasks : Stuck(S) => S \cap topo_order = {}
    /\ \A U \in SUBSET topo_order : U # {} => \E t \in U : Consumers(t) \cap U = {}

(* The queue holds the tasks whose sources have all been taken and that have not been
   taken themselves, as the counts tell. *)
Queued ==
  phase = "kahn" =>
    /\ queue \subseteq dag.tasks /\ queue \cap topo_order = {}
    /\ \A t \in dag.tasks : dag.sources[t] \subseteq topo_order <=> t \in queue \cup topo_order
    /\ in_degree = [t \in dag.tasks |-> Cardinality(dag.sources[t] \ topo_order)]

(* What is left when the loop ends waits for itself. *)
CycleKnown ==
  phase \in {"reach", "accepted", "rejected"} =>
    /\ \A t \in dag.tasks : dag.sources[t] \subseteq topo_order => t \in topo_order
    /\ "cycle" \in diagnostics <=> topo_order # dag.tasks

KahnInv == Peeled /\ Queued /\ CycleKnown

(* The queue starts with the tasks that wait for nothing. *)
LEMMA KahnStarts ==
  ASSUME DagBuilt, DagBuilt', Assemble
  PROVE  KahnInv'
<1>1. /\ phase' = "kahn" /\ topo_order' = {} /\ dag' = BuiltDag
      /\ in_degree' = [t \in BuiltDag.tasks |-> Cardinality(BuiltDag.sources[t])]
      /\ queue' = {t \in BuiltDag.tasks : Cardinality(BuiltDag.sources[t]) = 0}
  BY DEF Assemble, StartValidation
<1>2. IsDag(BuiltDag)  BY BuiltDagWell DEF DagBuilt
<1>3. \A t \in BuiltDag.tasks :
        /\ IsFiniteSet(BuiltDag.sources[t])
        /\ Cardinality(BuiltDag.sources[t]) = 0 <=> BuiltDag.sources[t] = {}
  BY <1>2, FS_Subset, FS_EmptySet DEF IsDag
<1>4. Peeled' /\ CycleKnown'  BY <1>1 DEF Peeled, CycleKnown
<1>5. Queued'
  BY <1>1, <1>3 DEF Queued
<1> QED  BY <1>4, <1>5 DEF KahnInv

(* A task is taken off the queue, and the tasks that waited for it last are put on it. *)
LEMMA KahnAdvances ==
  ASSUME DagBuilt, KahnInv, NEW t \in queue, KahnStep(t)
  PROVE  KahnInv'
<1>1. /\ phase = "kahn" /\ phase' = "kahn" /\ dag' = dag /\ topo_order' = topo_order \cup {t}
      /\ in_degree' = [c \in dag.tasks |->
                         IF c \in Consumers(t) THEN in_degree[c] - 1 ELSE in_degree[c]]
      /\ queue' = (queue \ {t}) \cup {c \in Consumers(t) : in_degree[c] = 1}
  BY DEF KahnStep
<1>2. IsDag(dag)  BY <1>1, DagWell DEF Validated
<1>3. Peeled /\ Queued  BY DEF KahnInv
<1>4. /\ t \in dag.tasks /\ t \notin topo_order /\ dag.sources[t] \subseteq topo_order
      /\ topo_order \subseteq dag.tasks
  BY <1>1, <1>3 DEF Peeled, Queued, Validated
<1>5. \A c : c \in Consumers(t) <=> c \in dag.tasks /\ t \in dag.sources[c]
  BY DEF Consumers
<1>6. \A c \in Consumers(t) : c \notin topo_order /\ c # t
  BY <1>1, <1>3, <1>4, <1>5 DEF Peeled, Validated
<1>7. ASSUME NEW c \in dag.tasks
      PROVE  /\ in_degree[c] = Cardinality(dag.sources[c] \ topo_order)
             /\ in_degree[c] \in Nat
             /\ c \in Consumers(t) =>
                  /\ Cardinality(dag.sources[c] \ topo_order') = in_degree[c] - 1
                  /\ in_degree[c] = 1 <=> dag.sources[c] \subseteq topo_order'
             /\ c \notin Consumers(t) => dag.sources[c] \ topo_order' = dag.sources[c] \ topo_order
  <2> DEFINE left == dag.sources[c] \ topo_order
  <2>1. IsFiniteSet(left)  BY <1>2, FS_Subset DEF IsDag
  <2>2. in_degree[c] = Cardinality(left)  BY <1>1, <1>3 DEF Queued
  <2>3. Cardinality(left) \in Nat  BY <2>1, FS_CardinalityType
  <2>4. dag.sources[c] \ topo_order' = left \ {t}  BY <1>1
  <2>5. CASE c \in Consumers(t)
    <3>1. t \in left  BY <1>4, <1>5, <2>5
    <3>2. IsFiniteSet(left \ {t}) /\ Cardinality(left \ {t}) = Cardinality(left) - 1
      BY <2>1, <3>1, FS_RemoveElement
    <3>3. Cardinality(left \ {t}) = 0 <=> left \ {t} = {}
      BY <3>2, FS_EmptySet
    <3>4. dag.sources[c] \subseteq topo_order' <=> left \ {t} = {}
      BY <2>4
    <3>5. in_degree[c] = 1 <=> Cardinality(left \ {t}) = 0
      BY <2>2, <2>3, <3>2
    <3>6. Cardinality(dag.sources[c] \ topo_order') = in_degree[c] - 1
      BY <2>2, <2>4, <3>2
    <3> QED  BY <2>2, <2>3, <2>5, <3>3, <3>4, <3>5, <3>6
  <2>6. CASE c \notin Consumers(t)
    <3>1. t \notin left  BY <1>5, <2>6
    <3> QED  BY <2>2, <2>3, <2>4, <2>6, <3>1
  <2> QED  BY <2>5, <2>6
<1>8. Queued'
  <2>1. queue' \subseteq dag.tasks /\ queue' \cap topo_order' = {}
    BY <1>1, <1>3, <1>5, <1>6 DEF Queued
  <2>2. ASSUME NEW c \in dag.tasks
        PROVE  dag.sources[c] \subseteq topo_order' <=> c \in queue' \cup topo_order'
    <3>1. CASE c \in Consumers(t)
      BY <1>1, <1>3, <1>4, <1>5, <1>6, <1>7, <3>1 DEF Queued
    <3>2. CASE c \notin Consumers(t)
      BY <1>1, <1>3, <1>4, <1>5, <1>7, <3>2 DEF Queued
    <3> QED  BY <3>1, <3>2
  <2>3. in_degree' = [c \in dag.tasks |-> Cardinality(dag.sources[c] \ topo_order')]
    BY <1>1, <1>7
  <2> QED  BY <1>1, <2>1, <2>2, <2>3 DEF Queued
<1>9. Peeled'
  <2>1. topo_order' \subseteq dag.tasks /\ \A u \in topo_order' : dag.sources[u] \subseteq topo_order'
    BY <1>1, <1>3, <1>4 DEF Peeled, Validated
  <2>2. ASSUME NEW S \in SUBSET dag.tasks, Stuck(S) PROVE S \cap topo_order' = {}
    BY <1>1, <1>3, <1>4, <2>2 DEF Peeled, Validated, Stuck
  <2>3. ASSUME NEW U \in SUBSET topo_order', U # {} PROVE \E u \in U : Consumers(u) \cap U = {}
    <3>1. CASE t \in U
      BY <1>1, <1>6, <3>1
    <3>2. CASE t \notin U
      BY <1>1, <1>3, <2>3, <3>2 DEF Peeled, Validated
    <3> QED  BY <3>1, <3>2
  <2>4. \A S : Stuck(S)' <=> Stuck(S)  BY <1>1 DEF Stuck
  <2>5. \A u : Consumers(u)' = Consumers(u)  BY <1>1 DEF Consumers
  <2> QED  BY <1>1, <2>1, <2>2, <2>3, <2>4, <2>5 DEF Peeled
<1> QED  BY <1>1, <1>8, <1>9 DEF KahnInv, CycleKnown

(* What Kahn's loop knows is not touched afterwards. *)
LEMMA KahnKept ==
  ASSUME KahnInv, dag' = dag, topo_order' = topo_order, Validated, phase' # "kahn",
         CycleKnown'
  PROVE  KahnInv'
<1>1. \A S : Stuck(S)' <=> Stuck(S)  BY DEF Stuck
<1>2. \A u : Consumers(u)' = Consumers(u)  BY DEF Consumers
<1>3. Peeled'  BY <1>1, <1>2 DEF KahnInv, Peeled, Validated
<1> QED  BY <1>3 DEF KahnInv, Queued

(* Kahn's loop holds on to what it knows, and so does everything after it. *)
LEMMA KahnInvariant == Spec => []KahnInv
<1>1. Init => KahnInv
  BY DEF Init, KahnInv, Peeled, Queued, CycleKnown, Validated
<1>2. DagBuilt /\ DagBuilt' /\ KahnInv /\ [Next]_vars => KahnInv'
  <2> SUFFICES ASSUME DagBuilt, DagBuilt', KahnInv, [Next]_vars PROVE KahnInv'
    OBVIOUS
  <2>1. CASE Assemble  BY <2>1, KahnStarts
  <2>2. ASSUME NEW t \in queue, KahnStep(t) PROVE KahnInv'
    BY <2>2, KahnAdvances
  <2>3. CASE KahnDone
    <3>1. /\ phase = "kahn" /\ phase' = "reach" /\ queue = {} /\ dag' = dag
          /\ topo_order' = topo_order
          /\ diagnostics' = IF Cardinality(topo_order) # Cardinality(dag.tasks)
                            THEN {"cycle"} ELSE {}
      BY <2>3 DEF KahnDone
    <3>2. IsFiniteSet(dag.tasks) /\ topo_order \subseteq dag.tasks
      BY <3>1, DagWell DEF IsDag, Validated, KahnInv, Peeled
    <3>3. Cardinality(topo_order) = Cardinality(dag.tasks) <=> topo_order = dag.tasks
      BY <3>2, FS_Subset
    <3>4. CycleKnown'
      BY <3>1, <3>3 DEF CycleKnown, KahnInv, Queued
    <3> QED  BY <3>1, <3>4, KahnKept DEF Validated
  <2>4. ASSUME NEW t \in queue, ReachStep(t) PROVE KahnInv'
    <3>1. CycleKnown'  BY <2>4 DEF ReachStep, KahnInv, CycleKnown
    <3> QED  BY <2>4, <3>1, KahnKept DEF ReachStep, Validated
  <2>5. CASE Conclude
    <3>1. /\ phase = "reach" /\ phase' \in {"accepted", "rejected"} /\ dag' = dag
          /\ topo_order' = topo_order
          /\ "cycle" \in diagnostics' <=> "cycle" \in diagnostics
      BY <2>5 DEF Conclude
    <3>2. CycleKnown'  BY <3>1 DEF KahnInv, CycleKnown
    <3> QED  BY <3>1, <3>2, KahnKept DEF Validated
  <2>6. CASE ~ Validate /\ ~ Assemble
    <3>1. CASE phase \in {"elide", "resolve"} /\ phase' \in {"elide", "resolve", "invalid"}
      BY <3>1 DEF KahnInv, Peeled, Queued, CycleKnown, Validated
    <3>2. CASE UNCHANGED validationVars
      BY <3>2 DEF validationVars, KahnInv, Peeled, Queued, CycleKnown, Validated, Stuck, Consumers
    <3> QED  BY <2>6, <3>1, <3>2, BuilderSteps
  <2> QED  BY <2>1, <2>2, <2>3, <2>4, <2>5, <2>6 DEF Validate
<1> QED  BY <1>1, <1>2, DagBuiltInvariant, PTL DEF Spec

(* CycleCheckExact: a cycle is reported if there is one, and only then. *)
THEOREM CyclesFound == Spec => []CycleCheckExact
<1>1. DagBuilt /\ KahnInv => CycleCheckExact
  <2> SUFFICES ASSUME DagBuilt, KahnInv, phase \in {"accepted", "rejected"}
               PROVE "cycle" \in diagnostics <=> \E S \in SUBSET dag.tasks : Stuck(S)
    BY DEF CycleCheckExact
  <2> DEFINE rest == dag.tasks \ topo_order
  <2>1. "cycle" \in diagnostics <=> rest # {}
    BY DEF KahnInv, CycleKnown, Peeled, Validated
  <2>2. rest # {} => Stuck(rest)
    <3>1. IsDag(dag)  BY DagWell DEF Validated
    <3>2. \A t \in rest : dag.sources[t] \cap rest # {}
      BY <3>1 DEF KahnInv, CycleKnown, IsDag
    <3> QED  BY <3>2 DEF Stuck
  <2>3. ASSUME NEW S \in SUBSET dag.tasks, Stuck(S) PROVE rest # {}
    BY <2>3 DEF KahnInv, Peeled, Validated, Stuck
  <2> QED  BY <2>1, <2>2, <2>3
<1> QED  BY <1>1, DagBuiltInvariant, KahnInvariant, PTL

-----------------------------------------------------------------------------
(* The search for orphans.                                                 *)

(* What is reachable, or waits in the queue, is all in any closed set, and the consumers
   of what is reachable are there as well. *)
Spread ==
  /\ phase \in {"reach", "accepted", "rejected"} =>
       /\ reachable \cup queue \subseteq dag.tasks
       /\ dag.seeds \subseteq reachable \cup queue
       /\ \A t \in reachable : Consumers(t) \subseteq reachable \cup queue
       /\ \A R \in SUBSET dag.tasks : Closed(R) => reachable \cup queue \subseteq R
  /\ phase = "kahn" => reachable = {}
  /\ phase = "reach" => "orphaned" \notin diagnostics
  /\ phase \in {"accepted", "rejected"} =>
       queue = {} /\ ("orphaned" \in diagnostics <=> Orphaned # {})
  /\ phase = "accepted" => diagnostics = {}

(* The search for orphans never leaves what can be reached from the graph inputs. *)
LEMMA SpreadInvariant == Spec => []Spread
<1>1. Init => Spread
  BY DEF Init, Spread
<1>2. DagBuilt /\ DagBuilt' /\ Spread /\ [Next]_vars => Spread'
  <2> SUFFICES ASSUME DagBuilt, DagBuilt', Spread, [Next]_vars PROVE Spread'
    OBVIOUS
  <2>1. CASE Assemble
    BY <2>1 DEF Assemble, StartValidation, Spread
  <2>2. ASSUME NEW t \in queue, KahnStep(t) PROVE Spread'
    BY <2>2 DEF KahnStep, Spread
  <2>3. CASE KahnDone
    <3>1. /\ phase = "kahn" /\ phase' = "reach" /\ dag' = dag /\ queue' = dag.seeds
          /\ reachable' = reachable /\ "orphaned" \notin diagnostics'
      BY <2>3 DEF KahnDone
    <3>2. reachable = {} /\ IsDag(dag)  BY <3>1, DagWell DEF Spread, Validated
    <3> QED  BY <3>1, <3>2 DEF Spread, IsDag, Closed
  <2>4. ASSUME NEW t \in queue, ReachStep(t) PROVE Spread'
    <3>1. /\ phase = "reach" /\ phase' = "reach" /\ dag' = dag /\ diagnostics' = diagnostics
          /\ reachable' = reachable \cup {t}
          /\ queue' = (queue \ {t}) \cup (Consumers(t) \ reachable')
      BY <2>4 DEF ReachStep
    <3>2. \A u : Consumers(u)' = Consumers(u) /\ Consumers(u) \subseteq dag.tasks
      BY <3>1 DEF Consumers
    <3>3. \A R : Closed(R)' <=> Closed(R)
      BY <3>1, <3>2 DEF Closed
    <3>4. /\ reachable' \cup queue' \subseteq dag.tasks
          /\ dag.seeds \subseteq reachable' \cup queue'
      BY <2>4, <3>1, <3>2 DEF Spread
    <3>5. \A u \in reachable' : Consumers(u) \subseteq reachable' \cup queue'
      BY <2>4, <3>1 DEF Spread
    <3>6. ASSUME NEW R \in SUBSET dag.tasks, Closed(R) PROVE reachable' \cup queue' \subseteq R
      BY <2>4, <3>1, <3>6 DEF Spread, Closed
    <3> QED  BY <3>1, <3>2, <3>3, <3>4, <3>5, <3>6 DEF Spread
  <2>5. CASE Conclude
    <3>1. /\ phase = "reach" /\ phase' \in {"accepted", "rejected"} /\ dag' = dag
          /\ queue = {} /\ queue' = {} /\ reachable' = reachable
          /\ diagnostics' = diagnostics \cup (IF Orphaned # {} THEN {"orphaned"} ELSE {})
          /\ phase' = "accepted" => diagnostics' = {}
      BY <2>5 DEF Conclude
    <3>2. \A u : Consumers(u)' = Consumers(u)  BY <3>1 DEF Consumers
    <3>3. \A R : Closed(R)' <=> Closed(R)  BY <3>1, <3>2 DEF Closed
    <3>4. Orphaned' = Orphaned  BY <3>1 DEF Orphaned
    <3> QED  BY <3>1, <3>2, <3>3, <3>4 DEF Spread
  <2>6. CASE ~ Validate /\ ~ Assemble
    <3>1. CASE phase \in {"elide", "resolve"} /\ phase' \in {"elide", "resolve", "invalid"}
      BY <3>1 DEF Spread
    <3>2. CASE UNCHANGED validationVars
      BY <3>2 DEF validationVars, Spread, Closed, Consumers, Orphaned
    <3> QED  BY <2>6, <3>1, <3>2, BuilderSteps
  <2> QED  BY <2>1, <2>2, <2>3, <2>4, <2>5, <2>6 DEF Validate
<1> QED  BY <1>1, <1>2, DagBuiltInvariant, PTL DEF Spec

(* OrphanCheckExact: orphaned tasks are reported if there are some, and only then. *)
THEOREM OrphansFound == Spec => []OrphanCheckExact
<1>1. DagBuilt /\ Spread => OrphanCheckExact
  <2> SUFFICES ASSUME DagBuilt, Spread, phase \in {"accepted", "rejected"}
               PROVE "orphaned" \in diagnostics <=>
                       \E R \in SUBSET dag.tasks : Closed(R) /\ (dag.tasks \ R) \ dag.outputs # {}
    BY DEF OrphanCheckExact
  <2>1. reachable \in SUBSET dag.tasks /\ Closed(reachable)
    BY DEF Spread, Closed
  <2>2. "orphaned" \in diagnostics <=> (dag.tasks \ reachable) \ dag.outputs # {}
    BY DEF Spread, Orphaned
  <2>3. \A R \in SUBSET dag.tasks : Closed(R) => reachable \subseteq R
    BY DEF Spread
  <2> QED  BY <2>1, <2>2, <2>3
<1> QED  BY <1>1, DagBuiltInvariant, SpreadInvariant, PTL

-----------------------------------------------------------------------------
(* Nothing is computed in vain.                                            *)

(* A task that stands for a tensor some task consumes has that task as a consumer. *)
LEMMA ConsumedHasConsumer ==
  ASSUME nig \in Nigs, dag = BuiltDag, NEW n \in Compute, NEW x \in Inputs(n),
         NEW k \in SourceTasks(resolved[x])
  PROVE  NodeTask(n) \in Consumers(k)
<1>1. NodeTask(n) \in Tasks  BY DEF Tasks
<1>2. k \in BuiltDag.sources[NodeTask(n)]  BY <1>1 DEF BuiltDag
<1> QED  BY <1>1, <1>2 DEF Consumers, BuiltDag

(* A task that is not an output is consumed. *)
LEMMA NoneInVain ==
  ASSUME nig \in Nigs, dag = BuiltDag, SingleProducer, \A n \in Compute : Outputs(n) # {},
         NEW k \in dag.tasks \ dag.outputs
  PROVE  Consumers(k) # {}
<1>1. k \in Tasks /\ k \notin OutputTasks  BY DEF BuiltDag
<1>2. ASSUME NEW n \in Compute, k = NodeTask(n) PROVE Consumers(k) # {}
  <2>1. PICK u \in Outputs(n) : TRUE  BY <1>2
  <2>2. n \in Nat /\ n \in DOMAIN nig.nodes /\ Compute \subseteq DOMAIN nig.nodes
    BY NodesTyped
  <2>3. \A m \in DOMAIN nig.nodes : u \in Outputs(m) => m = n
    BY <2>1, <2>2 DEF SingleProducer
  <2>4. u \in TaskInputTensors
    BY <1>1, <1>2, <2>1, <2>2, <2>3 DEF OutputTasks
  <2>5. PICK c \in Compute : \E x \in WiredInputs(c) : u = resolved[x]
    BY <2>4 DEF TaskInputTensors
  <2>6. PICK x \in WiredInputs(c) : u = resolved[x]
    BY <2>5
  <2>7. x \in Inputs(c)  BY <2>6 DEF WiredInputs
  <2>8. IsProducer(n, u)  BY <2>1, <2>2, <2>3 DEF IsProducer
  <2>9. k \in SourceTasks(resolved[x])  BY <1>2, <2>6, <2>8 DEF SourceTasks
  <2> QED  BY <2>7, <2>9, ConsumedHasConsumer
<1>3. ASSUME NEW t \in Consumed, k \in SourceTasks(t) PROVE Consumers(k) # {}
  <2>1. PICK c \in Compute : \E x \in Inputs(c) : t = resolved[x]
    BY DEF Consumed, ConsumedNames
  <2>2. PICK x \in Inputs(c) : t = resolved[x]
    BY <2>1
  <2> QED  BY <1>3, <2>2, ConsumedHasConsumer
<1>4. ASSUME NEW t \in GraphInputTensors, k = InputTask(t) PROVE Consumers(k) # {}
  BY <1>3, <1>4 DEF GraphInputTensors, SourceTasks
<1>5. ASSUME NEW t \in ConstantTensors, k = ConstantTask(t) PROVE Consumers(k) # {}
  BY <1>3, <1>5 DEF ConstantTensors, SourceTasks
<1> QED  BY <1>1, <1>2, <1>4, <1>5 DEF Tasks

(* NoDeadTask: every task of an accepted graph leads to an output task. *)
THEOREM NoneDead == Spec => []NoDeadTask
<1>1. DagBuilt /\ KahnInv /\ Spread => NoDeadTask
  <2> SUFFICES ASSUME DagBuilt, KahnInv, Spread, phase = "accepted", SingleProducer,
                      \A n \in Compute : Outputs(n) # {},
                      NEW U \in SUBSET dag.tasks, U # {}, \A t \in U : Consumers(t) \subseteq U
               PROVE U \cap dag.outputs # {}
    BY DEF NoDeadTask
  <2>1. topo_order = dag.tasks
    BY DEF Spread, KahnInv, CycleKnown
  <2>2. PICK t \in U : Consumers(t) \cap U = {}
    BY <2>1 DEF KahnInv, Peeled, Validated
  <2>3. Consumers(t) = {}  BY <2>2
  <2>4. nig \in Nigs /\ dag = BuiltDag  BY DEF DagBuilt, Validated
  <2> QED  BY <2>3, <2>4, NoneInVain
<1> QED  BY <1>1, DagBuiltInvariant, KahnInvariant, SpreadInvariant, PTL

-----------------------------------------------------------------------------
(* The rewriting map.                                                      *)

Cursor == [node : Nat \ {0}, output : Nat \ {0}]
Maybe  == Tensor \cup {None}

(* Every output of the layout nodes passed so far is rewritten, if there is something to
   rewrite it to, and what a name has been resolved to is not rewritten. *)
Rewritten ==
  /\ nig \in Nigs /\ phase \in Phases
  /\ at \in Cursor
  /\ rewrite \in [Tensor -> Maybe] /\ resolved \in [Tensor -> Maybe]
  /\ asked \in Maybe /\ (asked # None => current \in Tensor)
  /\ phase = "elide" /\ asked # None => at.node \in DOMAIN nig.nodes /\ OutputLeft
  /\ phase # "elide" => at.node \notin DOMAIN nig.nodes
  /\ \A n \in Elided : HasAlias(n) => \A i \in DOMAIN nig.nodes[n].outputs :
       n < at.node \/ (n = at.node /\ i < at.output) => rewrite[nig.nodes[n].outputs[i]] # None
  /\ \A t \in Tensor : resolved[t] # None => phase # "elide" /\ rewrite[resolved[t]] = None
  /\ Validated => \A t \in ConsumedNames : resolved[t] # None

(* The input a layout node passes on is a tensor. *)
LEMMA AliasInputTyped ==
  ASSUME nig \in Nigs, NEW n \in DOMAIN nig.nodes, NEW t \in Inputs(n)
  PROVE  t \in Tensor
  BY NodesTyped

(* The loops over nodes, outputs and names keep the rewriting map complete and resolved. *)
LEMMA RewrittenInvariant == Spec => []Rewritten
<1>1. Init => Rewritten
  <2> SUFFICES ASSUME Init PROVE Rewritten
    OBVIOUS
  <2>1. nig \in Nigs /\ at = [node |-> 1, output |-> 1] /\ phase = "elide"
    BY DEF Init
  <2>2. \A n \in Elided : n >= 1 /\ n \in Nat  BY <2>1, NodesTyped
  <2>3. \A n \in Elided : \A i \in DOMAIN nig.nodes[n].outputs : i >= 1 /\ i \in Nat
    BY <2>1, NodesTyped
  <2> QED  BY <2>1, <2>2, <2>3 DEF Init, Rewritten, Cursor, Maybe, Phases, Validated
<1>2. Rewritten /\ [Next]_vars => Rewritten'
  <2> SUFFICES ASSUME Rewritten, [Next]_vars PROVE Rewritten'
    OBVIOUS
  <2> USE DEF Rewritten
  <2>0. \A n \in Elided : n \in Nat /\ \A i \in DOMAIN nig.nodes[n].outputs : i \in Nat
    BY NodesTyped
  <2>1. CASE NextNode
    <3>1. /\ phase = "elide" /\ asked = None /\ at.node \in DOMAIN nig.nodes /\ ~ OutputLeft
          /\ at' = [node |-> at.node + 1, output |-> 1]
          /\ UNCHANGED <<nig, asked, current, rewrite, resolved, phase>>
      BY <2>1 DEF NextNode, InElision, validationVars
    <3>2. at' \in Cursor /\ at.node \in Nat /\ at'.node = at.node + 1 /\ at'.output = 1
      BY <3>1 DEF Cursor
    <3>3. ASSUME NEW n \in Elided, HasAlias(n), NEW i \in DOMAIN nig.nodes[n].outputs,
                 n < at'.node \/ (n = at'.node /\ i < at'.output)
          PROVE  rewrite[nig.nodes[n].outputs[i]] # None
      <4>1. i >= 1 /\ nig.nodes[n].outputs \in Seq(Tensor) /\ n \in Nat  BY NodesTyped
      <4>2. n < at.node \/ n = at.node  BY <3>2, <3>3, <4>1
      <4>3. CASE n = at.node
        <5>1. at.output \notin DOMAIN nig.nodes[n].outputs  BY <3>1, <3>3, <4>3 DEF OutputLeft
        <5>2. i < at.output  BY <4>1, <5>1 DEF Cursor
        <5> QED  BY <3>3, <4>3, <5>2
      <4> QED  BY <3>3, <4>2, <4>3
    <3>4. Elided' = Elided /\ \A n : HasAlias(n)' <=> HasAlias(n)
      BY <3>1 DEF Elided, HasAlias, Inputs
    <3> QED  BY <3>1, <3>2, <3>3, <3>4 DEF Validated
  <2>2. CASE AskAlias
    <3>1. /\ phase = "elide" /\ asked = None /\ at.node \in DOMAIN nig.nodes /\ OutputLeft
          /\ UNCHANGED <<nig, at, rewrite, resolved, phase>>
      BY <2>2 DEF AskAlias, InElision, validationVars
    <3>2. PICK t \in Inputs(at.node) : asked' = t /\ current' = t
      BY <2>2 DEF AskAlias, Ask
    <3>3. t \in Tensor  BY <3>1, AliasInputTyped
    <3>4. /\ Elided' = Elided /\ (OutputLeft' <=> OutputLeft) /\ ConsumedNames' = ConsumedNames
          /\ \A n : HasAlias(n)' <=> HasAlias(n)
      BY <3>1 DEF Elided, HasAlias, Inputs, OutputLeft, ConsumedNames, Compute
    <3> QED  BY <3>1, <3>2, <3>3, <3>4 DEF Maybe, Validated
  <2>3. CASE Follow
    <3>1. /\ asked # None /\ rewrite[current] # None /\ current' = rewrite[current]
          /\ UNCHANGED <<nig, at, asked, rewrite, resolved, phase>>
      BY <2>3 DEF Follow, Landed, validationVars
    <3>2. current' \in Tensor  BY <3>1 DEF Maybe
    <3>3. /\ Elided' = Elided /\ (OutputLeft' <=> OutputLeft) /\ ConsumedNames' = ConsumedNames
          /\ \A n : HasAlias(n)' <=> HasAlias(n)
      BY <3>1 DEF Elided, HasAlias, Inputs, OutputLeft, ConsumedNames, Compute
    <3> QED  BY <3>1, <3>2, <3>3 DEF Validated
  <2>4. CASE SetAlias
    <3> DEFINE out == nig.nodes[at.node].outputs[at.output]
    <3>1. /\ phase = "elide" /\ asked # None /\ at' = [at EXCEPT !.output = @ + 1]
          /\ rewrite' = [rewrite EXCEPT ![out] = current] /\ asked' = None
          /\ UNCHANGED <<nig, resolved, phase>>
      BY <2>4 DEF SetAlias, validationVars
    <3>2. at' \in Cursor /\ at'.node = at.node /\ at'.output = at.output + 1 /\ at.output \in Nat
      BY <3>1 DEF Cursor
    <3>3. current \in Tensor /\ out \in Tensor /\ current # None
      BY <3>1, NodesTyped, NigsAssumption DEF OutputLeft
    <3>4. rewrite' \in [Tensor -> Maybe]  BY <3>1, <3>3 DEF Maybe
    <3>5. ASSUME NEW n \in Elided, HasAlias(n), NEW i \in DOMAIN nig.nodes[n].outputs,
                 n < at'.node \/ (n = at'.node /\ i < at'.output)
          PROVE  rewrite'[nig.nodes[n].outputs[i]] # None
      <4>1. nig.nodes[n].outputs[i] \in Tensor /\ i \in Nat /\ n \in Nat  BY NodesTyped
      <4>2. CASE n = at.node /\ i = at.output  BY <3>1, <3>3, <4>2
      <4>3. CASE ~ (n = at.node /\ i = at.output)
        <5>1. n < at.node \/ (n = at.node /\ i < at.output)  BY <3>2, <3>5, <4>1, <4>3
        <5> QED  BY <3>1, <3>3, <3>5, <4>1, <5>1
      <4> QED  BY <4>2, <4>3
    <3>6. Elided' = Elided /\ \A n : HasAlias(n)' <=> HasAlias(n)
      BY <3>1 DEF Elided, HasAlias, Inputs
    <3>7. \A t \in Tensor : resolved'[t] = None  BY <3>1
    <3> QED  BY <3>1, <3>2, <3>4, <3>5, <3>6, <3>7 DEF Validated, Maybe
  <2>5. CASE ElisionDone
    <3>1. /\ phase = "elide" /\ at.node \notin DOMAIN nig.nodes /\ phase' = "resolve"
          /\ UNCHANGED <<nig, at, asked, current, rewrite, resolved>>
      BY <2>5 DEF ElisionDone, buildVars
    <3>2. /\ Elided' = Elided /\ (OutputLeft' <=> OutputLeft) /\ ConsumedNames' = ConsumedNames
          /\ \A n : HasAlias(n)' <=> HasAlias(n)
      BY <3>1 DEF Elided, HasAlias, Inputs, OutputLeft, ConsumedNames, Compute
    <3> QED  BY <3>1, <3>2 DEF Validated, Phases
  <2>6. CASE AskConsumed
    <3>1. /\ phase = "resolve" /\ UNCHANGED <<nig, at, rewrite, resolved, phase>>
      BY <2>6 DEF AskConsumed, validationVars
    <3>2. PICK t \in ConsumedNames : asked' = t /\ current' = t
      BY <2>6 DEF AskConsumed, Ask
    <3>3. t \in Tensor  BY NodesTyped DEF ConsumedNames
    <3>4. Elided' = Elided /\ \A n : HasAlias(n)' <=> HasAlias(n)
      BY <3>1 DEF Elided, HasAlias, Inputs
    <3> QED  BY <3>1, <3>2, <3>3, <3>4 DEF Maybe, Validated
  <2>7. CASE RecordConsumed
    <3>1. /\ phase = "resolve" /\ asked # None /\ rewrite[current] = None
          /\ resolved' = [resolved EXCEPT ![asked] = current] /\ asked' = None
          /\ UNCHANGED <<nig, at, rewrite, phase>>
      BY <2>7 DEF RecordConsumed, Landed, validationVars
    <3>2. current \in Tensor /\ asked \in Tensor  BY <3>1 DEF Maybe
    <3>3. resolved' \in [Tensor -> Maybe]  BY <3>1, <3>2 DEF Maybe
    <3>4. \A t \in Tensor : resolved'[t] # None => rewrite'[resolved'[t]] = None
      BY <3>1, <3>2
    <3>5. Elided' = Elided /\ \A n : HasAlias(n)' <=> HasAlias(n)
      BY <3>1 DEF Elided, HasAlias, Inputs
    <3> QED  BY <3>1, <3>3, <3>4, <3>5 DEF Maybe, Validated
  <2>8. CASE Assemble
    <3>1. /\ phase = "resolve" /\ phase' = "kahn" /\ asked = None
          /\ \A t \in ConsumedNames : resolved[t] # None
          /\ UNCHANGED <<nig, at, asked, current, rewrite, resolved>>
      BY <2>8 DEF Assemble, AllResolved, StartValidation, buildVars
    <3>2. /\ Elided' = Elided /\ ConsumedNames' = ConsumedNames
          /\ \A n : HasAlias(n)' <=> HasAlias(n)
      BY <3>1 DEF Elided, HasAlias, Inputs, ConsumedNames, Compute
    <3> QED  BY <3>1, <3>2 DEF Validated, Phases
  <2>9. CASE RejectIds
    <3>1. /\ phase = "resolve" /\ phase' = "invalid"
          /\ UNCHANGED <<nig, at, asked, current, rewrite, resolved>>
      BY <2>9 DEF RejectIds, AllResolved, buildVars
    <3>2. Elided' = Elided /\ \A n : HasAlias(n)' <=> HasAlias(n)
      BY <3>1 DEF Elided, HasAlias, Inputs
    <3> QED  BY <3>1, <3>2 DEF Validated, Phases
  <2>10. CASE Validate /\ UNCHANGED buildVars
    <3>1. /\ Validated /\ phase # "elide" /\ phase' \in Phases \ {"elide", "resolve", "invalid"}
          /\ UNCHANGED <<nig, at, asked, current, rewrite, resolved>>
      BY <2>10 DEF Validate, KahnStep, ReachStep, KahnDone, Conclude, Validated, Phases, buildVars
    <3>2. /\ Elided' = Elided /\ ConsumedNames' = ConsumedNames
          /\ \A n : HasAlias(n)' <=> HasAlias(n)
      BY <3>1 DEF Elided, HasAlias, Inputs, ConsumedNames, Compute
    <3> QED  BY <3>1, <3>2 DEF Validated, Phases
  <2>11. CASE UNCHANGED vars
    <3>1. UNCHANGED <<nig, at, asked, current, rewrite, resolved, phase>>
      BY <2>11 DEF vars
    <3>2. /\ Elided' = Elided /\ (OutputLeft' <=> OutputLeft) /\ ConsumedNames' = ConsumedNames
          /\ \A n : HasAlias(n)' <=> HasAlias(n)
      BY <3>1 DEF Elided, HasAlias, Inputs, OutputLeft, ConsumedNames, Compute
    <3> QED  BY <3>1, <3>2 DEF Validated
  <2> QED  BY <2>1, <2>2, <2>3, <2>4, <2>5, <2>6, <2>7, <2>8, <2>9, <2>10, <2>11 DEF Next
<1> QED  BY <1>1, <1>2, PTL DEF Spec

(* FinderNeverDescends: a tensor that a task consumes is never the output of a layout
   node with something before it, so that there is nothing to search behind one. *)
THEOREM FinderIdle == Spec => []FinderNeverDescends
<1>1. Rewritten => FinderNeverDescends
  <2> SUFFICES ASSUME Rewritten, phase \in {"accepted", "rejected"},
                      NEW u \in Consumed, NEW n \in Elided, IsProducer(n, u)
               PROVE Inputs(n) \subseteq {NoName}
    BY DEF FinderNeverDescends
  <2>1. PICK t \in ConsumedNames : u = resolved[t]  BY DEF Consumed
  <2>2. t \in Tensor /\ u # None /\ rewrite[u] = None
    BY <2>1, NodesTyped DEF Rewritten, Validated, ConsumedNames
  <2>3. n \in 1..Len(nig.nodes) /\ at.node \notin 1..Len(nig.nodes) /\ at.node \in Nat \ {0}
    BY NodesTyped DEF Rewritten, Cursor
  <2>4. n < at.node  BY <2>3, NodesTyped DEF Rewritten
  <2>5. PICK i \in DOMAIN nig.nodes[n].outputs : u = nig.nodes[n].outputs[i]
    BY DEF IsProducer, Outputs, Range
  <2>6. ~ HasAlias(n)  BY <2>2, <2>4, <2>5 DEF Rewritten
  <2> QED  BY <2>6 DEF HasAlias
<1> QED  BY <1>1, RewrittenInvariant, PTL

-----------------------------------------------------------------------------
(* Chains of layout nodes.                                                 *)

(* Every name is at the end of a chain without links. *)
LEMMA BehindItself ==
  ASSUME NEW A, NEW t
  PROVE  Behind(A, t, t)
  BY DEF Behind

(* A link in front of a chain makes a chain. *)
LEMMA BehindOneMore ==
  ASSUME NEW A, NEW t, NEW u, NEW v, <<t, u>> \in A, Behind(A, u, v)
  PROVE  Behind(A, t, v)
<1> SUFFICES ASSUME NEW R \in SUBSET ({t} \cup {a[2] : a \in A}), t \in R,
                    \A a \in A : a[1] \in R => a[2] \in R
             PROVE v \in R
  BY DEF Behind
<1> DEFINE Q == R \cap ({u} \cup {a[2] : a \in A})
<1>1. u \in R  OBVIOUS
<1>2. u \in Q /\ \A a \in A : a[1] \in Q => a[2] \in Q  BY <1>1
<1>3. v \in Q  BY <1>2 DEF Behind
<1> QED  BY <1>3

(* Chains can be joined. *)
LEMMA BehindTransitive ==
  ASSUME NEW A, NEW t, NEW u, NEW v, Behind(A, t, u), Behind(A, u, v)
  PROVE  Behind(A, t, v)
<1> SUFFICES ASSUME NEW R \in SUBSET ({t} \cup {a[2] : a \in A}), t \in R,
                    \A a \in A : a[1] \in R => a[2] \in R
             PROVE v \in R
  BY DEF Behind
<1> DEFINE Q == R \cap ({u} \cup {a[2] : a \in A})
<1>1. u \in R  BY DEF Behind
<1>2. u \in Q /\ \A a \in A : a[1] \in Q => a[2] \in Q  BY <1>1
<1>3. v \in Q  BY <1>2 DEF Behind
<1> QED  BY <1>3

(* Where a name has at most one alias, the chain from it has at most one end. *)
LEMMA OneEnd ==
  ASSUME NEW A, \A a \in A : a = <<a[1], a[2]>>,
         \A a, b \in A : a[1] = b[1] => a[2] = b[2],
         NEW t, NEW u, NEW v, Behind(A, t, u), Behind(A, t, v),
         \A a \in A : a[1] # u /\ a[1] # v
  PROVE  u = v
<1> DEFINE R == {x \in {t} \cup {a[2] : a \in A} : Behind(A, x, u)}
<1>1. t \in R  OBVIOUS
<1>2. ASSUME NEW a \in A, a[1] \in R PROVE a[2] \in R
  <2>1. Behind(A, a[1], u) /\ a[1] # u  BY <1>2
  <2>2. ASSUME NEW Q \in SUBSET ({a[2]} \cup {b[2] : b \in A}), a[2] \in Q,
               \A b \in A : b[1] \in Q => b[2] \in Q
        PROVE  u \in Q
    <3> DEFINE P == Q \cup {a[1]}
    <3>1. P \in SUBSET ({a[1]} \cup {b[2] : b \in A})  OBVIOUS
    <3>2. a[1] \in P /\ \A b \in A : b[1] \in P => b[2] \in P  BY <2>2
    <3>3. u \in P  BY <2>1, <3>1, <3>2 DEF Behind
    <3> QED  BY <2>1, <3>3
  <2> QED  BY <2>2 DEF Behind
<1>3. v \in R  BY <1>1, <1>2 DEF Behind
<1>4. {v} \in SUBSET ({v} \cup {a[2] : a \in A})  OBVIOUS
<1>5. u \in {v}  BY <1>3, <1>4 DEF Behind
<1> QED  BY <1>5

(* A rewritten name is the output of a layout node, and leads to its input. *)
LEMMA AliasesOf ==
  /\ \A a \in Aliases : a = <<a[1], a[2]>> /\ a[1] \in Tensor /\ a[2] \in Tensor
  /\ \A t \in Tensor, u \in Tensor :
       <<t, u>> \in Aliases <=> \E n \in Elided : t \in Outputs(n) /\ IsAliasInput(n, u)
  BY DEF Aliases

(* A layout node that passes an input on has something to rewrite its outputs to. *)
LEMMA AliasIsInput ==
  ASSUME NEW n, NEW t, IsAliasInput(n, t)
  PROVE  HasAlias(n)
  BY DEF IsAliasInput, HasAlias, Inputs, Range

(* Where every tensor has one producer, it has at most one alias. *)
LEMMA AliasesFunctional ==
  ASSUME nig \in Nigs, SingleProducer, NEW a \in Aliases, NEW b \in Aliases, a[1] = b[1]
  PROVE  a[2] = b[2]
<1>1. PICK n \in Elided : a[1] \in Outputs(n) /\ IsAliasInput(n, a[2])  BY DEF Aliases
<1>2. PICK m \in Elided : b[1] \in Outputs(m) /\ IsAliasInput(m, b[2])  BY DEF Aliases
<1>3. n = m  BY <1>1, <1>2, NodesTyped DEF SingleProducer
<1> DEFINE ins == nig.nodes[n].inputs
<1>4. ins \in Seq(Tensor)  BY NodesTyped
<1>5. CASE Len(ins) = 1  BY <1>1, <1>2, <1>3, <1>5 DEF IsAliasInput
<1>6. CASE Len(ins) # 1
  <2>1. PICK i \in DOMAIN ins : a[2] = ins[i] /\ a[2] # NoName
                             /\ \A k \in 1..(i - 1) : ins[k] = NoName
    BY <1>1, <1>6 DEF IsAliasInput
  <2>2. PICK j \in DOMAIN ins : b[2] = ins[j] /\ b[2] # NoName
                             /\ \A k \in 1..(j - 1) : ins[k] = NoName
    BY <1>2, <1>3, <1>6 DEF IsAliasInput
  <2>3. i \in Nat /\ i >= 1 /\ j \in Nat /\ j >= 1  BY <1>4
  <2>4. i = j  BY <2>1, <2>2, <2>3
  <2> QED  BY <2>1, <2>2, <2>4
<1> QED  BY <1>5, <1>6

(* The map, a resolution that is going on, and what has been resolved all lead along
   chains. *)
Chained ==
  /\ \A t \in Tensor : rewrite[t] # None => Behind(Aliases, t, rewrite[t])
  /\ asked # None => Behind(Aliases, asked, current)
  /\ phase = "elide" /\ asked # None => IsAliasInput(at.node, asked)
  /\ \A t \in Tensor : resolved[t] # None => Behind(Aliases, t, resolved[t])

(* What a name is resolved to lies behind it, through layout nodes alone. *)
LEMMA ChainedInvariant == Spec => []Chained
<1>1. Init => Chained
  BY DEF Init, Chained
<1>2. Rewritten /\ Chained /\ [Next]_vars => Chained'
  <2> SUFFICES ASSUME Rewritten, Chained, [Next]_vars PROVE Chained'
    OBVIOUS
  <2>0. nig' = nig
    BY DEF Next, NextNode, AskAlias, Follow, SetAlias, ElisionDone, AskConsumed, RecordConsumed,
           Assemble, RejectIds, buildVars, vars
  <2>1. Aliases' = Aliases /\ \A n, t : IsAliasInput(n, t)' <=> IsAliasInput(n, t)
    BY <2>0 DEF Aliases, Elided, Outputs, IsAliasInput
  <2>2. \A t, u : Behind(Aliases, t, u)' <=> Behind(Aliases, t, u)
    BY <2>1 DEF Behind
  <2>3. CASE AskAlias
    <3>1. /\ asked = None /\ UNCHANGED <<at, rewrite, resolved, phase>>
      BY <2>3 DEF AskAlias, InElision, validationVars
    <3>2. PICK t \in Inputs(at.node) : IsAliasInput(at.node, t) /\ asked' = t /\ current' = t
      BY <2>3 DEF AskAlias, Ask
    <3> QED  BY <2>1, <2>2, <3>1, <3>2, BehindItself DEF Chained
  <2>4. CASE AskConsumed
    <3>1. phase = "resolve" /\ UNCHANGED <<at, rewrite, resolved, phase>>
      BY <2>4 DEF AskConsumed, validationVars
    <3>2. PICK t \in ConsumedNames : asked' = t /\ current' = t
      BY <2>4 DEF AskConsumed, Ask
    <3> QED  BY <2>1, <2>2, <3>1, <3>2, BehindItself DEF Chained
  <2>5. CASE Follow
    <3>1. /\ asked # None /\ rewrite[current] # None /\ current' = rewrite[current]
          /\ UNCHANGED <<at, asked, rewrite, resolved, phase>>
      BY <2>5 DEF Follow, Landed, validationVars
    <3>2. current \in Tensor  BY <3>1 DEF Rewritten
    <3>3. Behind(Aliases, asked, current')
      BY <3>1, <3>2, BehindTransitive DEF Chained
    <3> QED  BY <2>1, <2>2, <3>1, <3>3 DEF Chained
  <2>6. CASE SetAlias
    <3> DEFINE out == nig.nodes[at.node].outputs[at.output]
    <3>1. /\ phase = "elide" /\ phase' = phase /\ asked # None /\ asked' = None
          /\ rewrite' = [rewrite EXCEPT ![out] = current] /\ resolved' = resolved
      BY <2>6 DEF SetAlias, validationVars
    <3>2. /\ at.node \in Elided /\ at.output \in DOMAIN nig.nodes[at.node].outputs
          /\ asked \in Tensor /\ current \in Tensor /\ rewrite \in [Tensor -> Maybe] /\ nig \in Nigs
      BY <3>1 DEF Rewritten, OutputLeft, Maybe
    <3>3. out \in Tensor /\ out \in Outputs(at.node)
      BY <3>2, NodesTyped DEF Outputs, Range
    <3>4. <<out, asked>> \in Aliases
      BY <3>1, <3>2, <3>3, AliasesOf DEF Chained
    <3>5. Behind(Aliases, out, current)
      BY <3>1, <3>4, BehindOneMore DEF Chained
    <3>6. \A t \in Tensor : rewrite'[t] # None => Behind(Aliases, t, rewrite'[t])
      BY <3>1, <3>2, <3>3, <3>5 DEF Chained
    <3> QED  BY <2>1, <2>2, <3>1, <3>6 DEF Chained
  <2>7. CASE RecordConsumed
    <3>1. /\ phase = "resolve" /\ phase' = phase /\ asked # None /\ asked' = None
          /\ resolved' = [resolved EXCEPT ![asked] = current] /\ rewrite' = rewrite
      BY <2>7 DEF RecordConsumed, validationVars
    <3>2. resolved \in [Tensor -> Maybe]  BY DEF Rewritten
    <3>3. \A t \in Tensor : resolved'[t] # None => Behind(Aliases, t, resolved'[t])
      BY <3>1, <3>2 DEF Chained
    <3> QED  BY <2>1, <2>2, <3>1, <3>3 DEF Chained
  <2>8. CASE NextNode \/ ElisionDone \/ Assemble \/ RejectIds \/ (Validate /\ UNCHANGED buildVars)
             \/ UNCHANGED vars
    <3>1. /\ UNCHANGED <<asked, current, rewrite, resolved>>
          /\ phase' = "elide" /\ asked # None => phase = "elide" /\ at' = at
      BY <2>8 DEF NextNode, InElision, ElisionDone, Assemble, StartValidation, RejectIds, Validate,
                  KahnStep, ReachStep, KahnDone, Conclude, buildVars, vars
    <3> QED  BY <2>1, <2>2, <3>1 DEF Chained
  <2> QED  BY <2>3, <2>4, <2>5, <2>6, <2>7, <2>8 DEF Next
<1> QED  BY <1>1, <1>2, RewrittenInvariant, PTL DEF Spec

(* WiredThroughLayout: a task waits for exactly the tasks at the ends of the layout
   chains behind its inputs. *)
THEOREM WiredRight == Spec => []WiredThroughLayout
<1>1. DagBuilt /\ Rewritten /\ Chained => WiredThroughLayout
  <2> DEFINE Ends == {t \in Tensor : \A a \in Aliases : a[1] # t}
  <2> SUFFICES ASSUME DagBuilt, Rewritten, Chained, phase \in {"accepted", "rejected"},
                      SingleProducer, NEW n \in Compute
               PROVE dag.sources[NodeTask(n)] =
                       UNION {SourceTasks(u) :
                                u \in {v \in Ends : \E t \in Inputs(n) : Behind(Aliases, t, v)}}
    BY DEF WiredThroughLayout
  <2>1. nig \in Nigs /\ dag = BuiltDag /\ Validated  BY DEF DagBuilt, Validated
  <2>2. dag.sources[NodeTask(n)] = UNION {SourceTasks(resolved[t]) : t \in Inputs(n)}
    <3>1. NodeTask(n) \in Tasks  BY DEF Tasks
    <3>2. {m \in Compute : NodeTask(m) = NodeTask(n)} = {n}  BY DEF NodeTask
    <3>3. UNION {Inputs(m) : m \in {k \in Compute : NodeTask(k) = NodeTask(n)}} = Inputs(n)
      BY <3>2
    <3>4. dag.sources[NodeTask(n)] =
            UNION {SourceTasks(resolved[t]) :
                     t \in UNION {Inputs(m) : m \in {k \in Compute : NodeTask(k) = NodeTask(n)}}}
      BY <2>1, <3>1 DEF BuiltDag
    <3> QED  BY <3>3, <3>4
  <2>3. ASSUME NEW t \in Inputs(n)
        PROVE  resolved[t] \in Ends /\ Behind(Aliases, t, resolved[t])
    <3>1. t \in ConsumedNames /\ t \in Tensor  BY <2>1, NodesTyped DEF ConsumedNames
    <3>2. resolved[t] # None /\ resolved[t] \in Tensor /\ rewrite[resolved[t]] = None
      BY <2>1, <3>1 DEF Rewritten, Maybe
    <3>3. ASSUME NEW a \in Aliases, a[1] = resolved[t] PROVE FALSE
      <4>1. PICK m \in Elided : a[1] \in Outputs(m) /\ IsAliasInput(m, a[2])  BY DEF Aliases
      <4>2. HasAlias(m)  BY <4>1, AliasIsInput
      <4>3. m \in 1..Len(nig.nodes) /\ at.node \notin 1..Len(nig.nodes) /\ at.node \in Nat \ {0}
        BY <2>1, NodesTyped DEF Rewritten, Cursor
      <4>4. m < at.node  BY <2>1, <4>3, NodesTyped
      <4>5. PICK i \in DOMAIN nig.nodes[m].outputs : a[1] = nig.nodes[m].outputs[i]
        BY <4>1 DEF Outputs, Range
      <4> QED  BY <3>2, <3>3, <4>2, <4>4, <4>5 DEF Rewritten
    <3> QED  BY <3>1, <3>2, <3>3 DEF Chained
  <2>4. ASSUME NEW t \in Inputs(n), NEW v \in Ends, Behind(Aliases, t, v) PROVE v = resolved[t]
    BY <2>1, <2>3, <2>4, OneEnd, AliasesOf, AliasesFunctional
  <2>5. {v \in Ends : \E t \in Inputs(n) : Behind(Aliases, t, v)} = {resolved[t] : t \in Inputs(n)}
    BY <2>3, <2>4
  <2>6. UNION {SourceTasks(resolved[t]) : t \in Inputs(n)}
          = UNION {SourceTasks(u) : u \in {resolved[t] : t \in Inputs(n)}}
    OBVIOUS
  <2> QED  BY <2>2, <2>5, <2>6
<1> QED  BY <1>1, DagBuiltInvariant, RewrittenInvariant, ChainedInvariant, PTL
=============================================================================
