------------------------ MODULE FrontendLegalityProofs ------------------------
(***************************************************************************)
(* What legality accepts, lowering and binding can take: for graphs of any *)
(* size, on any target, with and without a scenario.  Every lowered node   *)
(* comes from one node of the graph, or a Linear and its norm (From), and  *)
(* its macro is one for which the tables of legality.py, shape_binding.py  *)
(* and binding.py say the same (SameShape, MacroEnabled, and so on).       *)
(***************************************************************************)
EXTENDS FrontendLegality, WellFoundedInduction, TLAPS

(* A nonempty set of naturals has a least element. *)
LEMMA SmallestIs ==
  ASSUME NEW S \in SUBSET Nat, S # {}
  PROVE  Smallest(S) \in S
<1>1. \E i \in S : \A j \in S : i <= j
  <2> DEFINE R == {ss \in Nat \X Nat : ss[1] < ss[2]}
  <2>1. IsWellFoundedOn(R, Nat)  BY NatLessThanWellFounded DEF OpToRel
  <2>2. PICK i \in S : \A j \in S : <<j, i>> \notin R  BY <2>1, WFMin, Zenon
  <2>3. ASSUME NEW j \in S PROVE i <= j
    <3>1. i \in Nat /\ j \in Nat /\ <<j, i>> \notin R  BY <2>2
    <3> QED  BY <3>1
  <2> QED  BY <2>3
<1> QED  BY <1>1 DEF Smallest

-----------------------------------------------------------------------------
(* Where a lowered node comes from.                                        *)

OpsSeen == {graph[n].op : n \in DOMAIN graph} \cup Range(MacroOp) \cup {"RMSNORM_GEMM"}

GraphNode ==
  [id : DOMAIN payload, op : OpsSeen, inputs : Seq(Tensor), outputs : Seq(Tensor),
   kind : Kinds, origin : Origins]

Alone(w, v) == v.op \in DOMAIN MacroOp /\ w = [v EXCEPT !.op = MacroOp[v.op]]

Fused(w, v) ==
  /\ v.op = "Linear" /\ v.inputs # <<>>
  /\ \E u \in ToSet(graph) :
       /\ u.op = "RMSNorm"
       /\ w = [v EXCEPT !.op = "RMSNORM_GEMM", !.inputs = u.inputs \o Tail(v.inputs)]

From(w, v) == Alone(w, v) \/ Fused(w, v)

LoweringInv ==
  /\ IsCase(graph, payload)
  /\ at \in 0..Len(graph)
  /\ lowered \in Seq(GraphNode)
  /\ \A k \in DOMAIN lowered : \E n \in DOMAIN graph : From(lowered[k], graph[n])
  /\ outcome = "invalid" => \E v \in ToSet(graph) : v.op = "Linear" /\ Group(v) <= 0

CheckInv ==
  /\ checked \in 0..Len(graph)
  /\ \A n \in 1..checked : \A rule \in NodeIssues(graph[n]) : <<rule, graph[n].id>> \in issues

BindingInv ==
  /\ bound \in Seq({Binding(w) : w \in GraphNode})
  /\ \A k \in DOMAIN bound : k \in DOMAIN lowered /\ bound[k] = Binding(lowered[k])

LegalityInv == LoweringInv /\ CheckInv /\ BindingInv

LEMMA GraphTyped ==
  ASSUME LoweringInv
  PROVE  /\ graph \in Seq(GraphNode) /\ Len(graph) \in Nat /\ DOMAIN graph = 1..Len(graph)
         /\ \A v \in ToSet(graph) : v \in GraphNode
         /\ \A v \in ToSet(graph) : v.op \in {"RMSNorm", "KVStore", "KVLoad"} => v.inputs # <<>>
         /\ \A v \in GraphNode : /\ payload[v.id].shape \in Seq(Int)
                                 /\ payload[v.id].group \in Int \cup {NoGroup}
<1> DEFINE Of(ops) == [id : DOMAIN payload, op : ops, inputs : Seq(Tensor), outputs : Seq(Tensor),
                      kind : Kinds, origin : Origins]
<1>0. graph \in Seq(GraphNode)
  <2> DEFINE seen == {graph[n].op : n \in DOMAIN graph}
  <2>1. graph \in Seq(Of(seen))  BY DEF LoweringInv, IsCase
  <2>2. Of(seen) \subseteq GraphNode  BY DEF GraphNode, OpsSeen
  <2> HIDE DEF Of
  <2> QED  BY <2>1, <2>2
<1>1. /\ graph \in Seq(GraphNode)
      /\ \A v \in ToSet(graph) : v.op \in {"RMSNorm", "KVStore", "KVLoad"} => v.inputs # <<>>
      /\ \A id \in DOMAIN payload : /\ payload[id].shape \in Seq(Int)
                                    /\ payload[id].group \in Int \cup {NoGroup}
  BY <1>0 DEF LoweringInv, IsCase
<1>2. Len(graph) \in Nat /\ DOMAIN graph = 1..Len(graph)  BY <1>1
<1>3. ToSet(graph) = {graph[n] : n \in DOMAIN graph}  BY <1>2 DEF ToSet
<1>4. \A v \in ToSet(graph) : v \in GraphNode  BY <1>1, <1>2, <1>3
<1>5. \A v \in GraphNode : v.id \in DOMAIN payload  BY DEF GraphNode
<1> QED  BY <1>1, <1>2, <1>3, <1>4, <1>5

(* A lowered node keeps the id, a fused one reads what its norm reads in front. *)
LEMMA FromKeeps ==
  ASSUME LoweringInv, NEW v \in ToSet(graph), NEW w, From(w, v)
  PROVE  /\ w \in GraphNode /\ w.id = v.id
         /\ \/ v.op \in DOMAIN MacroOp /\ w.op = MacroOp[v.op] /\ w.inputs = v.inputs
            \/ /\ v.op = "Linear" /\ w.op = "RMSNORM_GEMM"
               /\ Len(w.inputs) >= Len(v.inputs)
<1>1. v \in GraphNode  BY GraphTyped
<1>2. CASE Alone(w, v)
  <2>1. MacroOp[v.op] \in OpsSeen  BY <1>2 DEF Alone, OpsSeen, Range
  <2> QED  BY <1>1, <1>2, <2>1 DEF Alone, GraphNode
<1>3. CASE Fused(w, v)
  <2>1. PICK u \in ToSet(graph) :
          /\ u.op = "RMSNorm"
          /\ w = [v EXCEPT !.op = "RMSNORM_GEMM", !.inputs = u.inputs \o Tail(v.inputs)]
    BY <1>3 DEF Fused
  <2>2. u \in GraphNode /\ u.inputs # <<>>  BY <2>1, GraphTyped
  <2>3. v.inputs \in Seq(Tensor) /\ v.inputs # <<>> /\ u.inputs \in Seq(Tensor)
    BY <1>1, <1>3, <2>2 DEF Fused, GraphNode
  <2> DEFINE ins == u.inputs \o Tail(v.inputs)
  <2>4. ins \in Seq(Tensor) /\ Len(ins) >= Len(v.inputs)
    <3>1. Tail(v.inputs) \in Seq(Tensor) /\ Len(Tail(v.inputs)) = Len(v.inputs) - 1  BY <2>3
    <3>2. Len(u.inputs) \in Nat /\ Len(u.inputs) >= 1 /\ Len(v.inputs) \in Nat  BY <2>2, <2>3
    <3>3. Len(ins) = Len(u.inputs) + Len(Tail(v.inputs))  BY <2>3, <3>1
    <3>4. ins \in Seq(Tensor)  BY <2>3, <3>1
    <3>5. Len(ins) = Len(u.inputs) + (Len(v.inputs) - 1)  BY <3>1, <3>3
    <3> HIDE DEF ins
    <3>6. Len(ins) >= Len(v.inputs)  BY <3>2, <3>5
    <3> QED  BY <3>4, <3>6
  <2> HIDE DEF ins
  <2>5. w = [v EXCEPT !.op = "RMSNORM_GEMM", !.inputs = ins]  BY <2>1 DEF ins
  <2> QED  BY <1>1, <1>3, <2>4, <2>5 DEF Fused, GraphNode, OpsSeen
<1> QED  BY <1>2, <1>3 DEF From

(* What the scan adds to the lowered nodes comes from the graph. *)
LEMMA ScannedFrom ==
  ASSUME LoweringInv, Scan
  PROVE  /\ Scanned \in ToSet(graph) /\ at' \in 0..Len(graph)
         /\ LowerAlone => \E w : Alone(w, Scanned) /\ lowered' = Append(lowered, w)
         /\ LowerFused => \E v \in ToSet(graph) : \E w :
                            Fused(w, v) /\ lowered' = Append(lowered, w)
<1>1. /\ Len(graph) \in Nat /\ DOMAIN graph = 1..Len(graph) /\ at \in 0..Len(graph)
      /\ at < Len(graph) /\ at' = at + 1
  BY GraphTyped DEF LoweringInv, Scan
<1>2. at + 1 \in DOMAIN graph /\ at' \in 0..Len(graph)  BY <1>1
<1>3. Scanned \in ToSet(graph)  BY <1>2 DEF Scanned, ToSet
<1>4. LowerAlone => \E w : Alone(w, Scanned) /\ lowered' = Append(lowered, w)
  BY DEF LowerAlone, Alone
<1>5. ASSUME LowerFused
      PROVE  \E v \in ToSet(graph) : \E w : Fused(w, v) /\ lowered' = Append(lowered, w)
  <2> DEFINE S == FusibleLinears(Scanned)
             v == graph[Smallest(S)]
             w == [v EXCEPT !.op = "RMSNORM_GEMM", !.inputs = Scanned.inputs \o Tail(v.inputs)]
  <2>1. S # {} /\ Scanned.op = "RMSNorm" /\ lowered' = Append(lowered, w)
    BY <1>5 DEF LowerFused, Fuses
  <2>2. Smallest(S) \in S
    <3>1. S \subseteq Nat  BY <1>1 DEF FusibleLinears
    <3> QED  BY <2>1, <3>1, SmallestIs
  <2>3. v.op = "Linear" /\ v.inputs # <<>> /\ Smallest(S) \in DOMAIN graph
    BY <2>2 DEF FusibleLinears
  <2>4. v \in ToSet(graph)  BY <2>3 DEF ToSet
  <2>5. Fused(w, v)  BY <1>3, <2>1, <2>3 DEF Fused
  <2> QED  BY <2>1, <2>4, <2>5
<1> QED  BY <1>2, <1>3, <1>4, <1>5

(* The Linears whose quantisation is declared are nodes of the graph. *)
LEMMA LinearsAre ==
  ASSUME LoweringInv, NEW v \in LinearsScanned
  PROVE  v \in ToSet(graph) /\ v.op = "Linear"
<1>1. /\ Len(graph) \in Nat /\ DOMAIN graph = 1..Len(graph) /\ at \in 0..Len(graph)
  BY GraphTyped DEF LoweringInv
<1>2. CASE Fuses(Scanned)
  <2> DEFINE S == FusibleLinears(Scanned)
  <2>1. S # {} /\ v = graph[Smallest(S)]  BY <1>2 DEF Fuses, LinearsScanned
  <2>2. Smallest(S) \in S
    <3>1. S \subseteq Nat  BY <1>1 DEF FusibleLinears
    <3> QED  BY <2>1, <3>1, SmallestIs
  <2>3. v.op = "Linear" /\ Smallest(S) \in DOMAIN graph  BY <2>1, <2>2 DEF FusibleLinears
  <2> QED  BY <2>1, <2>3 DEF ToSet
<1>3. CASE ~ Fuses(Scanned)  BY <1>3 DEF LinearsScanned
<1> QED  BY <1>2, <1>3

(* The inputs of a run do not change, and what is said of a node follows from them. *)
LEMMA InputsStay ==
  ASSUME [Next]_vars
  PROVE  /\ graph' = graph /\ payload' = payload /\ target' = target /\ scenario' = scenario
         /\ GraphNode' = GraphNode
         /\ \A v : Group(v)' = Group(v)
         /\ \A v : NodeIssues(v)' = NodeIssues(v)
         /\ \A w : Binding(w)' = Binding(w)
         /\ \A w, v : From(w, v)' = From(w, v)
<1>1. graph' = graph /\ payload' = payload /\ target' = target /\ scenario' = scenario
  BY DEF Next, vars, Check, Lower, RaiseGroup, Bind, inputVars, LowerNext, Drop, LowerFused,
         LowerAlone, Refuse, Conclude
<1>2. GraphNode' = GraphNode /\ \A v : Group(v)' = Group(v)
  BY <1>1 DEF GraphNode, OpsSeen, Group
<1>3. \A v : NodeIssues(v)' = NodeIssues(v)
  BY <1>1 DEF NodeIssues, GraphIssues, TargetIssues, Closeable, IsQuantized, GraphQuantIssues,
              TargetQuantIssues, RequiredOpcodes, KvIssues
<1>4. \A w : Binding(w)' = Binding(w)
  BY <1>1 DEF Binding, Macro, Layout, BoundQuant, Group
<1>5. \A w, v : From(w, v)' = From(w, v)
  BY <1>1 DEF From, Alone, Fused
<1> QED  BY <1>1, <1>2, <1>3, <1>4, <1>5

-----------------------------------------------------------------------------
(* The invariant.                                                          *)

(* A node that comes from the graph can be appended to what is lowered. *)
LEMMA AppendFrom ==
  ASSUME LoweringInv, NEW v \in ToSet(graph), NEW w, From(w, v)
  PROVE  LET r == Append(lowered, w)
         IN  /\ r \in Seq(GraphNode)
             /\ \A k \in DOMAIN r : \E n \in DOMAIN graph : From(r[k], graph[n])
             /\ \A k \in DOMAIN lowered : k \in DOMAIN r /\ r[k] = lowered[k]
<1> DEFINE r == Append(lowered, w)
<1>1. lowered \in Seq(GraphNode) /\ w \in GraphNode  BY FromKeeps DEF LoweringInv
<1>2. /\ r \in Seq(GraphNode) /\ Len(lowered) \in Nat /\ DOMAIN lowered = 1..Len(lowered)
      /\ DOMAIN r = 1..(Len(lowered) + 1) /\ r[Len(lowered) + 1] = w
      /\ \A k \in 1..Len(lowered) : r[k] = lowered[k]
  BY <1>1
<1> HIDE DEF r
<1>3. \A k \in DOMAIN lowered : k \in DOMAIN r /\ r[k] = lowered[k]  BY <1>2
<1>4. \E n \in DOMAIN graph : v = graph[n]  BY DEF ToSet
<1>5. ASSUME NEW k \in DOMAIN r PROVE \E n \in DOMAIN graph : From(r[k], graph[n])
  <2>1. CASE k \in DOMAIN lowered  BY <1>3, <2>1 DEF LoweringInv
  <2>2. CASE k \notin DOMAIN lowered
    <3>1. k = Len(lowered) + 1  BY <1>2, <2>2
    <3> QED  BY <1>2, <1>4, <3>1
  <2> QED  BY <2>1, <2>2
<1> QED  BY <1>2, <1>3, <1>5 DEF r

(* A step of the scan leaves what was lowered before, and adds at most one node. *)
LEMMA LowerKeeps ==
  ASSUME LoweringInv, LowerNext, [Next]_vars
  PROVE  LoweringInv' /\ \A k \in DOMAIN lowered : k \in DOMAIN lowered' /\ lowered'[k] = lowered[k]
<1>1. /\ graph' = graph /\ payload' = payload /\ GraphNode' = GraphNode
      /\ \A v : Group(v)' = Group(v)
      /\ \A w, v : From(w, v)' = From(w, v)
  BY InputsStay
<1>2. outcome' # "invalid" \/ outcome' = outcome
  BY DEF LowerNext, Drop, LowerFused, LowerAlone, Refuse, Conclude, Scan
<1>3. CASE Drop \/ Refuse
  <2>1. Scan /\ lowered' = lowered  BY <1>3 DEF Drop, Refuse
  <2>2. at' \in 0..Len(graph)  BY <2>1, ScannedFrom
  <2> QED  BY <1>1, <1>2, <2>1, <2>2 DEF LoweringInv
<1>4. CASE LowerAlone \/ LowerFused
  <2>1. Scan  BY <1>4 DEF LowerAlone, LowerFused
  <2>2. PICK v, w : v \in ToSet(graph) /\ From(w, v) /\ lowered' = Append(lowered, w)
    BY <1>4, <2>1, ScannedFrom DEF From
  <2>3. at' \in 0..Len(graph)  BY <2>1, ScannedFrom
  <2>4. /\ lowered' \in Seq(GraphNode)
        /\ \A k \in DOMAIN lowered' : \E n \in DOMAIN graph : From(lowered'[k], graph[n])
        /\ \A k \in DOMAIN lowered : k \in DOMAIN lowered' /\ lowered'[k] = lowered[k]
    BY <2>2, AppendFrom
  <2> QED  BY <1>1, <1>2, <2>3, <2>4 DEF LoweringInv
<1>5. CASE Conclude
  <2>1. at' = at /\ lowered' = lowered  BY <1>5 DEF Conclude
  <2> QED  BY <1>1, <1>2, <2>1 DEF LoweringInv
<1> QED  BY <1>3, <1>4, <1>5 DEF LowerNext

LEMMA RaiseKeeps ==
  ASSUME LoweringInv, RaiseGroup, [Next]_vars
  PROVE  LoweringInv' /\ lowered' = lowered
<1>1. /\ graph' = graph /\ payload' = payload /\ GraphNode' = GraphNode
      /\ \A v : Group(v)' = Group(v)
      /\ \A w, v : From(w, v)' = From(w, v)
  BY InputsStay
<1>2. \E v \in ToSet(graph) : v.op = "Linear" /\ Group(v) <= 0
  BY LinearsAre DEF RaiseGroup, GroupRefused
<1>3. at' = at /\ lowered' = lowered  BY DEF RaiseGroup
<1> QED  BY <1>1, <1>2, <1>3 DEF LoweringInv

LEMMA LoweringInvariant == Spec => []LoweringInv
<1>1. Init => LoweringInv
  <2> SUFFICES ASSUME Init PROVE LoweringInv
    OBVIOUS
  <2>1. PICK c \in Cases : graph = c.graph /\ payload = c.payload  BY DEF Init
  <2>2. IsCase(graph, payload)
    BY <2>1, CasesAssumption
  <2>3. at = 0 /\ lowered = <<>> /\ outcome = "scanning"  BY DEF Init, LowerInit
  <2>4. Len(graph) \in Nat  BY <2>2 DEF IsCase
  <2> QED  BY <2>2, <2>3, <2>4 DEF LoweringInv
<1>2. LoweringInv /\ [Next]_vars => LoweringInv'
  <2> SUFFICES ASSUME LoweringInv, [Next]_vars PROVE LoweringInv'
    OBVIOUS
  <2>1. CASE Lower  BY <2>1, LowerKeeps DEF Lower
  <2>2. CASE RaiseGroup  BY <2>2, RaiseKeeps
  <2>3. CASE Check \/ Bind \/ UNCHANGED vars
    <3>1. at' = at /\ lowered' = lowered /\ outcome' = outcome
      BY <2>3 DEF Check, Bind, vars, lowerVars
    <3> QED  BY <3>1, InputsStay DEF LoweringInv
  <2> QED  BY <2>1, <2>2, <2>3 DEF Next
<1> QED  BY <1>1, <1>2, PTL DEF Spec

(* Legality has reported every issue of the nodes it has looked at. *)
LEMMA CheckInvariant == Spec => []CheckInv
<1>1. Init /\ LoweringInv => CheckInv
  BY GraphTyped DEF Init, CheckInv
<1>2. LoweringInv /\ CheckInv /\ [Next]_vars => CheckInv'
  <2> SUFFICES ASSUME LoweringInv, CheckInv, [Next]_vars PROVE CheckInv'
    OBVIOUS
  <2>1. graph' = graph /\ \A v : NodeIssues(v)' = NodeIssues(v)  BY InputsStay
  <2>2. Len(graph) \in Nat /\ checked \in 0..Len(graph)  BY GraphTyped DEF CheckInv
  <2>3. CASE Check
    <3>1. /\ checked < Len(graph) /\ checked' = checked + 1
          /\ issues' = issues \cup {<<rule, graph[checked + 1].id>> :
                                     rule \in NodeIssues(graph[checked + 1])}
      BY <2>3 DEF Check
    <3>2. checked' \in 0..Len(graph)  BY <2>2, <3>1
    <3>3. ASSUME NEW n \in 1..checked', NEW rule \in NodeIssues(graph[n])
          PROVE  <<rule, graph[n].id>> \in issues'
      <4>1. CASE n \in 1..checked  BY <3>1, <3>3, <4>1 DEF CheckInv
      <4>2. CASE n \notin 1..checked
        <5>1. n = checked + 1  BY <2>2, <3>1, <3>3, <4>2
        <5> QED  BY <3>1, <3>3, <5>1
      <4> QED  BY <4>1, <4>2
    <3> QED  BY <2>1, <3>2, <3>3 DEF CheckInv
  <2>4. CASE Lower \/ RaiseGroup \/ Bind \/ UNCHANGED vars
    <3>1. checked' = checked /\ issues' = issues
      BY <2>4 DEF Lower, RaiseGroup, Bind, vars
    <3> QED  BY <2>1, <3>1 DEF CheckInv
  <2> QED  BY <2>3, <2>4 DEF Next
<1> QED  BY <1>1, <1>2, LoweringInvariant, PTL DEF Spec

(* The bindings are those of the first lowered nodes. *)
LEMMA BindingInvariant == Spec => []BindingInv
<1>1. Init => BindingInv  BY DEF Init, BindingInv
<1>2. LoweringInv /\ BindingInv /\ [Next]_vars => BindingInv'
  <2> SUFFICES ASSUME LoweringInv, BindingInv, [Next]_vars PROVE BindingInv'
    OBVIOUS
  <2> DEFINE B == {Binding(w) : w \in GraphNode}
  <2>1. B' = B /\ \A w : Binding(w)' = Binding(w)  BY InputsStay
  <2>2. CASE Lower
    <3>1. bound' = bound /\ \A k \in DOMAIN lowered : k \in DOMAIN lowered' /\ lowered'[k] = lowered[k]
      BY <2>2, LowerKeeps DEF Lower
    <3> QED  BY <2>1, <3>1 DEF BindingInv
  <2>3. CASE Bind
    <3> DEFINE n == Len(bound) + 1
               b == Binding(lowered[n])
    <3>1. Len(bound) < Len(lowered) /\ bound' = Append(bound, b) /\ lowered' = lowered
      BY <2>3 DEF Bind, lowerVars
    <3>2. bound \in Seq(B) /\ lowered \in Seq(GraphNode)  BY DEF BindingInv, LoweringInv
    <3>3. n \in DOMAIN lowered /\ Len(bound) \in Nat  BY <3>1, <3>2
    <3>4. b \in B  BY <3>2, <3>3
    <3> HIDE DEF B, b
    <3>5. /\ bound' \in Seq(B) /\ DOMAIN bound' = 1..n /\ bound'[n] = b
          /\ DOMAIN bound = 1..Len(bound) /\ \A k \in DOMAIN bound : bound'[k] = bound[k]
      BY <3>1, <3>2, <3>4
    <3>6. ASSUME NEW k \in DOMAIN bound'
          PROVE  k \in DOMAIN lowered /\ bound'[k] = Binding(lowered[k])
      <4>1. CASE k \in DOMAIN bound  BY <3>5, <4>1 DEF BindingInv
      <4>2. CASE k \notin DOMAIN bound
        <5>1. k = n  BY <3>3, <3>5, <4>2
        <5> QED  BY <3>3, <3>5, <5>1 DEF b
      <4> QED  BY <4>1, <4>2
    <3>7. bound' \in Seq(B')  BY <2>1, <3>5
    <3>8. \A k \in DOMAIN bound' : k \in DOMAIN lowered' /\ bound'[k] = Binding(lowered[k])'
      BY <2>1, <3>1, <3>6
    <3> QED  BY <3>7, <3>8 DEF BindingInv, B
  <2>4. CASE Check \/ RaiseGroup \/ UNCHANGED vars
    <3>1. bound' = bound /\ lowered' = lowered
      BY <2>4 DEF Check, RaiseGroup, vars, lowerVars
    <3> QED  BY <2>1, <3>1 DEF BindingInv
  <2> QED  BY <2>2, <2>3, <2>4 DEF Next
<1> QED  BY <1>1, <1>2, LoweringInvariant, PTL DEF Spec

LEMMA LegalityInvariant == Spec => []LegalityInv
BY LoweringInvariant, CheckInvariant, BindingInvariant, PTL DEF LegalityInv

-----------------------------------------------------------------------------
(* What the tables agree on.                                               *)

LEMMA MacroTable ==
  /\ DOMAIN MacroOp = {"Linear", "RMSNorm", "EmbeddingLookup", "ROPETable", "GeGLU", "ROPE",
                       "KVStore", "KVLoad", "SDPA", "ResidualAdd", "ShapeHelper",
                       "LayoutFallback", "AttentionMaskPrep"}
  /\ MacroOp["Linear"] = "GEMM" /\ MacroOp["RMSNorm"] = "RMSNORM"
  /\ MacroOp["EmbeddingLookup"] = "EMBEDDING_LOOKUP" /\ MacroOp["ROPETable"] = "ROPE_TABLE"
  /\ MacroOp["GeGLU"] = "GEGLU" /\ MacroOp["ROPE"] = "ROPE"
  /\ MacroOp["KVStore"] = "KVSTORE" /\ MacroOp["KVLoad"] = "KVLOAD"
  /\ MacroOp["SDPA"] = "SDPA" /\ MacroOp["ResidualAdd"] = "ELEM_ADD"
  /\ MacroOp["ShapeHelper"] = "SHAPE_HELPER" /\ MacroOp["LayoutFallback"] = "LAYOUT_FALLBACK"
  /\ MacroOp["AttentionMaskPrep"] = "ATTENTION_MASK_PREP"
BY DEF MacroOp

(* The macro of a lowered node, by the operator it comes from. *)
LEMMA MacroFrom ==
  ASSUME LoweringInv, NEW v \in ToSet(graph), NEW w, From(w, v)
  PROVE  \/ v.op \in FallbackKinds /\ Macro(w) \in FallbackMacros
         \/ v.op = "Linear" /\ (Macro(w) = "RMSNORM_GEMM" \/ Macro(w) =
              IF Weights(payload[v.id]) \in {"int4", "uint4"} THEN "WDQ_GEMM" ELSE "GEMM")
         \/ v.op = "SDPA" /\ Macro(w) =
              IF IF scenario = NoScenario THEN payload[v.id].queryLen = 1 ELSE scenario.mode = "decode"
              THEN "SDPA_DECODE" ELSE "SDPA"
         \/ v.op \in DOMAIN CanonicalOpcode /\ Macro(w) = CanonicalOpcode[v.op]
<1>1. w.id = v.id /\ \/ v.op \in DOMAIN MacroOp /\ w.op = MacroOp[v.op]
                     \/ v.op = "Linear" /\ w.op = "RMSNORM_GEMM"
  BY FromKeeps
<1>2. CASE v.op \in FallbackKinds
  <2>1. w.op = MacroOp[v.op]  BY <1>1, <1>2 DEF FallbackKinds
  <2>2. w.op \in FallbackMacros
    BY <1>2, <2>1, MacroTable DEF FallbackKinds, FallbackMacros
  <2>3. Macro(w) = w.op  BY <2>2 DEF Macro, FallbackMacros
  <2> QED  BY <1>2, <2>2, <2>3
<1>3. CASE v.op = "Linear"
  <2>1. w.op \in {"GEMM", "RMSNORM_GEMM"}  BY <1>1, <1>3, MacroTable
  <2> QED  BY <1>1, <1>3, <2>1 DEF Macro
<1>4. CASE v.op = "SDPA"
  <2>1. w.op = "SDPA"  BY <1>1, <1>4, MacroTable
  <2> QED  BY <1>1, <1>4, <2>1 DEF Macro
<1>5. CASE v.op \in {"GeGLU", "KVLoad", "KVStore", "RMSNorm", "ROPE", "ResidualAdd"}
  <2>1. w.op = MacroOp[v.op]  BY <1>1, <1>5
  <2>2. v.op \in DOMAIN CanonicalOpcode /\ w.op = CanonicalOpcode[v.op]
    BY <1>5, <2>1, MacroTable DEF CanonicalOpcode
  <2>3. w.op \notin {"GEMM", "SDPA"}  BY <1>5, <2>1, MacroTable
  <2>4. Macro(w) = w.op  BY <2>3 DEF Macro
  <2> QED  BY <2>2, <2>4
<1>6. v.op \in DOMAIN MacroOp  BY <1>1, MacroTable
<1> QED  BY <1>2, <1>3, <1>4, <1>5, <1>6, MacroTable DEF FallbackKinds

(* Binding closes under the macro what the check closes under the operator. *)
LEMMA SameShape ==
  ASSUME LoweringInv, NEW v \in ToSet(graph), NEW w, From(w, v), Macro(w) \notin FallbackMacros,
         NEW p, NEW s
  PROVE  BoundShape(Macro(w), p, s) = BoundShape(v.op, p, s)
<1>1. \/ v.op = "Linear" /\ Macro(w) \in {"GEMM", "WDQ_GEMM", "RMSNORM_GEMM"}
      \/ v.op = "SDPA" /\ Macro(w) \in {"SDPA", "SDPA_DECODE"}
      \/ v.op \in DOMAIN CanonicalOpcode /\ Macro(w) = CanonicalOpcode[v.op]
  BY MacroFrom
<1>2. Axes(Macro(w), p, s) = Axes(v.op, p, s)
  <2> DEFINE m == Macro(w)
  <2> HIDE DEF m
  <2>1. CASE v.op = "Linear"
    <3>1. m \in {"GEMM", "WDQ_GEMM", "RMSNORM_GEMM"}  BY <1>1, <2>1 DEF m, CanonicalOpcode
    <3> QED  BY <2>1, <3>1 DEF Axes, AttentionKinds, MainPathKinds, m
  <2>2. CASE v.op = "SDPA"
    <3>1. m \in {"SDPA", "SDPA_DECODE"}  BY <1>1, <2>2 DEF m, CanonicalOpcode
    <3>2. AttentionAxes(m, p, s) = AttentionAxes("SDPA", p, s)  BY <3>1 DEF AttentionAxes
    <3> QED  BY <2>2, <3>1, <3>2 DEF Axes, AttentionKinds, MainPathKinds, m
  <2>3. CASE v.op \in {"RMSNorm", "GeGLU", "ResidualAdd"}
    <3>1. m \in {"RMSNORM", "GEGLU", "ELEM_ADD"}  BY <1>1, <2>3 DEF m, CanonicalOpcode
    <3> QED  BY <2>3, <3>1 DEF Axes, AttentionKinds, MainPathKinds, m
  <2>4. CASE v.op = "ROPE"
    <3>1. m = "ROPE"  BY <1>1, <2>4 DEF m, CanonicalOpcode
    <3> QED  BY <2>4, <3>1 DEF m
  <2>5. CASE v.op = "KVStore"
    <3>1. m = "KVSTORE"  BY <1>1, <2>5 DEF m, CanonicalOpcode
    <3>2. HeadAxis("KVSTORE", p, s) = HeadAxis("KVStore", p, s)  BY DEF HeadAxis
    <3>3. AttentionAxes("KVSTORE", p, s) = AttentionAxes("KVStore", p, s)  BY <3>2 DEF AttentionAxes
    <3> QED  BY <2>5, <3>1, <3>3 DEF Axes, AttentionKinds, MainPathKinds, m
  <2>6. CASE v.op = "KVLoad"
    <3>1. m = "KVLOAD"  BY <1>1, <2>6 DEF m, CanonicalOpcode
    <3>2. HeadAxis("KVLOAD", p, s) = HeadAxis("KVLoad", p, s)  BY DEF HeadAxis
    <3>3. AttentionAxes("KVLOAD", p, s) = AttentionAxes("KVLoad", p, s)  BY <3>2 DEF AttentionAxes
    <3> QED  BY <2>6, <3>1, <3>3 DEF Axes, AttentionKinds, MainPathKinds, m
  <2> QED  BY <1>1, <2>1, <2>2, <2>3, <2>4, <2>5, <2>6 DEF CanonicalOpcode
<1> QED  BY <1>2 DEF BoundShape

(* What the rest of a binding is, without its attention payload. *)
LEMMA BindingFields ==
  ASSUME NEW w
  PROVE  /\ Binding(w).id = w.id /\ Binding(w).macro = Macro(w)
         /\ Binding(w).shape = BoundShape(Macro(w), payload[w.id], scenario)
         /\ Binding(w).layout = CanonicalLayout(Macro(w), Layout(w), scenario)
         /\ Binding(w).quant = BoundQuant(w)
BY DEF Binding

(* A binding is that of a node without an issue, if the graph is legal. *)
LEMMA BoundFrom ==
  ASSUME LegalityInv, Legal, NEW n \in DOMAIN bound
  PROVE  \E v \in ToSet(graph) : \E w : /\ From(w, v) /\ NodeIssues(v) = {}
                                          /\ bound[n] = Binding(w)
<1>1. n \in DOMAIN lowered /\ bound[n] = Binding(lowered[n])  BY DEF LegalityInv, BindingInv
<1>2. PICK m \in DOMAIN graph : From(lowered[n], graph[m])
  BY <1>1 DEF LegalityInv, LoweringInv
<1>3. NodeIssues(graph[m]) = {}
  <2>1. m \in 1..checked  BY GraphTyped DEF LegalityInv, Legal
  <2> QED  BY <2>1 DEF LegalityInv, CheckInv, Legal
<1>4. graph[m] \in ToSet(graph)  BY DEF ToSet
<1> QED  BY <1>1, <1>2, <1>3, <1>4

-----------------------------------------------------------------------------
(* The properties.                                                         *)

(* ShapesClose: no dimension of a legal graph is open after binding, and binding closes
   it as the check did, fused or not. *)
THEOREM ShapesClosed == Spec => []ShapesClose
<1>1. LegalityInv => ShapesClose
  <2> SUFFICES ASSUME LegalityInv, Legal, NEW n \in DOMAIN bound,
                      bound[n].macro \notin FallbackMacros
               PROVE  /\ Closed(bound[n].shape)
                      /\ \E v \in ToSet(graph) :
                           /\ v.id = bound[n].id
                           /\ bound[n].shape = BoundShape(v.op, payload[v.id], scenario)
    BY DEF ShapesClose
  <2>1. PICK v, w : v \in ToSet(graph) /\ From(w, v) /\ NodeIssues(v) = {} /\ bound[n] = Binding(w)
    BY BoundFrom
  <2>2. w.id = v.id  BY <2>1, FromKeeps DEF LegalityInv
  <2>3. /\ bound[n].id = v.id /\ bound[n].macro = Macro(w)
        /\ bound[n].shape = BoundShape(Macro(w), payload[v.id], scenario)
    BY <2>1, <2>2, BindingFields
  <2>4. bound[n].shape = BoundShape(v.op, payload[v.id], scenario)
    BY <2>1, <2>3, SameShape DEF LegalityInv
  <2>5. v.op \notin FallbackKinds
    BY <2>1, <2>3, MacroFrom DEF LegalityInv, FallbackKinds, CanonicalOpcode
  <2>6. Closed(payload[v.id].shape) \/ Closed(BoundShape(v.op, payload[v.id], scenario))
    BY <2>1, <2>5 DEF NodeIssues, GraphIssues, When, Closeable
  <2>7. ASSUME Closed(payload[v.id].shape)
        PROVE  Closed(BoundShape(v.op, payload[v.id], scenario))
    <3>1. payload[v.id].shape \in Seq(Int)  BY <2>1, GraphTyped DEF LegalityInv
    <3>2. \A i \in DOMAIN payload[v.id].shape : ~ payload[v.id].shape[i] < 0
      BY <2>7, <3>1 DEF Closed
    <3> QED  BY <2>7, <3>2 DEF Closed, BoundShape
  <2> QED  BY <2>1, <2>3, <2>4, <2>6, <2>7
<1> QED  BY <1>1, LegalityInvariant, PTL

(* OpcodesEnabled: legality asks for the opcode that the lowering chooses, whatever the
   graph, the target and the scenario. *)
THEOREM OpcodesAvailable == Spec => []OpcodesEnabled
<1>1. LegalityInv => OpcodesEnabled
  <2> SUFFICES ASSUME LegalityInv, Legal, target # NoTarget, NEW n \in DOMAIN bound
               PROVE  \/ bound[n].macro \in target.opcodes \cup {"RMSNORM_GEMM"}
                      \/ /\ bound[n].macro = "GEMM" /\ "WDQ_GEMM" \in target.opcodes
                         /\ Weights(payload[bound[n].id]) = "nf4"
    BY DEF OpcodesEnabled
  <2>1. PICK v, w : v \in ToSet(graph) /\ From(w, v) /\ NodeIssues(v) = {} /\ bound[n] = Binding(w)
    BY BoundFrom
  <2>2. bound[n].id = v.id /\ bound[n].macro = Macro(w)
    BY <2>1, FromKeeps, BindingFields DEF LegalityInv
  <2>3. v.op \notin FallbackKinds /\ RequiredOpcodes(v) \subseteq target.opcodes
    BY <2>1 DEF NodeIssues, TargetIssues, When
  <2>4. CASE v.op = "Linear"
    <3>1. (IF Weights(payload[v.id]) \in QuantizedWeights THEN "WDQ_GEMM" ELSE "GEMM")
            \in target.opcodes
      <4>1. RequiredOpcodes(v) =
              {IF Weights(payload[v.id]) \in QuantizedWeights THEN "WDQ_GEMM" ELSE "GEMM"}
        BY <2>4 DEF RequiredOpcodes, CanonicalOpcode
      <4> QED  BY <2>3, <4>1
    <3>2. \/ Macro(w) = "RMSNORM_GEMM"
          \/ Macro(w) = IF Weights(payload[v.id]) \in {"int4", "uint4"} THEN "WDQ_GEMM" ELSE "GEMM"
      BY <2>1, <2>4, MacroFrom DEF LegalityInv, FallbackKinds, CanonicalOpcode
    <3> QED  BY <2>2, <3>1, <3>2 DEF QuantizedWeights
  <2>5. CASE v.op = "SDPA"
    <3>1. Macro(w) = IF IF scenario = NoScenario THEN payload[v.id].queryLen = 1
                        ELSE scenario.mode = "decode"
                     THEN "SDPA_DECODE" ELSE "SDPA"
      BY <2>1, <2>5, MacroFrom DEF LegalityInv, FallbackKinds, CanonicalOpcode
    <3> DEFINE m == Macro(w)
    <3> HIDE DEF m
    <3>2. RequiredOpcodes(v) = {m}  BY <2>5, <3>1 DEF RequiredOpcodes, CanonicalOpcode, m
    <3> QED  BY <2>2, <2>3, <3>2 DEF m
  <2>6. CASE v.op \notin {"Linear", "SDPA"}
    <3>1. v.op \in DOMAIN CanonicalOpcode /\ Macro(w) = CanonicalOpcode[v.op]
      BY <2>1, <2>3, <2>6, MacroFrom DEF LegalityInv
    <3>2. RequiredOpcodes(v) = {Macro(w)}  BY <2>6, <3>1 DEF RequiredOpcodes
    <3> QED  BY <2>2, <2>3, <3>2
  <2> QED  BY <2>4, <2>5, <2>6
<1> QED  BY <1>1, LegalityInvariant, PTL

(* QuantHonoured: the contract that binding gives a legal quantised Linear is complete and
   one the target knows, and only a group legality does not ask for stops the lowering. *)
THEOREM QuantKept == Spec => []QuantHonoured
<1>1. LegalityInv /\ Legal /\ outcome = "invalid" =>
        \E v \in ToSet(graph) : v.op = "Linear" /\ ~ IsQuantized(v) /\ Group(v) <= 0
  <2> SUFFICES ASSUME LegalityInv, Legal, NEW v \in ToSet(graph), v.op = "Linear",
                      Group(v) <= 0, IsQuantized(v)
               PROVE  FALSE
    BY DEF LegalityInv, LoweringInv
  <2>1. PICK m \in DOMAIN graph : v = graph[m]  BY DEF ToSet
  <2>2. m \in 1..checked  BY GraphTyped DEF LegalityInv, Legal
  <2>3. GraphQuantIssues(v) = {}
    BY <2>1, <2>2 DEF LegalityInv, CheckInv, Legal, NodeIssues, GraphIssues
  <2> QED  BY <2>3 DEF GraphQuantIssues, Group
<1>2. ASSUME LegalityInv, Legal, NEW n \in DOMAIN bound,
             IsGemm(bound[n].macro), payload[bound[n].id].weights \in QuantizedWeights
      PROVE  LET p == payload[bound[n].id] IN
             /\ bound[n].macro = "GEMM" => p.weights = "nf4"
             /\ bound[n].quant.mode = "per-group"
             /\ bound[n].quant.scale /\ bound[n].quant.aligned
             /\ target # NoTarget => /\ target.wdq /\ p.weights = target.weights
                                     /\ p.group \in target.groups \cap target.wdqGroups
  <2>1. PICK v, w : v \in ToSet(graph) /\ From(w, v) /\ NodeIssues(v) = {} /\ bound[n] = Binding(w)
    BY <1>2, BoundFrom
  <2> DEFINE p == payload[v.id]
  <2>2. /\ w.id = v.id /\ bound[n].id = v.id /\ bound[n].macro = Macro(w)
        /\ bound[n].quant = BoundQuant(w)
    BY <1>2, <2>1, FromKeeps, BindingFields DEF LegalityInv
  <2>3. v.op = "Linear"
    <3>1. Macro(w) \in {"GEMM", "WDQ_GEMM", "RMSNORM_GEMM"}  BY <1>2, <2>2 DEF IsGemm
    <3>2. \/ v.op \notin FallbackKinds /\ v.op # "SDPA" /\ v.op \notin DOMAIN CanonicalOpcode
          \/ v.op = "Linear"
      BY <1>2, <2>1, <3>1, MacroFrom DEF LegalityInv, FallbackMacros, CanonicalOpcode
    <3> QED  BY <1>2, <2>1, <3>2, MacroFrom DEF LegalityInv
  <2>4. /\ p.weights \in QuantizedWeights /\ IsQuantized(v)
        /\ p.weights # NoWeights => Weights(p) = p.weights
    BY <1>2, <2>2, <2>3 DEF IsQuantized, Weights
  <2>5. GraphQuantIssues(v) = {}  BY <2>1, <2>4 DEF NodeIssues, GraphIssues
  <2>6. /\ p.group # NoGroup /\ Aligned(p.group, KTileSize) /\ Len(v.inputs) >= 3
    BY <2>5 DEF GraphQuantIssues, When
  <2>7. bound[n].macro = "GEMM" => p.weights = "nf4"
    <3>1. \/ Macro(w) = "RMSNORM_GEMM"
          \/ Macro(w) = IF Weights(p) \in {"int4", "uint4"} THEN "WDQ_GEMM" ELSE "GEMM"
      BY <1>2, <2>1, <2>3, MacroFrom DEF LegalityInv, FallbackKinds, CanonicalOpcode
    <3> QED  BY <2>2, <2>4, <3>1, AbsentAssumption DEF QuantizedWeights
  <2>8. /\ BoundQuant(w).mode = "per-group" /\ BoundQuant(w).scale
        /\ BoundQuant(w).aligned
    <3>1. IsGemm(Macro(w)) /\ payload[w.id] = p  BY <1>2, <2>2
    <3>2. Weights(p) \in QuantizedWeights  BY <2>4, AbsentAssumption
    <3>3. Len(w.inputs) >= 3
      <4>1. w \in GraphNode /\ v \in GraphNode /\ (w.inputs = v.inputs \/ Len(w.inputs) >= Len(v.inputs))
        BY <1>2, <2>1, FromKeeps, GraphTyped DEF LegalityInv
      <4>2. Len(w.inputs) \in Nat /\ Len(v.inputs) \in Nat  BY <4>1 DEF GraphNode
      <4> QED  BY <2>6, <4>1, <4>2
    <3>4. Group(w) = p.group  BY <2>6, <3>1 DEF Group
    <3>5. BoundAligned(p.group, KTileSize)  BY <2>6 DEF Aligned, BoundAligned
    <3> QED  BY <3>1, <3>2, <3>3, <3>4, <3>5 DEF BoundQuant
  <2>9. ASSUME target # NoTarget
        PROVE  /\ target.wdq /\ p.weights = target.weights
               /\ p.group \in target.groups \cap target.wdqGroups
    <3>1. TargetQuantIssues(v) = {}
      BY <2>1, <2>3, <2>4, <2>9 DEF NodeIssues, TargetIssues, FallbackKinds
    <3> QED  BY <2>6, <3>1 DEF TargetQuantIssues, When
  <2> QED  BY <2>2, <2>7, <2>8, <2>9
<1>3. LegalityInv => QuantHonoured  BY <1>1, <1>2 DEF QuantHonoured
<1> QED  BY <1>3, LegalityInvariant, PTL

(* CacheHonoured: what a legal graph stores in a cache and loads from it has the dtype and
   the layout of the target's cache. *)
THEOREM CacheKept == Spec => []CacheHonoured
<1>1. ASSUME LegalityInv, Legal, target # NoTarget, NEW n \in DOMAIN bound,
             bound[n].macro \in {"KVSTORE", "KVLOAD"}
      PROVE  LET p == payload[bound[n].id] IN
             /\ p.dtype = target.kvDtype
             /\ scenario # NoScenario \/ p.layout # NoLayout =>
                  \/ bound[n].layout = target.kvLayout
                  \/ bound[n].layout = "BHSD" /\ target.kvLayout = "LBHSD"
  <2>1. PICK v, w : v \in ToSet(graph) /\ From(w, v) /\ NodeIssues(v) = {} /\ bound[n] = Binding(w)
    BY <1>1, BoundFrom
  <2> DEFINE p == payload[v.id]
  <2>2. /\ w.id = v.id /\ bound[n].id = v.id /\ bound[n].macro = Macro(w)
        /\ bound[n].layout = CanonicalLayout(Macro(w), Layout(w), scenario)
    BY <1>1, <2>1, FromKeeps, BindingFields DEF LegalityInv
  <2>3. v.op \in {"KVStore", "KVLoad"}
    BY <1>1, <2>1, <2>2, MacroFrom DEF LegalityInv, FallbackMacros, CanonicalOpcode
  <2>4. v.inputs # <<>>  BY <1>1, <2>1, <2>3, GraphTyped DEF LegalityInv
  <2>5. KvIssues(v) = {}
    BY <1>1, <2>1, <2>3 DEF NodeIssues, TargetIssues, FallbackKinds
  <2>6. p.dtype = target.kvDtype  BY <2>5 DEF KvIssues, When
  <2>7. CASE scenario # NoScenario
    <3>1. CanonicalLayout(v.op, IF p.layout = NoLayout THEN "BHSD" ELSE p.layout, scenario) = "BHSD"
      BY <2>3, <2>7 DEF CanonicalLayout, AttentionKinds
    <3>2. CanonicalLayout(Macro(w), Layout(w), scenario) = "BHSD"
      BY <1>1, <2>2, <2>7 DEF CanonicalLayout, AttentionKinds
    <3>3. target.kvLayout = "BHSD" \/ target.kvLayout = "LBHSD"
      BY <2>4, <2>5, <2>7, <3>1 DEF KvIssues, When
    <3> QED  BY <2>2, <2>6, <3>2, <3>3
  <2>8. CASE scenario = NoScenario /\ p.layout # NoLayout
    <3>1. CanonicalLayout(Macro(w), Layout(w), scenario) = p.layout
      BY <2>2, <2>8 DEF CanonicalLayout, Layout
    <3>2. p.layout = target.kvLayout
      BY <2>4, <2>5, <2>8 DEF KvIssues, When, CanonicalLayout
    <3> QED  BY <2>2, <2>6, <3>1, <3>2
  <2> QED  BY <2>2, <2>6, <2>7, <2>8
<1>2. LegalityInv => CacheHonoured  BY <1>1 DEF CacheHonoured
<1> QED  BY <1>2, LegalityInvariant, PTL
=============================================================================
