---------------------------- MODULE DualCoreProofs ----------------------------
(***************************************************************************)
(* What plan_dual_core_schedule plans is what the list scheduler takes for *)
(* granted of its blocks, so that its theorems are about the schedules of  *)
(* bound NIGIRs of any size; and said of nodes and tensors they are the    *)
(* properties of DualCoreSchedule.                                         *)
(***************************************************************************)
EXTENDS DualCoreSchedule, ListSchedulerProofs, StageWindowsProofs

-----------------------------------------------------------------------------
(* Stages and blocks.                                                      *)

StageSet == [name : StageNames, units : (SUBSET Units) \ {{}}]

(* Whatever the macro, its stages have one of the four names and some units. *)
LEMMA StagesWell ==
  ASSUME NEW macro
  PROVE  NodeStages(macro) \in Seq(StageSet)
<1>1. \A u \in (SUBSET Units) \ {{}} : \A s \in StageNames : Stage(s, u) \in StageSet
  BY DEF Stage, StageSet
<1>2. /\ {"DMA"} \in (SUBSET Units) \ {{}} /\ {"VPU"} \in (SUBSET Units) \ {{}}
      /\ \A u \in {"MXU", "DMA"} : {u, "VPU"} \in (SUBSET Units) \ {{}}
  BY DEF Units
<1>3. CASE macro \in DOMAIN GemmComputeResources
  <2>1. GemmComputeResources[macro] \in (SUBSET Units) \ {{}}  BY <1>3, PolicyAssumption
  <2>2. NodeStages(macro) = << Stage("dma_in", {"DMA"}),
                               Stage("compute", GemmComputeResources[macro]),
                               Stage("store", {"DMA"}) >>
    BY <1>3 DEF NodeStages
  <2>3. /\ Stage("dma_in", {"DMA"}) \in StageSet /\ Stage("store", {"DMA"}) \in StageSet
        /\ Stage("compute", GemmComputeResources[macro]) \in StageSet
    BY <1>1, <1>2, <2>1 DEF StageNames
  <2> QED  BY <2>2, <2>3
<1>4. CASE macro \notin DOMAIN GemmComputeResources /\ macro \in {"SDPA", "SDPA_DECODE"}
  <2> DEFINE u == IF macro = "SDPA" THEN "MXU" ELSE "DMA"
  <2>1. NodeStages(macro) = << Stage("dma_in", {"DMA"}), Stage("prepare", {"VPU"}),
                               Stage("compute", {u, "VPU"}), Stage("store", {"DMA"}) >>
    BY <1>4 DEF NodeStages
  <2>2. /\ Stage("dma_in", {"DMA"}) \in StageSet /\ Stage("store", {"DMA"}) \in StageSet
        /\ Stage("prepare", {"VPU"}) \in StageSet /\ Stage("compute", {u, "VPU"}) \in StageSet
    BY <1>1, <1>2 DEF StageNames
  <2> QED  BY <2>1, <2>2
<1>5. CASE /\ macro \notin DOMAIN GemmComputeResources \cup {"SDPA", "SDPA_DECODE"}
           /\ macro \in DOMAIN StagePolicies
  <2>1. NodeStages(macro) = StagePolicies[macro]  BY <1>5 DEF NodeStages
  <2> QED  BY <2>1, <1>5, PolicyAssumption DEF StageSet
<1>6. CASE macro \notin DOMAIN GemmComputeResources \cup {"SDPA", "SDPA_DECODE"}
                          \cup DOMAIN StagePolicies
  BY <1>6 DEF NodeStages
<1> QED  BY <1>3, <1>4, <1>5, <1>6

(* A stage block is a place in the stages of a node that gets blocks. *)
LEMMA StageBlockIs ==
  ASSUME NEW g, IsBoundNig(g), NEW b \in StageBlocks(g)
  PROVE  /\ b = <<b[1], b[2], 0>> /\ b[1] \in ScheduledNodes(g) /\ b[1] \in Nat \ {0}
         /\ b[2] \in DOMAIN NodeStages(g.nodes[b[1]].macro) /\ b[2] \in Nat \ {0}
         /\ ~ IsTransferBlock(b) /\ StageOf(g, b) \in StageSet
<1>1. PICK n \in ScheduledNodes(g) :
        \E k \in DOMAIN NodeStages(g.nodes[n].macro) : b = <<n, k, 0>>
  BY DEF StageBlocks
<1>6. PICK k \in DOMAIN NodeStages(g.nodes[n].macro) : b = <<n, k, 0>>
  BY <1>1
<1>2. NodeStages(g.nodes[n].macro) \in Seq(StageSet)  BY StagesWell
<1>3. n \in Nat \ {0}  BY DEF ScheduledNodes, IsBoundNig
<1>4. k \in Nat \ {0} /\ NodeStages(g.nodes[n].macro)[k] \in StageSet  BY <1>2
<1> QED  BY <1>3, <1>4, <1>6 DEF IsTransferBlock, StageOf

(* A transfer is between a node and one of its producers, on the other core. *)
LEMMA TransferBlockIs ==
  ASSUME NEW g, IsBoundNig(g), NEW b \in TransferBlocks(g)
  PROVE  /\ b = <<b[1], 0, b[3]>> /\ b[1] \in ScheduledNodes(g) /\ b[1] \in Nat \ {0}
         /\ b[3] \in Producers(g, b[1]) /\ b[3] \in ScheduledNodes(g) /\ b[3] \in Nat \ {0}
         /\ IsTransferBlock(b)
<1>1. PICK c \in ScheduledNodes(g) :
        \E p \in Producers(g, c) : CoreOf(g, p) # CoreOf(g, c) /\ b = <<c, 0, p>>
  BY DEF TransferBlocks
<1>2. PICK p \in Producers(g, c) : b = <<c, 0, p>>  BY <1>1
<1>3. p \in ScheduledNodes(g)  BY DEF Producers
<1>4. c \in Nat \ {0} /\ p \in Nat \ {0}  BY <1>3 DEF ScheduledNodes, IsBoundNig
<1> QED  BY <1>2, <1>3, <1>4 DEF IsTransferBlock

(* The last stage of a node that gets blocks is a block. *)
LEMMA TerminalIsBlock ==
  ASSUME NEW g, NEW n \in ScheduledNodes(g)
  PROVE  TerminalBlock(g, n) \in StageBlocks(g)
<1>1. NodeStages(g.nodes[n].macro) \in Seq(StageSet)  BY StagesWell
<1>2. NodeStages(g.nodes[n].macro) # <<>>  BY DEF ScheduledNodes
<1>3. Len(NodeStages(g.nodes[n].macro)) \in DOMAIN NodeStages(g.nodes[n].macro)
  BY <1>1, <1>2
<1> QED  BY <1>3 DEF StageBlocks, TerminalBlock

(* What a node waits for are blocks. *)
LEMMA InputBlocksAre ==
  ASSUME NEW g, NEW c \in ScheduledNodes(g)
  PROVE  InputBlocks(g, c) \subseteq StageBlocks(g) \cup TransferBlocks(g)
<1> SUFFICES ASSUME NEW p \in Producers(g, c)
             PROVE  (IF CoreOf(g, p) = CoreOf(g, c) THEN TerminalBlock(g, p) ELSE <<c, 0, p>>)
                      \in StageBlocks(g) \cup TransferBlocks(g)
  BY DEF InputBlocks
<1>1. p \in ScheduledNodes(g)  BY DEF Producers
<1>2. CASE CoreOf(g, p) = CoreOf(g, c)  BY <1>1, <1>2, TerminalIsBlock
<1>3. CASE CoreOf(g, p) # CoreOf(g, c)  BY <1>3 DEF TransferBlocks
<1> QED  BY <1>2, <1>3

-----------------------------------------------------------------------------
(* Planning hands over well-formed blocks.                                 *)

(* The image of a finite set under a function is finite. *)
LEMMA ImageIsFinite ==
  ASSUME NEW S, IsFiniteSet(S), NEW f, DOMAIN f = S
  PROVE  IsFiniteSet({f[x] : x \in S})
<1> DEFINE T == {f[x] : x \in S}
           g == [x \in S |-> f[x]]
<1>1. g \in [S -> T] /\ \A t \in T : \E x \in S : g[x] = t
  OBVIOUS
<1>2. g \in Surjection(S, T)  BY <1>1 DEF Surjection
<1> QED  BY <1>2, FS_Surjection

(* A NIGIR has finitely many blocks. *)
LEMMA BlocksFinite ==
  ASSUME NEW g, IsBoundNig(g)
  PROVE  IsFiniteSet(StageBlocks(g) \cup TransferBlocks(g))
<1> DEFINE N == ScheduledNodes(g)
           StagesOf(n) == DOMAIN NodeStages(g.nodes[n].macro)
<1>1. IsFiniteSet(N)  BY FS_Subset DEF IsBoundNig, ScheduledNodes
<1>2. \A n : IsFiniteSet(StagesOf(n))
  <2> TAKE n
  <2>1. NodeStages(g.nodes[n].macro) \in Seq(StageSet)  BY StagesWell
  <2>2. StagesOf(n) = 1..Len(NodeStages(g.nodes[n].macro))  BY <2>1
  <2> QED  BY <2>1, <2>2, FS_Interval
<1>3. IsFiniteSet(StageBlocks(g))
  <2> DEFINE blocksOf == [n \in N |-> {<<n, k, 0>> : k \in StagesOf(n)}]
  <2>1. \A n \in N : IsFiniteSet(blocksOf[n])
    <3> TAKE n \in N
    <3> DEFINE f == [k \in StagesOf(n) |-> <<n, k, 0>>]
    <3> HIDE DEF StagesOf
    <3>1. blocksOf[n] = {f[k] : k \in StagesOf(n)} /\ DOMAIN f = StagesOf(n)  OBVIOUS
    <3> HIDE DEF f, blocksOf
    <3> QED  BY <3>1, <1>2, ImageIsFinite
  <2>2. IsFiniteSet({blocksOf[n] : n \in N})  BY <1>1, ImageIsFinite
  <2>3. IsFiniteSet(UNION {blocksOf[n] : n \in N})  BY <2>1, <2>2, FS_UNION
  <2>4. StageBlocks(g) = UNION {blocksOf[n] : n \in N}  BY DEF StageBlocks
  <2> QED  BY <2>3, <2>4
<1>4. IsFiniteSet(TransferBlocks(g))
  <2> DEFINE f == [x \in N \X N |-> <<x[1], 0, x[2]>>]
             T == {f[x] : x \in N \X N}
  <2>1. IsFiniteSet(N \X N)  BY <1>1, FS_Product
  <2>2. IsFiniteSet(T)
    <3>1. DOMAIN f = N \X N  OBVIOUS
    <3> HIDE DEF f
    <3> QED  BY <2>1, <3>1, ImageIsFinite
  <2>3. TransferBlocks(g) \subseteq T
    <3> SUFFICES ASSUME NEW b \in TransferBlocks(g) PROVE b \in T
      OBVIOUS
    <3>1. b = <<b[1], 0, b[3]>> /\ b[1] \in N /\ b[3] \in N  BY TransferBlockIs
    <3>2. <<b[1], b[3]>> \in N \X N /\ b = f[<<b[1], b[3]>>]  BY <3>1
    <3> QED  BY <3>2
  <2> QED  BY <2>2, <2>3, FS_Subset
<1> QED  BY <1>3, <1>4, FS_Union

(* A block takes some slots, its windows divide them, and each is of a known unit. *)
LEMMA BlockDivides ==
  ASSUME NEW g, IsBoundNig(g), NEW b \in StageBlocks(g) \cup TransferBlocks(g)
  PROVE  /\ BlockDuration(g, b) \in Nat \ {0}
         /\ Divides(BlockWindows(g, b), BlockDuration(g, b))
         /\ \A h \in BlockWindows(g, b) :
              h = Hold(h.res, h.off, h.len) /\ h.res \in SharedUnits \cup Units
<1>1. CASE b \in StageBlocks(g)
  <2> DEFINE v == g.nodes[b[1]]
             s == StageOf(g, b)
  <2>1. ~ IsTransferBlock(b) /\ s \in StageSet /\ b[1] \in ScheduledNodes(g)
    BY <1>1, StageBlockIs
  <2>3. s.name \in StageNames /\ s.units # {} /\ s.units \subseteq Units
    BY <2>1 DEF StageSet
  <2>2. IsCost(CostOf(g, b))  BY <2>1, <2>3 DEF ScheduledNodes, IsBoundNig, CostOf
  <2>4. BlockDuration(g, b) = DurationSlots(v.macro, s.name, CostOf(g, b))
    BY <2>1 DEF BlockDuration
  <2>5. BlockWindows(g, b) =
          StageReservations(v.macro, s.name, s.units, BlockDuration(g, b), CostOf(g, b))
    BY <2>1 DEF BlockWindows
  <2>6. BlockDuration(g, b) \in Nat \ {0}  BY <2>2, <2>3, <2>4, DurationPositive
  <2>7. Divides(BlockWindows(g, b), BlockDuration(g, b))
    BY <2>2, <2>3, <2>4, <2>5, <2>6, StageDivides
  <2>8. \A h \in BlockWindows(g, b) :
          h = Hold(h.res, h.off, h.len) /\ h.res \in s.units \cup {"VPU", "MXU", "DMA", "WDQ"}
    BY <2>5, WindowsHold
  <2> QED  BY <2>3, <2>6, <2>7, <2>8 DEF Units
<1>2. CASE b \in TransferBlocks(g)
  <2> DEFINE units == {IF g.core_link THEN "Core Link" ELSE "DMA"}
             send == g.nodes[b[3]].send
  <2>1. IsTransferBlock(b) /\ b[3] \in ScheduledNodes(g)  BY <1>2, TransferBlockIs
  <2>2. send \in Nat \ {0} /\ g.sync \in Nat  BY <2>1 DEF ScheduledNodes, IsBoundNig
  <2>3. BlockDuration(g, b) = TransferSlots(send, g.sync)  BY <2>1 DEF BlockDuration
  <2>4. BlockWindows(g, b) = TransferReservations(units, BlockDuration(g, b), g.sync)
    BY <2>1 DEF BlockWindows
  <2>5. units # {} /\ "SYNC" \notin units /\ units \subseteq SharedUnits  BY DEF SharedUnits
  <2> HIDE DEF units, send
  <2>6. /\ BlockDuration(g, b) \in Nat \ {0}
        /\ Divides(BlockWindows(g, b), BlockDuration(g, b))
    <3>1. /\ TransferSlots(send, g.sync) \in Nat \ {0}
          /\ Divides(TransferReservations(units, TransferSlots(send, g.sync), g.sync),
                     TransferSlots(send, g.sync))
      BY <2>2, <2>5, TransferDivides
    <3> QED  BY <2>3, <2>4, <3>1
  <2>7. \A h \in BlockWindows(g, b) :
          h = Hold(h.res, h.off, h.len) /\ h.res \in units \cup {"SYNC"}
    BY <2>4, TransferWindowsHold
  <2> QED  BY <2>5, <2>6, <2>7 DEF SharedUnits
<1> QED  BY <1>1, <1>2

(* The requests of a block are its windows, under the name of a unit of one core or of
   both, and do not collide. *)
LEMMA RequestsWell ==
  ASSUME NEW g, IsBoundNig(g), NEW b \in StageBlocks(g) \cup TransferBlocks(g)
  PROVE  /\ BlockRequests(g, b) \subseteq Request
         /\ SelfConsistent(BlockRequests(g, b))
<1> DEFINE W == BlockWindows(g, b)
           core == BlockCore(g, b)
           Named(h) == [h EXCEPT !.res = MapResourceName(core, h.res)]
<1>1. \A h \in W : h = Hold(h.res, h.off, h.len) /\ h.res \in SharedUnits \cup Units
                  /\ h.off \in Nat /\ h.len \in Nat \ {0}
  BY BlockDivides DEF Divides, Within
<1>2. \A h \in W : /\ Named(h).res = MapResourceName(core, h.res)
                   /\ Named(h).off = h.off /\ Named(h).len = h.len
                   /\ Named(h) = [res |-> MapResourceName(core, h.res), off |-> h.off, len |-> h.len]
  BY <1>1 DEF Hold
<1>3. \A u \in SharedUnits \cup Units : MapResourceName(core, u) \in Resource
  BY ResourceAssumption DEF MapResourceName
<1>4. \A u, w : MapResourceName(core, u) = MapResourceName(core, w) => u = w
  BY DEF MapResourceName
<1>5. BlockRequests(g, b) = {Named(h) : h \in W}  BY DEF BlockRequests
<1>6. BlockRequests(g, b) \subseteq Request
  <2> SUFFICES ASSUME NEW h \in W PROVE Named(h) \in Request
    BY <1>5
  <2>1. MapResourceName(core, h.res) \in Resource /\ h.off \in Nat /\ h.len \in Nat
    BY <1>1, <1>3
  <2>2. Named(h) = [res |-> MapResourceName(core, h.res), off |-> h.off, len |-> h.len]
    BY <1>2
  <2> QED  BY <2>1, <2>2 DEF Request
<1>7. SelfConsistent(BlockRequests(g, b))
  <2> SUFFICES ASSUME NEW h \in W, NEW k \in W, Named(h) # Named(k), Named(h).res = Named(k).res
               PROVE ~ Overlap(Named(h).off, Named(h).off + Named(h).len,
                               Named(k).off, Named(k).off + Named(k).len)
    BY <1>5 DEF SelfConsistent
  <2>1. h # k /\ h.res = k.res  BY <1>2, <1>4
  <2>2. h.off + h.len <= k.off \/ k.off + k.len <= h.off
    BY <2>1, BlockDivides DEF Divides, Apart
  <2> QED  BY <1>1, <1>2, <2>2 DEF Overlap
<1> QED  BY <1>6, <1>7

(* The heap's tie-break tells any two blocks apart, and says how many are below. *)
LEMMA RanksDiffer ==
  ASSUME NEW g, IsBoundNig(g)
  PROVE  LET B == StageBlocks(g) \cup TransferBlocks(g)
             Rank(b) == Cardinality({a \in B : RanksBelow(a, b)})
         IN  \A a, b \in B : Rank(a) \in Nat /\ (Rank(a) = Rank(b) => a = b)
<1> DEFINE B == StageBlocks(g) \cup TransferBlocks(g)
           Below(b) == {a \in B : RanksBelow(a, b)}
<1>1. \A b \in B : b = <<b[1], b[2], b[3]>> /\ b[1] \in Nat /\ b[2] \in Nat /\ b[3] \in Nat
  BY StageBlockIs, TransferBlockIs
<1>2. IsFiniteSet(B)  BY BlocksFinite
<1>3. \A b : IsFiniteSet(Below(b)) /\ Cardinality(Below(b)) \in Nat
  BY <1>2, FS_Subset, FS_CardinalityType
<1>4. ASSUME NEW a \in B, NEW b \in B, RanksBelow(a, b)
      PROVE Cardinality(Below(a)) # Cardinality(Below(b))
  <2>1. \A c \in B : RanksBelow(c, a) => RanksBelow(c, b)  BY <1>1, <1>4 DEF RanksBelow
  <2>2. ~ RanksBelow(a, a)  BY <1>1 DEF RanksBelow
  <2>3. Below(a) \subseteq Below(b) /\ a \in Below(b) /\ a \notin Below(a)
    BY <1>4, <2>1, <2>2
  <2> HIDE DEF Below
  <2> QED  BY <1>3, <2>3, FS_Subset
<1>5. ASSUME NEW a \in B, NEW b \in B, a # b PROVE RanksBelow(a, b) \/ RanksBelow(b, a)
  BY <1>1, <1>5 DEF RanksBelow
<1> QED  BY <1>3, <1>4, <1>5

(* The blocks that _build_pending_blocks makes of a bound NIGIR are what the list scheduler
   takes for granted: their dependencies are among them, they take time, their windows do
   not collide, and the heap can tell them apart. *)
THEOREM PlannedWell ==
  ASSUME NEW g, IsBoundNig(g)
  PROVE  WellFormed(PendingJob(g))
<1> DEFINE B == StageBlocks(g) \cup TransferBlocks(g)
           j == PendingJob(g)
           Depends(b) == IF IsTransferBlock(b) THEN TransferDependencies(g, b)
                         ELSE StageDependencies(g, b)
           Rank(b) == Cardinality({a \in B : RanksBelow(a, b)})
<1>1. /\ j.blocks = B
      /\ j.depends = [b \in B |-> Depends(b)]
      /\ j.duration = [b \in B |-> BlockDuration(g, b)]
      /\ j.requests = [b \in B |-> BlockRequests(g, b)]
      /\ j.rank = [b \in B |-> Rank(b)]
  BY DEF PendingJob
<1>2. ASSUME NEW b \in B PROVE Depends(b) \subseteq B
  <2>1. CASE b \in StageBlocks(g)
    <3>1. /\ b = <<b[1], b[2], 0>> /\ b[1] \in ScheduledNodes(g) /\ ~ IsTransferBlock(b)
          /\ b[2] \in DOMAIN NodeStages(g.nodes[b[1]].macro)
      BY <2>1, StageBlockIs
    <3>2. InputBlocks(g, b[1]) \subseteq B  BY <3>1, InputBlocksAre
    <3>3. b[2] > 1 => <<b[1], b[2] - 1, 0>> \in B
      <4>1. NodeStages(g.nodes[b[1]].macro) \in Seq(StageSet)  BY StagesWell
      <4>2. b[2] > 1 => b[2] - 1 \in DOMAIN NodeStages(g.nodes[b[1]].macro)  BY <3>1, <4>1
      <4> QED  BY <3>1, <4>2 DEF StageBlocks
    <3> QED  BY <3>1, <3>2, <3>3 DEF StageDependencies
  <2>2. CASE b \in TransferBlocks(g)
    BY <2>2, TransferBlockIs, TerminalIsBlock DEF TransferDependencies
  <2> QED  BY <2>1, <2>2
<1>3. \A b \in B : /\ BlockDuration(g, b) \in Nat \ {0} /\ BlockRequests(g, b) \subseteq Request
                   /\ SelfConsistent(BlockRequests(g, b))
  BY BlockDivides, RequestsWell
<1>4. \A a, b \in B : Rank(a) \in Nat /\ (Rank(a) = Rank(b) => a = b)
  BY RanksDiffer
<1>5. IsFiniteSet(B)  BY BlocksFinite
<1> HIDE DEF B, j, Depends, Rank
<1>6. j.depends \in [B -> SUBSET B]  BY <1>1, <1>2
<1>7. j.duration \in [B -> Nat \ {0}] /\ j.requests \in [B -> SUBSET Request]
  BY <1>1, <1>3
<1>8. j.rank \in [B -> Nat] /\ \A a, b \in B : j.rank[a] = j.rank[b] => a = b
  BY <1>1, <1>4
<1>9. \A b \in B : SelfConsistent(j.requests[b])  BY <1>1, <1>3
<1>10. WellFormed(j)  BY <1>1, <1>5, <1>6, <1>7, <1>8, <1>9 DEF WellFormed
<1> QED  BY <1>10 DEF j

-----------------------------------------------------------------------------
(* The schedules.                                                          *)

(* The job is the plan of a bound NIGIR, and stays so. *)
Planned == job \in Jobs

LEMMA AlwaysPlanned == Spec => []Planned
<1>1. Init => Planned  BY DEF Init, Planned
<1>2. Planned /\ [Next]_vars => Planned'
  BY DEF Planned, Next, Pop, Wake, Slip, PushReady, Requeue, Emit, Finish, vars
<1> QED  BY <1>1, <1>2, PTL DEF Spec

(* The parts of the job, as planning makes them. *)
LEMMA JobIs ==
  ASSUME Planned
  PROVE  /\ IsBoundNig(graph) /\ job.blocks = StageBlocks(graph) \cup TransferBlocks(graph)
         /\ \A b \in StageBlocks(graph) : job.depends[b] = StageDependencies(graph, b)
         /\ \A b \in TransferBlocks(graph) : job.depends[b] = TransferDependencies(graph, b)
         /\ \A b \in job.blocks : job.requests[b] = BlockRequests(graph, b)
<1>1. job = PendingJob(graph) /\ IsBoundNig(graph)  BY PlannedAssumption DEF Planned, graph
<1>2. \A b \in StageBlocks(graph) : ~ IsTransferBlock(b)  BY <1>1, StageBlockIs
<1>3. \A b \in TransferBlocks(graph) : IsTransferBlock(b)  BY <1>1, TransferBlockIs
<1> DEFINE g == graph
<1> HIDE DEF g
<1>4. /\ PendingJob(g).blocks = StageBlocks(g) \cup TransferBlocks(g)
      /\ PendingJob(g).depends = [b \in StageBlocks(g) \cup TransferBlocks(g) |->
                                    IF IsTransferBlock(b) THEN TransferDependencies(g, b)
                                    ELSE StageDependencies(g, b)]
      /\ PendingJob(g).requests = [b \in StageBlocks(g) \cup TransferBlocks(g) |->
                                     BlockRequests(g, b)]
  BY DEF PendingJob
<1> QED  BY <1>1, <1>2, <1>3, <1>4 DEF g

(* DataReady: a stage that computes waits for its inputs, in every schedule of any bound
   NIGIR. *)
THEOREM InputsReady == Spec => []DataReady
<1>1. Planned /\ IInv /\ Recorded /\ DependenciesFirst => DataReady
  <2> SUFFICES ASSUME Planned, IInv, Recorded, DependenciesFirst PROVE DataReady
    OBVIOUS
  <2>1. ASSUME NEW b \in Issued, NEW d \in job.depends[b] PROVE EndedBy(d, issue[b])
    <3>1. b \in job.blocks  BY DEF Issued
    <3>2. PICK i \in 1..Len(blocks) : blocks[i] = b  BY <3>1 DEF Recorded
    <3>3. (\E k \in 1..(i - 1) : blocks[k] = d) /\ EndSlot(d) <= issue[b]
      BY <3>2 DEF DependenciesFirst
    <3>4. d \in job.blocks  BY <3>1 DEF IInv, TypeOK, WellFormed
    <3>5. Len(blocks) \in Nat  BY DEF IInv, TypeOK
    <3>6. d \in Issued  BY <3>3, <3>4, <3>5 DEF Recorded
    <3> QED  BY <3>3, <3>6 DEF EndedBy
  <2> SUFFICES ASSUME NEW b \in Issued, ~ IsTransferBlock(b),
                      StageOf(graph, b).name \in {"prepare", "compute"},
                      NEW p \in Producers(graph, b[1])
               PROVE  LET stored == TerminalBlock(graph, p)
                          moved  == <<b[1], 0, p>>
                      IN  IF CoreOf(graph, p) = CoreOf(graph, b[1])
                          THEN EndedBy(stored, issue[b])
                          ELSE EndedBy(moved, issue[b]) /\ EndedBy(stored, issue[moved])
    BY DEF DataReady
  <2>2. b \in StageBlocks(graph)  BY JobIs, TransferBlockIs DEF Issued
  <2>3. InputBlocks(graph, b[1]) \subseteq job.depends[b]
    BY <2>2, JobIs DEF StageDependencies
  <2>4. CASE CoreOf(graph, p) = CoreOf(graph, b[1])
    <3>1. TerminalBlock(graph, p) \in job.depends[b]  BY <2>3, <2>4 DEF InputBlocks
    <3> QED  BY <2>1, <2>4, <3>1
  <2>5. CASE CoreOf(graph, p) # CoreOf(graph, b[1])
    <3> DEFINE moved == <<b[1], 0, p>>
    <3>1. moved \in job.depends[b]  BY <2>3, <2>5 DEF InputBlocks
    <3>2. b[1] \in ScheduledNodes(graph)  BY <2>2, JobIs, StageBlockIs
    <3>3. moved \in TransferBlocks(graph)  BY <2>5, <3>2 DEF TransferBlocks
    <3>4. job.depends[moved] = {TerminalBlock(graph, p)}
      BY <3>3, JobIs DEF TransferDependencies
    <3>5. EndedBy(moved, issue[b]) /\ moved \in Issued  BY <2>1, <3>1 DEF EndedBy
    <3>6. EndedBy(TerminalBlock(graph, p), issue[moved])  BY <2>1, <3>4, <3>5
    <3> QED  BY <2>5, <3>5, <3>6
  <2> QED  BY <2>4, <2>5
<1> QED  BY <1>1, AlwaysPlanned, Invariance, Bookkeeping, PTL

(* OneHolder: no unit is ever held by two blocks, and those that serve both cores are not
   held by one of each. *)
THEOREM HeldOnce == Spec => []OneHolder
<1>1. Planned /\ IInv => OneHolder
  <2> SUFFICES ASSUME Planned, IInv, NEW a \in Issued, NEW b \in Issued, a # b,
                      NEW h \in BlockWindows(graph, a), NEW k \in BlockWindows(graph, b),
                      h.res = k.res,
                      h.res \in SharedUnits \/ BlockCore(graph, a) = BlockCore(graph, b)
               PROVE  ~ Overlap(issue[a] + h.off, issue[a] + h.off + h.len,
                                issue[b] + k.off, issue[b] + k.off + k.len)
    BY DEF OneHolder
  <2> DEFINE q == [h EXCEPT !.res = MapResourceName(BlockCore(graph, a), h.res)]
             r == [k EXCEPT !.res = MapResourceName(BlockCore(graph, b), k.res)]
  <2>1. a \in job.blocks /\ b \in job.blocks  BY DEF Issued
  <2>2. q \in job.requests[a] /\ r \in job.requests[b]  BY <2>1, JobIs DEF BlockRequests
  <2>3. /\ h = Hold(h.res, h.off, h.len) /\ h.len \in Nat \ {0}
        /\ k = Hold(k.res, k.off, k.len) /\ k.len \in Nat \ {0}
    BY <2>1, JobIs, BlockDivides DEF Divides, Within
  <2>4. /\ q.res = MapResourceName(BlockCore(graph, a), h.res) /\ q.off = h.off /\ q.len = h.len
        /\ r.res = MapResourceName(BlockCore(graph, b), k.res) /\ r.off = k.off /\ r.len = k.len
    BY <2>3 DEF Hold
  <2>5. q.res = r.res  BY <2>4 DEF MapResourceName
  <2>6. ~ Collide(a, issue[a], b, issue[b])  BY DEF IInv, Exclusive
  <2> HIDE DEF q, r
  <2>7. q \in Live(a) /\ r \in Live(b)  BY <2>2, <2>3, <2>4 DEF Live
  <2> QED  BY <2>4, <2>5, <2>6, <2>7 DEF Collide
<1> QED  BY <1>1, AlwaysPlanned, Invariance, PTL

(* Complete: where no nodes feed on each other, nothing is missing from the schedule.  The
   nodes with a missing block would: the first of the missing stages of a node waits for
   the last stage of a producer, directly or through a transfer, and that is missing too. *)
THEOREM AllScheduled == Spec => []Complete
<1>1. Planned /\ IInv /\ NothingLost => Complete
  <2> SUFFICES ASSUME Planned, IInv, NothingLost, phase = "done", DataflowAcyclic,
                      NEW x \in job.blocks \ Issued
               PROVE  FALSE
    BY DEF Complete, Issued
  <2> DEFINE Missing == job.blocks \ Issued
             S == {n \in ScheduledNodes(graph) :
                     \E b \in Missing : b \in StageBlocks(graph) /\ b[1] = n}
  <2>1. \A b \in Missing : \E d \in job.depends[b] : d \in Missing
    BY DEF NothingLost, IInv, TypeOK, WellFormed
  <2>2. ASSUME NEW b \in TransferBlocks(graph), b \in Missing
        PROVE TerminalBlock(graph, b[3]) \in Missing
    BY <2>1, <2>2, JobIs DEF TransferDependencies
  <2>3. ASSUME NEW p \in ScheduledNodes(graph), TerminalBlock(graph, p) \in Missing PROVE p \in S
    BY <2>3, TerminalIsBlock DEF TerminalBlock
  <2>4. S # {}
    <3>1. CASE x \in StageBlocks(graph)  BY <3>1, JobIs, StageBlockIs
    <3>2. CASE x \in TransferBlocks(graph)
      BY <3>2, <2>2, <2>3, JobIs, TransferBlockIs
    <3> QED  BY <3>1, <3>2, JobIs
  <2>5. ASSUME NEW n \in S PROVE Producers(graph, n) \cap S # {}
    <3> DEFINE K == {k \in Nat : <<n, k, 0>> \in Missing /\ <<n, k, 0>> \in StageBlocks(graph)}
    <3>1. K # {} /\ K \subseteq Nat
      BY JobIs, StageBlockIs
    <3>2. PICK k \in K : \A i \in K : k <= i  BY <3>1, LeastNatural
    <3> DEFINE b == <<n, k, 0>>
    <3>3. PICK d \in StageDependencies(graph, b) : d \in Missing  BY <2>1, JobIs
    <3>4. d \in InputBlocks(graph, n)
      <4> SUFFICES ASSUME k > 1, d = <<n, k - 1, 0>> PROVE FALSE
        BY <3>3 DEF StageDependencies
      <4>1. d \in StageBlocks(graph)
        <5>1. k - 1 # 0  OBVIOUS
        <5> QED  BY <3>3, <5>1, JobIs, TransferBlockIs
      <4>2. k - 1 \in K  BY <3>3, <4>1
      <4> QED  BY <3>2, <4>2
    <3>5. PICK p \in Producers(graph, n) :
            d = IF CoreOf(graph, p) = CoreOf(graph, n) THEN TerminalBlock(graph, p) ELSE <<n, 0, p>>
      BY <3>4 DEF InputBlocks
    <3>6. p \in ScheduledNodes(graph)  BY DEF Producers
    <3>7. TerminalBlock(graph, p) \in Missing
      <4>1. CASE CoreOf(graph, p) = CoreOf(graph, n)  BY <3>3, <3>5, <4>1
      <4>2. CASE CoreOf(graph, p) # CoreOf(graph, n)
        <5>1. d = <<n, 0, p>> /\ d \in TransferBlocks(graph)
          BY <3>5, <4>2 DEF TransferBlocks
        <5> QED  BY <2>2, <3>3, <5>1
      <4> QED  BY <4>1, <4>2
    <3> QED  BY <2>3, <3>6, <3>7
  <2> HIDE DEF S
  <2>6. S \in SUBSET ScheduledNodes(graph)  BY DEF S
  <2> QED  BY <2>4, <2>5, <2>6 DEF DataflowAcyclic
<1> QED  BY <1>1, AlwaysPlanned, Invariance, NoneLost, PTL
=============================================================================
