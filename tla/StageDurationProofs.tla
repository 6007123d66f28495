------------------------- MODULE StageDurationProofs -------------------------
(***************************************************************************)
(* The state of StageDuration only holds what the two estimates gave for   *)
(* the block asked about, and so what StageWindowsProofs says of them.     *)
(***************************************************************************)
EXTENDS StageDuration, SlotCounts, StageWindowsProofs, FiniteSetTheorems

(* What the estimates give for the block asked about, and that the state holds nothing
   else. *)
DurationAsked ==
  IF IsTransfer THEN TransferSlots(asked.transport, asked.sync)
  ELSE DurationSlots(asked.macro, asked.stage, asked.cost)

WindowsAsked ==
  IF IsTransfer THEN TransferReservations(asked.units, DurationAsked, asked.sync)
  ELSE StageReservations(asked.macro, asked.stage, asked.units, DurationAsked, asked.cost)

Estimated ==
  /\ asked \in Requests \cup Transfers
  /\ duration \in {0, DurationAsked}
  /\ windows # {} => duration = DurationAsked /\ windows = WindowsAsked

(* What is asked for is a stage of some macro, or a transfer, with costs that are clamped. *)
LEMMA AskedWell ==
  ASSUME asked \in Requests \cup Transfers
  PROVE  /\ IsTransfer => /\ asked.units # {} /\ "SYNC" \notin asked.units
                          /\ asked.transport \in Nat \ {0} /\ asked.sync \in Nat
         /\ ~ IsTransfer => asked.stage \in StageNames /\ asked.units # {} /\ IsCost(asked.cost)
  BY CostAssumption DEF IsTransfer

(* The windows in the state are those of the block asked about, and divide its slots. *)
LEMMA WindowsDivide ==
  ASSUME Estimated, windows # {}
  PROVE  duration \in Nat \ {0} /\ Divides(windows, duration)
<1>1. duration = DurationAsked /\ windows = WindowsAsked /\ asked \in Requests \cup Transfers
  BY DEF Estimated
<1>2. CASE IsTransfer
  BY <1>1, <1>2, AskedWell, TransferDivides DEF DurationAsked, WindowsAsked
<1>3. CASE ~ IsTransfer
  <2>1. duration = DurationSlots(asked.macro, asked.stage, asked.cost)
    BY <1>1, <1>3 DEF DurationAsked
  <2>2. windows = StageReservations(asked.macro, asked.stage, asked.units, duration, asked.cost)
    BY <1>1, <1>3 DEF WindowsAsked
  <2>3. asked.stage \in StageNames /\ asked.units # {} /\ IsCost(asked.cost)
    BY <1>1, <1>3, AskedWell
  <2>4. duration \in Nat \ {0}  BY <2>1, <2>3, DurationPositive
  <2>5. Divides(windows, duration)  BY <2>1, <2>2, <2>3, StageDivides
  <2> QED  BY <2>4, <2>5
<1> QED  BY <1>2, <1>3

(* Nothing in the state is older than the block asked about. *)
THEOREM AlwaysEstimated == Spec => []Estimated
<1>1. Init => Estimated
  BY DEF Init, Estimated
<1>2. Estimated /\ [Next]_vars => Estimated'
  <2> SUFFICES ASSUME Estimated, [Next]_vars PROVE Estimated'
    OBVIOUS
  <2> USE DEF Estimated
  <2>1. CASE EstimateDuration
    BY <2>1 DEF EstimateDuration, DurationAsked, WindowsAsked, IsTransfer
  <2>2. CASE EstimateReservations
    <3>1. asked \in Requests \cup Transfers /\ duration = DurationAsked
      BY <2>2 DEF EstimateReservations
    <3>2. asked' = asked /\ duration' = duration /\ windows' = WindowsAsked
      BY <2>2, <3>1 DEF EstimateReservations, WindowsAsked
    <3> QED  BY <3>1, <3>2 DEF DurationAsked, WindowsAsked, IsTransfer
  <2>3. CASE UNCHANGED vars
    BY <2>3 DEF vars, DurationAsked, WindowsAsked, IsTransfer
  <2> QED  BY <2>1, <2>2, <2>3 DEF Next
<1> QED  BY <1>1, <1>2, PTL DEF Spec

(* InsideBlock: no resource is held outside the block, so that the end slot given to the
   dependents is after all of its windows. *)
THEOREM WindowsInside == Spec => []InsideBlock
<1>1. Estimated => InsideBlock
  BY WindowsDivide DEF InsideBlock, Slots, Divides, Within
<1> QED  BY <1>1, AlwaysEstimated, PTL

(* NoSelfConflict: the windows of a block do not collide, which the list scheduler's
   JobsAssumption takes for granted. *)
THEOREM WindowsApart == Spec => []NoSelfConflict
<1>1. Estimated => NoSelfConflict
  <2> SUFFICES ASSUME Estimated, NEW g \in windows, NEW h \in windows, g # h, g.res = h.res
               PROVE Slots(g) \cap Slots(h) = {}
    BY DEF NoSelfConflict
  <2>1. Within(windows, duration) /\ Apart(windows)  BY WindowsDivide DEF Divides
  <2>2. /\ g.off \in Nat /\ g.len \in Nat /\ h.off \in Nat /\ h.len \in Nat
        /\ g.off + g.len <= h.off \/ h.off + h.len <= g.off
    BY <2>1 DEF Within, Apart
  <2> QED  BY <2>2 DEF Slots
<1> QED  BY <1>1, AlwaysEstimated, PTL

(* NoIdleSlot: in every slot of a block some resource is held. *)
THEOREM WindowsCover == Spec => []NoIdleSlot
<1>1. Estimated => NoIdleSlot
  <2> SUFFICES ASSUME Estimated, windows # {}, NEW s \in 0..(duration - 1)
               PROVE \E h \in windows : s \in Slots(h)
    BY DEF NoIdleSlot
  <2>1. duration \in Nat /\ Within(windows, duration) /\ Covering(windows, duration)
    BY WindowsDivide DEF Divides
  <2>2. PICK h \in windows : h.off <= s /\ s < h.off + h.len
    BY <2>1 DEF Covering
  <2>3. h.off \in Nat /\ h.len \in Nat  BY <2>1 DEF Within
  <2> QED  BY <2>1, <2>2, <2>3 DEF Slots
<1> QED  BY <1>1, AlwaysEstimated, PTL

(* TransportHeld: the prefix and tail that are derived a second time leave the DMA the
   transport that the duration was computed from. *)
THEOREM TransportKept == Spec => []TransportHeld
<1>1. Estimated => TransportHeld
  <2> SUFFICES ASSUME Estimated, windows # {}, ~ IsTransfer, asked.stage \in {"dma_in", "store"},
                      "DMA" \in asked.units, asked.macro \notin FoldedMacros
               PROVE Cardinality(Held("DMA")) =
                       (IF asked.stage = "dma_in" THEN asked.cost.load ELSE asked.cost.write)
    BY DEF TransportHeld
  <2> DEFINE c == asked.cost
             transport == IF asked.stage = "dma_in" THEN c.load ELSE c.write
             prefix == DmaPrefix(asked.macro, asked.stage, duration, c)
             tail == DmaTail(asked.macro, asked.stage, c)
  <2>1. /\ duration = DmaStageSlots(asked.macro, asked.stage, c)
        /\ windows = StageReservations(asked.macro, asked.stage, asked.units, duration, c)
    BY DEF Estimated, DurationAsked, WindowsAsked, DurationSlots
  <2>2. IsCost(c)  BY AskedWell DEF Estimated
  <2>3. transport \in Nat \ {0}  BY <2>2, CountsPositive
  <2>4. ASSUME NEW off \in Nat, {h \in windows : h.res = "DMA"} = {Hold("DMA", off, transport)}
        PROVE  Cardinality(Held("DMA")) = transport
    <3> DEFINE D == Hold("DMA", off, transport)
    <3>1. D.off = off /\ D.len = transport  BY DEF Hold
    <3> HIDE DEF D, transport
    <3>2. Held("DMA") = Slots(D)  BY <2>4 DEF Held, D
    <3>3. Held("DMA") = off..(off + transport - 1)  BY <3>1, <3>2 DEF Slots
    <3>4. Cardinality(off..(off + transport - 1)) = transport  BY <2>3, FS_Interval
    <3> QED  BY <3>3, <3>4
  <2>5. CASE Splits(asked.macro, asked.stage)
    <3>1. windows = SplitDma(asked.macro, asked.stage, duration, c)
      BY <2>1, <2>5 DEF StageReservations
    <3>2. prefix \in Nat /\ duration - prefix - tail = transport
      BY <2>1, <2>2, <2>5, TransportLeft
    <3>3. {h \in windows : h.res = "DMA"} = {Hold("DMA", prefix, duration - prefix - tail)}
      BY <2>1, <2>2, <2>5, <3>1, SplitDmaDivides
    <3> QED  BY <2>4, <3>2, <3>3
  <2>6. CASE ~ Splits(asked.macro, asked.stage)
    <3>1. windows = HoldAll(asked.units, duration)
      BY <2>1, <2>6 DEF StageReservations
    <3>2. duration = transport
      BY <2>1, <2>2, <2>6, CountsPositive DEF DmaStageSlots, Splits
    <3>3. {h \in windows : h.res = "DMA"} = {Hold("DMA", 0, transport)}
      BY <3>1, <3>2 DEF HoldAll, Hold
    <3> QED  BY <2>4, <3>3
  <2> QED  BY <2>5, <2>6
<1> QED  BY <1>1, AlwaysEstimated, PTL

(* SyncAfterTransport: a transfer holds its link for the transport and then SYNC for the
   cost of synchronisation, all of it. *)
THEOREM SyncPaid == Spec => []SyncAfterTransport
<1>1. Estimated => SyncAfterTransport
  <2> SUFFICES ASSUME Estimated, windows # {}, IsTransfer
               PROVE  /\ \A u \in asked.units : Held(u) = 0..(asked.transport - 1)
                      /\ Held("SYNC") = asked.transport..(duration - 1)
                      /\ Cardinality(Held("SYNC")) = asked.sync
    BY DEF SyncAfterTransport
  <2> DEFINE n == asked.transport
             m == asked.sync
             L == HoldAll(asked.units, n)
             H == Hold("SYNC", n, m)
  <2>1. n \in Nat \ {0} /\ m \in Nat /\ asked.units # {} /\ "SYNC" \notin asked.units
    BY AskedWell DEF Estimated
  <2>2. duration = n + m /\ windows = L \cup {h \in {H} : h.len > 0}
    <3>1. duration = TransferSlots(n, m) /\ windows = TransferReservations(asked.units, duration, m)
      BY DEF Estimated, DurationAsked, WindowsAsked
    <3> QED  BY <2>1, <3>1, TransferDivides
  <2>3. H.res = "SYNC" /\ H.off = n /\ H.len = m  BY DEF Hold
  <2>4. \A h \in L : h.res # "SYNC" /\ h.off = 0 /\ h.len = n
    BY <2>1 DEF HoldAll, Hold
  <2>5. ASSUME NEW u \in asked.units PROVE Held(u) = 0..(n - 1)
    <3>1. Hold(u, 0, n) \in L /\ Hold(u, 0, n).res = u
      BY DEF HoldAll, Hold
    <3>2. u # "SYNC"  BY <2>1
    <3> HIDE DEF L, H
    <3>3. \A h \in windows : h.res = u => h \in L
      BY <2>2, <2>3, <3>2
    <3>4. \A h \in windows : h.res = u => Slots(h) = 0..(n - 1)
      BY <2>1, <2>4, <3>3 DEF Slots
    <3>5. Hold(u, 0, n) \in windows  BY <2>2, <3>1
    <3> QED  BY <3>1, <3>4, <3>5 DEF Held
  <2>6. Held("SYNC") = n..(duration - 1)
    <3> HIDE DEF L, H
    <3>1. CASE m = 0
      <4>1. \A h \in windows : h.res # "SYNC"  BY <2>2, <2>3, <2>4, <3>1
      <4>2. Held("SYNC") = {}  BY <4>1 DEF Held
      <4>3. duration = n  BY <2>1, <2>2, <3>1
      <4>4. n..(n - 1) = {}  BY <2>1
      <4> QED  BY <4>2, <4>3, <4>4
    <3>2. CASE m > 0
      <4>1. {h \in windows : h.res = "SYNC"} = {H}  BY <2>2, <2>3, <2>4, <3>2
      <4> QED  BY <2>1, <2>2, <2>3, <4>1 DEF Held, Slots
    <3> QED  BY <2>1, <3>1, <3>2
  <2>7. Cardinality(n..(duration - 1)) = m
    <3>1. duration = n + m  BY <2>2
    <3> HIDE DEF n, m
    <3>2. n \in Int /\ duration - 1 \in Int  BY <2>1, <3>1
    <3>3. Cardinality(n..(duration - 1)) =
            IF n > duration - 1 THEN 0 ELSE (duration - 1) - n + 1
      BY <3>2, FS_Interval
    <3> QED  BY <2>1, <3>1, <3>3
  <2> QED  BY <2>5, <2>6, <2>7
<1> QED  BY <1>1, AlwaysEstimated, PTL

-----------------------------------------------------------------------------

(* What duration.py derives from shapes, tiles and bandwidths, zero and missing ones
   included, are slot counts as the requests above need them: every count is clamped. *)
THEOREM CountsDerived ==
  ASSUME NEW v, NEW stage, NEW tile, tile.summarised \in BOOLEAN, NEW placed, NEW target
  PROVE  IsCost(StageCost(v, stage, tile, placed, target))
<1>1. \A n, each : SlotsFor(n, each) \in Nat \ {0}
  BY DEF SlotsFor, AtLeastOne
<1>2. LoadSide(v, tile, target) \in Nat \ {0}
  <2> HIDE DEF SlotsFor
  <2> QED  BY <1>1 DEF LoadSide
<1>3. StoreSide(v, tile, target) \in Nat \ {0}
  <2> HIDE DEF SlotsFor
  <2> QED  BY <1>1 DEF StoreSide
<1>4. Overhead(v, tile, target) \in Nat \ {0}
  BY <1>1 DEF Overhead
<1>5. \A n : AtLeastOne(n) \in Nat \ {0}
  BY DEF AtLeastOne
<1> DEFINE c == StageCost(v, stage, tile, placed, target)
<1>6. /\ c.load \in Nat \ {0} /\ c.write \in Nat \ {0} /\ c.stream \in Nat \ {0}
      /\ c.side \in Nat \ {0} /\ c.vector \in Nat \ {0} /\ c.body \in Nat \ {0}
      /\ c.overhead \in Nat \ {0} /\ c.score \in Nat \ {0}
  BY <1>1, <1>2, <1>3, <1>4, <1>5 DEF StageCost
<1>7. c.summarised \in BOOLEAN
  BY DEF StageCost, Summarised
<1>8. \A f \in Counts : c[f] \in Nat \ {0}
  <2> HIDE DEF c
  <2> QED  BY <1>6 DEF Counts
<1> QED  BY <1>7, <1>8 DEF IsCost
=============================================================================
