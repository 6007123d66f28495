---------------------------- MODULE StageDuration ----------------------------
(***************************************************************************)
(* The two estimates that scheduler/dual_core.py asks of                   *)
(* scheduler/duration.py for one block, in the order in which              *)
(* _build_pending_blocks asks them: first the duration, then the windows   *)
(* that the duration is divided into.  The second half of the file derives *)
(* the prefixes and tails again instead of taking them from the first, and *)
(* the properties say that the two agree.                                  *)
(***************************************************************************)
EXTENDS StageWindows, FiniteSets

CONSTANTS
  Requests,    \* stage estimates asked for: [macro, stage, units, cost]
  Transfers    \* transfer estimates asked for: [units, transport, sync]

(* A block holds some unit; what a transfer holds besides SYNC is its link. *)
ASSUME CostAssumption ==
  /\ \A r \in Requests :
       /\ "sync" \notin DOMAIN r /\ r.units # {} /\ r.stage \in StageNames /\ IsCost(r.cost)
  /\ \A t \in Transfers :
       /\ "sync" \in DOMAIN t /\ t.units # {} /\ "SYNC" \notin t.units
       /\ t.transport \in Nat \ {0} /\ t.sync \in Nat

VARIABLES asked,      \* the block asked about
          duration,   \* duration_slots, 0 before it is estimated
          windows     \* resource_reservations
vars == <<asked, duration, windows>>

IsTransfer == "sync" \in DOMAIN asked

Init == /\ asked \in Requests \cup Transfers
        /\ duration = 0
        /\ windows = {}

EstimateDuration ==
  /\ duration = 0
  /\ duration' = IF IsTransfer
                 THEN TransferSlots(asked.transport, asked.sync)
                 ELSE DurationSlots(asked.macro, asked.stage, asked.cost)
  /\ UNCHANGED <<asked, windows>>

EstimateReservations ==
  /\ duration > 0 /\ windows = {}
  /\ windows' =
       IF IsTransfer
       THEN TransferReservations(asked.units, duration, asked.sync)
       ELSE StageReservations(asked.macro, asked.stage, asked.units, duration, asked.cost)
  /\ UNCHANGED <<asked, duration>>

Next == EstimateDuration \/ EstimateReservations
Spec == Init /\ [][Next]_vars

-----------------------------------------------------------------------------

Slots(h) == h.off..(h.off + h.len - 1)
Held(unit) == UNION {Slots(h) : h \in {w \in windows : w.res = unit}}

(* A resource is never held outside the block: EndSlot, which the scheduler
   gives the dependents, covers all of its windows. *)
InsideBlock == \A h \in windows : h.len > 0 /\ Slots(h) \subseteq 0..(duration - 1)

(* The windows of a block on one resource are disjoint, as the list scheduler
   takes for granted: it looks for conflicts with other blocks only. *)
NoSelfConflict ==
  \A g, h \in windows : g # h /\ g.res = h.res => Slots(g) \cap Slots(h) = {}

(* The block is not longer than its work: some resource is held in every slot. *)
NoIdleSlot ==
  windows # {} => 0..(duration - 1) \subseteq UNION {Slots(h) : h \in windows}

(* The transport that the duration was computed from is the time the DMA is
   held, prefix and tail excluded.  SDPA, SDPA_DECODE and LAYOUT_FALLBACK
   stores are left out: their reservations subtract a prefix that the duration
   did not add (_dma_stage_slot_breakdown has no case for them). *)
TransportHeld ==
  windows # {} /\ ~ IsTransfer =>
    (asked.stage \in {"dma_in", "store"} /\ "DMA" \in asked.units
       /\ asked.macro \notin FoldedMacros
       => Cardinality(Held("DMA")) =
            (IF asked.stage = "dma_in" THEN asked.cost.load ELSE asked.cost.write))

(* A transfer pays its synchronisation cost after its transport, on SYNC. *)
SyncAfterTransport ==
  windows # {} /\ IsTransfer =>
    /\ \A u \in asked.units : Held(u) = 0..(asked.transport - 1)
    /\ Held("SYNC") = asked.transport..(duration - 1)
    /\ Cardinality(Held("SYNC")) = asked.sync
=============================================================================
