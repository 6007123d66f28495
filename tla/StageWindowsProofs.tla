-------------------------- MODULE StageWindowsProofs --------------------------
(***************************************************************************)
(* The windows of a stage fit its duration, whatever its macro, its units  *)
(* and its slot counts.  The windows of each form (HoldAll, Phased,        *)
(* SplitDma) divide the slots they are made for, and the counts that       *)
(* estimate_stage_resource_reservations clamps and derives again are such  *)
(* that they add up to the duration.                                       *)
(***************************************************************************)
EXTENDS StageWindows, TLAPS

(* What it takes for windows to be those of a block of slots slots. *)
Within(ws, slots) ==
  \A h \in ws : h.off \in Nat /\ h.len \in Nat \ {0} /\ h.off + h.len <= slots

Apart(ws) ==
  \A g, h \in ws : g # h /\ g.res = h.res => g.off + g.len <= h.off \/ h.off + h.len <= g.off

Covering(ws, slots) ==
  \A s \in 0..(slots - 1) : \E h \in ws : h.off <= s /\ s < h.off + h.len

Divides(ws, slots) == Within(ws, slots) /\ Apart(ws) /\ Covering(ws, slots)

-----------------------------------------------------------------------------
(* A quotient by 2, 4 or 8, rounded up, is at least one slot and leaves at least as
   much as the next smaller divisor does: the phases of duration.py never vanish. *)
LEMMA CeilDivBounds ==
  ASSUME NEW a \in Nat \ {0}
  PROVE  /\ CeilDiv(a, 2) \in Nat \ {0} /\ CeilDiv(a, 2) <= a
         /\ CeilDiv(a, 4) \in Nat \ {0} /\ 4 * CeilDiv(a, 4) <= a + 3
         /\ CeilDiv(a, 8) \in Nat \ {0} /\ 8 * CeilDiv(a, 8) <= a + 7
  BY DEF CeilDiv

(* Units that are all held for the whole stage divide it. *)
LEMMA HoldAllDivides ==
  ASSUME NEW units, units # {}, NEW slots \in Nat \ {0}
  PROVE  Divides(HoldAll(units, slots), slots)
<1> DEFINE W == HoldAll(units, slots)
<1>1. \A h \in W : h.off = 0 /\ h.len = slots /\ h.res \in units /\ h = Hold(h.res, 0, slots)
  BY DEF HoldAll, Hold
<1>2. Within(W, slots)  BY <1>1 DEF Within
<1>3. Apart(W)
  BY <1>1 DEF Apart
<1>4. PICK u \in units : TRUE  OBVIOUS
<1>5. Hold(u, 0, slots) \in W  BY <1>4 DEF HoldAll
<1>6. Covering(W, slots)
  BY <1>1, <1>5 DEF Covering
<1> QED  BY <1>2, <1>3, <1>6 DEF Divides

(* Vector work, matrix work and vector work again, in turn, divide their sum. *)
LEMMA PhasedDivides ==
  ASSUME NEW prefix \in Nat, NEW middle \in Nat \ {0}, NEW tail \in Nat
  PROVE  Divides(Phased(prefix, middle, tail), prefix + middle + tail)
<1> DEFINE W == Phased(prefix, middle, tail)
           d == prefix + middle + tail
           P == Hold("VPU", 0, prefix)
           M == Hold("MXU", prefix, middle)
           T == Hold("VPU", prefix + middle, tail)
<1>1. W \subseteq {P, M, T} /\ M \in W /\ (prefix > 0 => P \in W) /\ (tail > 0 => T \in W)
  BY DEF Phased, Hold
<1>2. (P \in W => prefix > 0) /\ (T \in W => tail > 0)
  BY DEF Phased, Hold
<1>3. /\ P.res = "VPU" /\ P.off = 0 /\ P.len = prefix
      /\ M.res = "MXU" /\ M.off = prefix /\ M.len = middle
      /\ T.res = "VPU" /\ T.off = prefix + middle /\ T.len = tail
  BY DEF Hold
<1> HIDE DEF W, P, M, T
<1>4. Within(W, d)  BY <1>1, <1>2, <1>3 DEF Within
<1>5. Apart(W)
  BY <1>1, <1>2, <1>3 DEF Apart
<1>6. Covering(W, d)
  <2> SUFFICES ASSUME NEW s \in 0..(d - 1) PROVE \E h \in W : h.off <= s /\ s < h.off + h.len
    BY DEF Covering
  <2>1. CASE s < prefix  BY <2>1, <1>1, <1>3
  <2>2. CASE prefix <= s /\ s < prefix + middle  BY <2>2, <1>1, <1>3
  <2>3. CASE prefix + middle <= s  BY <2>3, <1>1, <1>3
  <2> QED  BY <2>1, <2>2, <2>3
<1> QED  BY <1>4, <1>5, <1>6 DEF Divides, W

-----------------------------------------------------------------------------
(* IsCost makes every slot count of a request at least one. *)
LEMMA CountsPositive ==
  ASSUME NEW c, IsCost(c)
  PROVE  /\ c.load \in Nat \ {0} /\ c.write \in Nat \ {0} /\ c.side \in Nat \ {0}
         /\ c.vector \in Nat \ {0} /\ c.body \in Nat \ {0} /\ c.overhead \in Nat \ {0}
         /\ c.score \in Nat \ {0} /\ c.stream \in Nat \ {0} /\ c.summarised \in BOOLEAN
  BY DEF IsCost, Counts

(* No block is of zero slots, whatever its stage and macro. *)
LEMMA DurationPositive ==
  ASSUME NEW macro, NEW stage, stage \in StageNames, NEW c, IsCost(c)
  PROVE  DurationSlots(macro, stage, c) \in Nat \ {0}
<1>1. ComputeSlots(macro, c) \in Nat \ {0}
  BY CountsPositive DEF ComputeSlots, Greatest
<1>2. stage \in {"dma_in", "store"} => DmaStageSlots(macro, stage, c) \in Nat \ {0}
  BY CountsPositive DEF DmaStageSlots
<1> QED  BY <1>1, <1>2, CountsPositive DEF DurationSlots, StageNames

(* Prefix, transport and tail are those the duration was made of, or, for the macros
   whose prefix the duration leaves out, fit into it. *)
LEMMA TransportLeft ==
  ASSUME NEW macro, NEW stage \in {"dma_in", "store"}, NEW c, IsCost(c), Splits(macro, stage),
         NEW slots, slots = DmaStageSlots(macro, stage, c),
         NEW prefix, prefix = DmaPrefix(macro, stage, slots, c),
         NEW tail, tail = DmaTail(macro, stage, c)
  PROVE  /\ slots \in Nat \ {0} /\ prefix \in Nat /\ tail \in Nat /\ prefix + tail < slots
         /\ prefix = 0 \/ tail = 0
         /\ macro \notin FoldedMacros =>
              slots - prefix - tail = IF stage = "dma_in" THEN c.load ELSE c.write
<1>1. CASE stage = "dma_in"
  BY <1>1, CountsPositive DEF DmaStageSlots, DmaPrefix, DmaTail, Splits
<1>2. CASE stage = "store" /\ macro \in PrefixMacros
  <2>1. slots = c.write + c.side /\ tail = 0
    BY <1>2 DEF DmaStageSlots, DmaTail
  <2>2. prefix = c.side
    BY <1>2, <2>1, CountsPositive DEF DmaPrefix, Least, Greatest
  <2> QED  BY <1>2, <2>1, <2>2, CountsPositive
<1>3. CASE stage = "store" /\ macro \notin PrefixMacros
  <2>1. macro \in FoldedMacros /\ slots = c.write /\ tail = 0
    BY <1>3, CountsPositive DEF DmaStageSlots, DmaTail, Splits
  <2>2. prefix = Least(Greatest(0, slots - 1), c.side)
    BY <1>3, <2>1 DEF DmaPrefix, PrefixMacros, FoldedMacros
  <2> QED  BY <2>1, <2>2, CountsPositive DEF Least, Greatest
<1> QED  BY <1>1, <1>2, <1>3

(* The three windows of a stage that moves data divide it, and the DMA's is the
   transport. *)
LEMMA SplitDmaDivides ==
  ASSUME NEW macro, NEW stage \in {"dma_in", "store"}, NEW c, IsCost(c), Splits(macro, stage)
  PROVE  LET slots == DmaStageSlots(macro, stage, c)
             prefix == DmaPrefix(macro, stage, slots, c)
             tail == DmaTail(macro, stage, c)
             ws == SplitDma(macro, stage, slots, c)
         IN  /\ Divides(ws, slots)
             /\ {h \in ws : h.res = "DMA"} = {Hold("DMA", prefix, slots - prefix - tail)}
<1> DEFINE slots == DmaStageSlots(macro, stage, c)
           prefix == DmaPrefix(macro, stage, slots, c)
           tail == DmaTail(macro, stage, c)
           W == SplitDma(macro, stage, slots, c)
           P == Hold("VPU", 0, prefix)
           D == Hold("DMA", prefix, slots - prefix - tail)
           S == Hold(SideUnit(macro), slots - prefix - tail, tail)
<1>1. /\ slots \in Nat \ {0} /\ prefix \in Nat /\ tail \in Nat /\ prefix + tail < slots
      /\ prefix = 0 \/ tail = 0
  BY TransportLeft
<1>2. Greatest(1, slots - prefix - tail) = slots - prefix - tail
  BY <1>1 DEF Greatest
<1>3. W = {h \in {P, D, S} : h.len > 0}
  BY <1>2 DEF SplitDma
<1>4. /\ P.res = "VPU" /\ P.off = 0 /\ P.len = prefix
      /\ D.res = "DMA" /\ D.off = prefix /\ D.len = slots - prefix - tail
      /\ S.res \in {"VPU", "WDQ"} /\ S.off = slots - prefix - tail /\ S.len = tail
  BY DEF Hold, SideUnit
<1> HIDE DEF slots, prefix, tail, W, P, D, S
<1>5. Within(W, slots)  BY <1>1, <1>3, <1>4 DEF Within
<1>6. Apart(W)  BY <1>1, <1>3, <1>4 DEF Apart
<1>7. Covering(W, slots)
  <2> SUFFICES ASSUME NEW s \in 0..(slots - 1) PROVE \E h \in W : h.off <= s /\ s < h.off + h.len
    BY DEF Covering
  <2>1. CASE s < prefix  BY <2>1, <1>1, <1>3, <1>4
  <2>2. CASE prefix <= s /\ s < slots - tail  BY <2>2, <1>1, <1>3, <1>4
  <2>3. CASE slots - tail <= s  BY <2>3, <1>1, <1>3, <1>4
  <2> QED  BY <2>1, <2>2, <2>3, <1>1
<1>8. {h \in W : h.res = "DMA"} = {D}
  BY <1>1, <1>3, <1>4
<1> QED  BY <1>5, <1>6, <1>7, <1>8 DEF Divides, W, slots, prefix, tail, D

-----------------------------------------------------------------------------
(* The phases of a computation on two units add up to it. *)
LEMMA SdpaPhasesAddUp ==
  ASSUME NEW slots \in Nat, slots > 1, NEW overhead \in Nat \ {0}
  PROVE  LET p == SdpaPhases(slots, overhead)
         IN  /\ p[1] \in Nat /\ p[2] \in Nat \ {0} /\ p[3] \in Nat
             /\ p[1] + p[2] + p[3] = slots
<1> DEFINE clamped == Least(Greatest(1, overhead), Greatest(1, slots - 1))
           half == CeilDiv(clamped, 2)
<1>1. clamped \in Nat \ {0} /\ clamped < slots
  BY DEF Least, Greatest
<1>2. half \in Nat \ {0} /\ half <= clamped
  BY <1>1, CeilDivBounds
<1> HIDE DEF clamped, half
<1>3. /\ Least(half, Greatest(1, slots - (clamped - half) - 1)) = half
      /\ Greatest(1, slots - half - (clamped - half)) = slots - clamped
      /\ Greatest(0, slots - half - (slots - clamped)) = clamped - half
  BY <1>1, <1>2 DEF Least, Greatest
<1>4. SdpaPhases(slots, overhead) = <<half, slots - clamped, clamped - half>>
  BY <1>3 DEF SdpaPhases, clamped, half
<1> QED  BY <1>1, <1>2, <1>4

(* The phases of a gated activation add up to it, dequantisation included. *)
LEMMA GegluPhasesAddUp ==
  ASSUME NEW slots \in Nat, slots > 1
  PROVE  LET p == GegluPhases(slots)
         IN  /\ p[1] \in Nat /\ p[2] \in Nat \ {0} /\ p[3] \in Nat
             /\ p[1] + p[2] + p[3] = slots
<1>1. CASE slots = 2
  <2>1. GegluPhases(slots) = <<0, 1, 1>>
    BY <1>1 DEF GegluPhases, Greatest
  <2> QED  BY <1>1, <2>1
<1>2. CASE slots > 2
  <2> DEFINE quarter == CeilDiv(slots, 4)
             eighth == CeilDiv(slots, 8)
             prefix == Least(eighth, Greatest(1, slots - quarter - 1))
             middle == Greatest(1, slots - prefix - quarter)
  <2>1. /\ quarter \in Nat \ {0} /\ 4 * quarter <= slots + 3
        /\ eighth \in Nat \ {0} /\ 8 * eighth <= slots + 7
    BY CeilDivBounds
  <2> HIDE DEF quarter, eighth
  <2>2. quarter + 1 < slots  BY <1>2, <2>1
  <2>3. prefix \in Nat \ {0} /\ prefix + quarter < slots
    BY <2>1, <2>2 DEF Least, Greatest
  <2>4. middle = slots - prefix - quarter
    BY <2>1, <2>3 DEF Greatest
  <2>5. Greatest(1, slots - prefix - middle) = quarter
    BY <2>1, <2>3, <2>4 DEF Greatest
  <2>6. GegluPhases(slots) = <<prefix, middle, quarter>>
    BY <1>2, <2>5 DEF GegluPhases, quarter, eighth
  <2> QED  BY <2>1, <2>3, <2>4, <2>6
<1> QED  BY <1>1, <1>2

(* A matrix product behind vector work, or behind dequantisation. *)
LEMMA TwoPhasesDivide ==
  ASSUME NEW u, NEW v, u # v, NEW slots \in Nat, NEW first \in Nat \ {0}, first < slots
  PROVE  Divides({Hold(u, 0, first), Hold(v, first, Greatest(1, slots - first))}, slots)
<1> DEFINE P == Hold(u, 0, first)
           M == Hold(v, first, Greatest(1, slots - first))
<1>1. /\ P.res = u /\ P.off = 0 /\ P.len = first
      /\ M.res = v /\ M.off = first /\ M.len = slots - first
  BY DEF Hold, Greatest
<1> HIDE DEF P, M
<1>2. Within({P, M}, slots)  BY <1>1 DEF Within
<1>3. Apart({P, M})  BY <1>1 DEF Apart
<1>4. Covering({P, M}, slots)
  <2> SUFFICES ASSUME NEW s \in 0..(slots - 1)
               PROVE \E h \in {P, M} : h.off <= s /\ s < h.off + h.len
    BY DEF Covering
  <2> QED  BY <1>1
<1> QED  BY <1>2, <1>3, <1>4 DEF Divides, P, M

(* A computation split into phases, whatever its macro, is divided by its windows. *)
LEMMA SplitComputeDivides ==
  ASSUME NEW macro, NEW units, units # {}, NEW c, IsCost(c),
         NEW slots \in Nat, slots > 1, slots = ComputeSlots(macro, c)
  PROVE  Divides(SplitCompute(macro, units, slots, c), slots)
<1> DEFINE overhead == Least(Greatest(1, c.overhead), Greatest(1, slots - 1))
           wdq == CeilDiv(slots, 8)
           dma == IF c.summarised THEN c.stream ELSE slots
           W == SplitCompute(macro, units, slots, c)
<1>1. overhead \in Nat \ {0} /\ overhead < slots
  BY CountsPositive DEF Least, Greatest
<1>2. wdq \in Nat \ {0} /\ wdq < slots
  BY CeilDivBounds
<1>3. CASE macro = "SDPA_DECODE" /\ {"DMA", "VPU"} \subseteq units
  <2> DEFINE D == Hold("DMA", 0, Least(slots, dma))
             V == Hold("VPU", 0, Least(slots, c.score))
  <2>1. W = {D, V}  BY <1>3 DEF SplitCompute
  <2>2. slots = Greatest(c.score, c.stream)  BY <1>3 DEF ComputeSlots, GemmLikeMacros, VectorStageMacros
  <2>3. /\ D.res = "DMA" /\ D.off = 0 /\ D.len \in Nat \ {0} /\ D.len <= slots
        /\ V.res = "VPU" /\ V.off = 0 /\ V.len \in Nat \ {0} /\ V.len <= slots
        /\ D.len = slots \/ V.len = slots
    BY <2>2, CountsPositive DEF Hold, Least, Greatest
  <2> HIDE DEF D, V
  <2>4. Within({D, V}, slots)  BY <2>3 DEF Within
  <2>5. Apart({D, V})  BY <2>3 DEF Apart
  <2>6. Covering({D, V}, slots)  BY <2>3 DEF Covering
  <2> QED  BY <2>1, <2>4, <2>5, <2>6 DEF Divides
<1>4. CASE macro = "RMSNORM_GEMM" /\ {"MXU", "VPU"} \subseteq units
  <2>1. W = {Hold("VPU", 0, overhead), Hold("MXU", overhead, Greatest(1, slots - overhead))}
    BY <1>4 DEF SplitCompute
  <2> HIDE DEF overhead
  <2>2. "VPU" # "MXU"  OBVIOUS
  <2> QED  BY <1>1, <2>1, <2>2, TwoPhasesDivide
<1>5. CASE macro = "SDPA" /\ {"MXU", "VPU"} \subseteq units
  <2> DEFINE p == SdpaPhases(slots, overhead)
  <2>1. W = Phased(p[1], p[2], p[3])  BY <1>5 DEF SplitCompute
  <2>2. /\ p[1] \in Nat /\ p[2] \in Nat \ {0} /\ p[3] \in Nat
        /\ p[1] + p[2] + p[3] = slots
    BY <1>1, SdpaPhasesAddUp
  <2> QED  BY <2>1, <2>2, PhasedDivides
<1>6. CASE macro = "GEGLU" /\ {"MXU", "VPU"} \subseteq units
  <2> DEFINE p == GegluPhases(slots)
  <2>1. W = Phased(p[1], p[2], p[3])  BY <1>6 DEF SplitCompute
  <2>2. /\ p[1] \in Nat /\ p[2] \in Nat \ {0} /\ p[3] \in Nat
        /\ p[1] + p[2] + p[3] = slots
    BY GegluPhasesAddUp
  <2> QED  BY <2>1, <2>2, PhasedDivides
<1>7. CASE macro = "WDQ_GEMM" /\ {"WDQ", "MXU"} \subseteq units
  <2>1. W = {Hold("WDQ", 0, wdq), Hold("MXU", wdq, Greatest(1, slots - wdq))}
    BY <1>7 DEF SplitCompute
  <2> HIDE DEF wdq
  <2>2. "WDQ" # "MXU"  OBVIOUS
  <2> QED  BY <1>2, <2>1, <2>2, TwoPhasesDivide
<1>8. CASE /\ ~ (macro = "SDPA_DECODE" /\ {"DMA", "VPU"} \subseteq units)
           /\ ~ (macro \in {"RMSNORM_GEMM", "SDPA", "GEGLU"} /\ {"MXU", "VPU"} \subseteq units)
           /\ ~ (macro = "WDQ_GEMM" /\ {"WDQ", "MXU"} \subseteq units)
  <2>1. W = HoldAll(units, slots)  BY <1>8 DEF SplitCompute
  <2> QED  BY <2>1, HoldAllDivides
<1> QED  BY <1>3, <1>4, <1>5, <1>6, <1>7, <1>8

-----------------------------------------------------------------------------
(* The windows of a stage, and those of a transfer. *)
LEMMA StageDivides ==
  ASSUME NEW macro, NEW stage, stage \in StageNames, NEW units, units # {}, NEW c, IsCost(c),
         NEW slots, slots = DurationSlots(macro, stage, c)
  PROVE  Divides(StageReservations(macro, stage, units, slots, c), slots)
<1> DEFINE W == StageReservations(macro, stage, units, slots, c)
<1>1. slots \in Nat \ {0}  BY DurationPositive
<1>2. CASE stage \in {"dma_in", "store"} /\ "DMA" \in units /\ Splits(macro, stage)
  <2>1. slots = DmaStageSlots(macro, stage, c)  BY <1>2 DEF DurationSlots
  <2>2. W = SplitDma(macro, stage, slots, c)  BY <1>2 DEF StageReservations
  <2> QED  BY <1>2, <2>1, <2>2, SplitDmaDivides
<1>3. CASE stage = "compute" /\ slots > 1
  <2>1. slots = ComputeSlots(macro, c)  BY <1>3 DEF DurationSlots
  <2>2. W = SplitCompute(macro, units, slots, c)  BY <1>3 DEF StageReservations
  <2> QED  BY <1>1, <1>3, <2>1, <2>2, SplitComputeDivides
<1>4. CASE /\ ~ (stage \in {"dma_in", "store"} /\ "DMA" \in units /\ Splits(macro, stage))
           /\ ~ (stage = "compute" /\ slots > 1)
  <2>1. W = HoldAll(units, slots)  BY <1>4 DEF StageReservations
  <2> QED  BY <1>1, <2>1, HoldAllDivides
<1> QED  BY <1>2, <1>3, <1>4

(* The windows of a transfer are its link for the transport, and SYNC after it. *)
LEMMA TransferDivides ==
  ASSUME NEW units, units # {}, "SYNC" \notin units,
         NEW transport \in Nat \ {0}, NEW sync \in Nat
  PROVE  LET slots == TransferSlots(transport, sync)
             ws == TransferReservations(units, slots, sync)
         IN  /\ slots \in Nat \ {0} /\ slots = transport + sync
             /\ ws = HoldAll(units, transport)
                       \cup {h \in {Hold("SYNC", transport, sync)} : h.len > 0}
             /\ Divides(ws, slots)
<1> DEFINE slots == transport + sync
           L == HoldAll(units, transport)
           H == Hold("SYNC", transport, sync)
           W == L \cup {h \in {H} : h.len > 0}
<1>1. TransferSlots(transport, sync) = slots  BY DEF TransferSlots
<1>2. Greatest(1, slots - sync) = transport /\ slots - transport = sync  BY DEF Greatest
<1>3. TransferReservations(units, slots, sync) = W
  BY <1>2 DEF TransferReservations
<1>4. H.res = "SYNC" /\ H.off = transport /\ H.len = sync  BY DEF Hold
<1>5. \A h \in L : h.res # "SYNC" /\ h.off = 0 /\ h.len = transport
  BY DEF HoldAll, Hold
<1>6. Divides(L, transport)  BY HoldAllDivides
<1> HIDE DEF H, L
<1>7. Within(W, slots)  BY <1>4, <1>5 DEF Within
<1>8. Apart(W)  BY <1>4, <1>5, <1>6 DEF Apart, Divides
<1>9. Covering(W, slots)
  <2> SUFFICES ASSUME NEW s \in 0..(slots - 1) PROVE \E h \in W : h.off <= s /\ s < h.off + h.len
    BY DEF Covering
  <2>1. CASE s < transport  BY <2>1, <1>6 DEF Divides, Covering
  <2>2. CASE transport <= s  BY <2>2, <1>4
  <2> QED  BY <2>1, <2>2
<1> QED  BY <1>1, <1>3, <1>7, <1>8, <1>9 DEF Divides, H, L

(* Every window is a hold of a unit of the block, or of one that the splitting of a stage
   brings in, and what is returned for a transfer holds its link and SYNC. *)
LEMMA WindowsHold ==
  ASSUME NEW macro, NEW stage, NEW units, NEW slots, NEW c,
         NEW h \in StageReservations(macro, stage, units, slots, c)
  PROVE  h = Hold(h.res, h.off, h.len) /\ h.res \in units \cup {"VPU", "MXU", "DMA", "WDQ"}
<1>1. \A n : \A w \in HoldAll(units, n) : w = Hold(w.res, w.off, w.len) /\ w.res \in units
  BY DEF HoldAll, Hold
<1>2. \A w \in SplitDma(macro, stage, slots, c) :
        w = Hold(w.res, w.off, w.len) /\ w.res \in {"VPU", "DMA", "WDQ"}
  BY DEF SplitDma, Hold, SideUnit
<1>3. \A p, m, t : \A w \in Phased(p, m, t) :
        w = Hold(w.res, w.off, w.len) /\ w.res \in {"VPU", "MXU"}
  BY DEF Phased, Hold
<1>4. \A u, o, n : LET w == Hold(u, o, n) IN w = Hold(w.res, w.off, w.len) /\ w.res = u
  BY DEF Hold
<1>5. \A w \in SplitCompute(macro, units, slots, c) :
        w = Hold(w.res, w.off, w.len) /\ w.res \in units \cup {"VPU", "MXU", "DMA", "WDQ"}
  BY <1>1, <1>3, <1>4 DEF SplitCompute
<1> QED  BY <1>1, <1>2, <1>5 DEF StageReservations

(* And so is every window of a transfer, which holds its link and SYNC. *)
LEMMA TransferWindowsHold ==
  ASSUME NEW units, NEW slots, NEW sync, NEW h \in TransferReservations(units, slots, sync)
  PROVE  h = Hold(h.res, h.off, h.len) /\ h.res \in units \cup {"SYNC"}
  BY DEF TransferReservations, HoldAll, Hold
=============================================================================
