------------------------- MODULE ListSchedulerProofs --------------------------
(***************************************************************************)
(* Theorems about ListScheduler, for every set of jobs.  The invariant IInv*)
(* comes first, with what follows from it alone and the refinement of      *)
(* ScheduleContract; then the order in which blocks are issued: dependencies*)
(* first, none lost, each as early as the blocks issued before it allow, and*)
(* in the order of time.                                                   *)
(***************************************************************************)
EXTENDS ListScheduler, FiniteSetTheorems, TLAPS

-----------------------------------------------------------------------------
(* Numbers.                                                                *)

(* A nonempty set of naturals has a least element. *)
LEMMA LeastNatural ==
  ASSUME NEW S \in SUBSET Nat, S # {}
  PROVE  \E m \in S : \A n \in S : m <= n
<1> DEFINE R == {ss \in Nat \X Nat : ss[1] < ss[2]}
<1>1. IsWellFoundedOn(R, Nat)
  BY NatLessThanWellFounded DEF OpToRel
<1>2. PICK m \in S : \A n \in S : <<n, m>> \notin R
  BY <1>1, WFMin, Zenon
<1>3. ASSUME NEW n \in S PROVE m <= n
  <2>1. <<n, m>> \in Nat \X Nat /\ ~ (<<n, m>> \in R)
    BY <1>2
  <2>2. ~ (n < m)
    BY <2>1
  <2>3. n \in Nat /\ m \in Nat
    OBVIOUS
  <2> QED BY <2>2, <2>3
<1> QED BY <1>3

(* So does one with an upper bound have a greatest element. *)
LEMMA GreatestNatural ==
  ASSUME NEW S \in SUBSET Nat, S # {}, NEW bound \in Nat, \A n \in S : n <= bound
  PROVE  \E m \in S : \A n \in S : n <= m
<1> DEFINE T == {bound - n : n \in S}
<1>1. ASSUME NEW n \in S PROVE bound - n \in Nat
  <2>1. n \in Nat /\ n <= bound
    OBVIOUS
  <2> QED BY <2>1
<1>2. T \in SUBSET Nat /\ T # {}
  BY <1>1
<1>3. PICK k \in T : \A n \in T : k <= n
  BY <1>2, LeastNatural
<1>4. PICK m \in S : k = bound - m
  BY <1>3
<1>5. ASSUME NEW n \in S PROVE n <= m
  <2>1. bound - m <= bound - n
    BY <1>3, <1>4
  <2>2. n \in Nat /\ m \in Nat
    OBVIOUS
  <2> QED BY <2>1, <2>2
<1> QED BY <1>5

-----------------------------------------------------------------------------
(* The calendar.                                                           *)

(* Intervals that are not empty and, on one resource, disjoint. *)
Orderly(R) ==
  /\ R \subseteq Window
  /\ \A w \in R : w.start < w.stop
  /\ \A v, w \in R : v # w /\ v.res = w.res => ~ Overlap(v.start, v.stop, w.start, w.stop)

(* find_earliest_issue_slot looks at the two intervals around a request only,
   but if any interval of an orderly calendar is in the way, one of these is. *)
LEMMA NeighboursSuffice ==
  ASSUME Orderly(reserved), NEW q \in Request, q.len > 0, NEW t \in Nat,
         NEW w \in reserved, w.res = q.res,
         Overlap(w.start, w.stop, t + q.off, t + q.off + q.len)
  PROVE  Hit(q, t) # {}
<1> DEFINE s == t + q.off
           e == t + q.off + q.len
<1>0. s \in Nat /\ e \in Nat /\ s < e
  BY DEF Request
<1>1. \A v \in reserved : v.start \in Nat /\ v.stop \in Nat /\ v.start < v.stop
  BY DEF Orderly, Window
<1>2. w.start < e /\ s < w.stop
  BY DEF Overlap
<1>3. CASE w.start < s
  <2> DEFINE S == {v.start : v \in Before(q, t)}
  <2>1. w \in Before(q, t)
    BY <1>3 DEF Before
  <2>2. S \in SUBSET Nat /\ S # {} /\ \A n \in S : n <= s
    BY <1>0, <1>1, <2>1 DEF Before
  <2>3. PICK m \in S : \A n \in S : n <= m
    BY <1>0, <2>2, GreatestNatural
  <2>4. PICK v \in Before(q, t) : v.start = m
    BY <2>3
  <2>5. v \in LeftNeighbour(q, t)
    BY <2>3, <2>4 DEF LeftNeighbour
  <2>6. v \in reserved /\ v.res = q.res /\ v.start < s /\ w.start <= v.start
    BY <2>1, <2>3, <2>4 DEF Before
  <2>7. v = w \/ v.stop <= w.start \/ w.stop <= v.start
    BY <1>1, <2>6 DEF Orderly, Overlap
  <2>8. v = w
    BY <1>0, <1>1, <1>2, <2>6, <2>7
  <2>9. w \in Hits(LeftNeighbour(q, t), q, t)
    BY <2>5, <2>8 DEF Hits
  <2> QED BY <2>9 DEF Hit
<1>4. CASE s <= w.start
  <2> DEFINE S == {v.start : v \in After(q, t)}
  <2>1. w \in After(q, t)
    BY <1>4 DEF After
  <2>2. S \in SUBSET Nat /\ S # {}
    BY <1>1, <2>1 DEF After
  <2>3. PICK m \in S : \A n \in S : m <= n
    BY <2>2, LeastNatural
  <2>4. PICK v \in After(q, t) : v.start = m
    BY <2>3
  <2>5. v \in RightNeighbour(q, t)
    BY <2>3, <2>4 DEF RightNeighbour
  <2>6. v \in reserved /\ s <= v.start /\ v.start <= w.start
    BY <2>1, <2>3, <2>4 DEF After
  <2>7. Overlap(v.start, v.stop, s, e)
    BY <1>0, <1>1, <1>2, <2>6 DEF Overlap
  <2>8. v \in Hits(RightNeighbour(q, t), q, t)
    BY <2>5, <2>7 DEF Hits
  <2> QED BY <2>8 DEF Hit
<1> QED BY <1>0, <1>1, <1>3, <1>4

(* A slot that find_earliest_issue_slot settles for is free: none of the
   reserved intervals meets a request of the block there. *)
LEMMA ClearIsFree ==
  ASSUME Orderly(reserved), NEW b, Live(b) \subseteq Request, NEW t \in Nat,
         ClearSlots(b, t) = {}
  PROVE  \A q \in Live(b), w \in reserved :
           w.res = q.res => ~ Overlap(w.start, w.stop, t + q.off, t + q.off + q.len)
<1> SUFFICES ASSUME NEW q \in Live(b), NEW w \in reserved, w.res = q.res,
                    Overlap(w.start, w.stop, t + q.off, t + q.off + q.len)
             PROVE  FALSE
  OBVIOUS
<1>1. q \in Request /\ q.len > 0
  BY DEF Live
<1>2. PICK v \in Hit(q, t) : TRUE
  BY <1>1, NeighboursSuffice
<1>3. v.stop - q.off \in ClearSlots(b, t)
  BY <1>2 DEF ClearSlots
<1> QED BY <1>3

(* Every turn of the slot search moves on. *)
LEMMA ClearSlotsForward ==
  ASSUME Orderly(reserved), NEW b, Live(b) \subseteq Request, NEW t \in Nat,
         NEW u \in ClearSlots(b, t)
  PROVE  u \in Nat /\ t < u
<1>0. PICK q \in Live(b) : u \in {w.stop - q.off : w \in Hit(q, t)}
  BY DEF ClearSlots
<1>1. PICK w \in Hit(q, t) : u = w.stop - q.off
  BY <1>0
<1>2. w \in reserved /\ Overlap(w.start, w.stop, t + q.off, t + q.off + q.len)
  BY <1>1 DEF Hit, Hits, LeftNeighbour, RightNeighbour, Before, After
<1>3. w.stop \in Nat /\ q.off \in Nat
  BY <1>1, <1>2 DEF Orderly, Window, Request
<1>4. t + q.off < w.stop
  BY <1>2 DEF Overlap
<1> QED BY <1>1, <1>3, <1>4

-----------------------------------------------------------------------------
(* The inductive invariant.                                                *)

Ready(b) == b \in job.blocks \ Issued /\ job.depends[b] \subseteq Issued

(* The counts are exact, and the schedule is closed under dependencies. *)
CountsOK ==
  /\ \A b \in job.blocks : remaining[b] = Cardinality(job.depends[b] \ Issued)
  /\ \A b \in Issued : job.depends[b] \subseteq Issued

(* A ready block is in one place at a time. *)
QueueOK ==
  /\ \A e \in heap : Ready(e.block)
  /\ \A e, f \in heap : e.block = f.block => e = f
  /\ \A b \in waking : Ready(b) /\ \A e \in heap : e.block # b

SearchOK ==
  phase = "search" =>
    /\ Ready(cur)
    /\ IF popped = Fresh THEN cur \in waking
       ELSE waking = {} /\ \A e \in heap : e.block # cur
    /\ \A d \in job.depends[cur] : EndSlot(d) <= probe

(* The calendar holds the windows of the issued blocks and nothing else. *)
CalendarOK == reserved = UNION {WindowsOf(b, issue[b]) : b \in Issued}

IInv == TypeOK /\ CountsOK /\ QueueOK /\ SearchOK /\ CalendarOK /\ Exclusive

(* What a well-formed job says of one block; its live requests are finitely many. *)
LEMMA BlockTypes ==
  ASSUME TypeOK, NEW b \in job.blocks
  PROVE  /\ job.depends[b] \subseteq job.blocks
         /\ IsFiniteSet(job.depends[b])
         /\ job.duration[b] \in Nat \ {0}
         /\ job.requests[b] \subseteq Request
         /\ Live(b) \subseteq Request
         /\ SelfConsistent(job.requests[b])
<1>1. IsFiniteSet(job.blocks) /\ job.depends[b] \subseteq job.blocks
  BY DEF TypeOK, WellFormed
<1>2. IsFiniteSet(job.depends[b])
  BY <1>1, FS_Subset
<1> QED BY <1>1, <1>2 DEF TypeOK, WellFormed, Live

(* An issued block is a block of the job, issued at a natural slot. *)
LEMMA IssuedTypes ==
  ASSUME TypeOK, NEW b \in Issued
  PROVE  b \in job.blocks /\ issue[b] \in Nat
BY DEF TypeOK, Issued

(* The calendar of a reachable state is orderly: finitely many proper windows,
   disjoint on each resource.  The neighbour search relies on it. *)
LEMMA CalendarOrderly ==
  ASSUME IInv
  PROVE  Orderly(reserved)
<1> USE DEF IInv
<1>1. ASSUME NEW w \in reserved
      PROVE  \E b \in Issued : \E q \in Live(b) :
               w = [res |-> q.res, start |-> issue[b] + q.off, stop |-> issue[b] + q.off + q.len]
  BY DEF CalendarOK, WindowsOf
<1>2. ASSUME NEW b \in Issued, NEW q \in Live(b)
      PROVE  /\ issue[b] \in Nat /\ q \in job.requests[b]
             /\ q.off \in Nat /\ q.len \in Nat /\ q.len > 0
  <2>1. b \in job.blocks /\ issue[b] \in Nat
    BY IssuedTypes
  <2>2. q \in Request /\ q.len > 0 /\ q \in job.requests[b]
    BY <2>1, BlockTypes DEF Live
  <2> QED BY <2>1, <2>2 DEF Request
<1>3. reserved \subseteq Window
  BY DEF TypeOK
<1>4. ASSUME NEW w \in reserved PROVE w.start < w.stop
  <2>1. PICK b \in Issued : \E q \in Live(b) :
          w = [res |-> q.res, start |-> issue[b] + q.off, stop |-> issue[b] + q.off + q.len]
    BY <1>1
  <2>2. PICK q \in Live(b) :
          w = [res |-> q.res, start |-> issue[b] + q.off, stop |-> issue[b] + q.off + q.len]
    BY <2>1
  <2> QED BY <1>2, <2>2
<1>5. ASSUME NEW v \in reserved, NEW w \in reserved, v # w, v.res = w.res
      PROVE  ~ Overlap(v.start, v.stop, w.start, w.stop)
  <2>1. PICK a \in Issued : \E p \in Live(a) :
          v = [res |-> p.res, start |-> issue[a] + p.off, stop |-> issue[a] + p.off + p.len]
    BY <1>1
  <2>2. PICK p \in Live(a) :
          v = [res |-> p.res, start |-> issue[a] + p.off, stop |-> issue[a] + p.off + p.len]
    BY <2>1
  <2>3. PICK b \in Issued : \E q \in Live(b) :
          w = [res |-> q.res, start |-> issue[b] + q.off, stop |-> issue[b] + q.off + q.len]
    BY <1>1
  <2>4. PICK q \in Live(b) :
          w = [res |-> q.res, start |-> issue[b] + q.off, stop |-> issue[b] + q.off + q.len]
    BY <2>3
  <2>5. p.res = q.res
    BY <2>2, <2>4, <1>5
  <2>6. CASE a # b
    <3>1. ~ Collide(a, issue[a], b, issue[b])
      BY <2>6 DEF Exclusive
    <3>2. ~ Overlap(issue[a] + p.off, issue[a] + p.off + p.len,
                    issue[b] + q.off, issue[b] + q.off + q.len)
      BY <2>5, <3>1 DEF Collide
    <3> QED BY <2>2, <2>4, <3>2
  <2>7. CASE a = b
    <3>1. p # q
      BY <2>2, <2>4, <2>7, <1>5
    <3>2. a \in job.blocks
      BY IssuedTypes
    <3>3. SelfConsistent(job.requests[a])
      BY <3>2, BlockTypes
    <3>4. ~ Overlap(p.off, p.off + p.len, q.off, q.off + q.len)
      BY <1>2, <2>5, <2>7, <3>1, <3>3 DEF SelfConsistent
    <3> QED BY <1>2, <2>2, <2>4, <2>7, <3>4 DEF Overlap
  <2> QED BY <2>6, <2>7
<1> QED BY <1>3, <1>4, <1>5 DEF Orderly

(* A slot that is clear of the calendar collides with no issued block. *)
LEMMA FoundFits ==
  ASSUME IInv, Found
  PROVE  /\ cur \in job.blocks \ Issued
         /\ \A a \in Issued : ~ Collide(a, issue[a], cur, probe)
<1> USE DEF IInv
<1>1. cur \in job.blocks \ Issued /\ probe \in Nat
  BY DEF SearchOK, Found, Ready, TypeOK
<1>2. Live(cur) \subseteq Request
  BY <1>1, BlockTypes
<1>3. \A r \in Live(cur), w \in reserved :
        w.res = r.res => ~ Overlap(w.start, w.stop, probe + r.off, probe + r.off + r.len)
  BY <1>1, <1>2, CalendarOrderly, ClearIsFree DEF Found
<1>4. ASSUME NEW a \in Issued, NEW q \in Live(a), NEW r \in Live(cur), q.res = r.res
      PROVE  ~ Overlap(issue[a] + q.off, issue[a] + q.off + q.len,
                       probe + r.off, probe + r.off + r.len)
  <2> DEFINE w == [res |-> q.res, start |-> issue[a] + q.off, stop |-> issue[a] + q.off + q.len]
  <2>1. w \in WindowsOf(a, issue[a])
    BY DEF WindowsOf
  <2>2. w \in reserved
    BY <2>1 DEF CalendarOK
  <2> QED BY <1>3, <1>4, <2>2
<1> QED BY <1>1, <1>4 DEF Collide

-----------------------------------------------------------------------------
(* The invariant holds initially and every step preserves it.              *)

(* The invariant holds of the empty calendar and the heap of blocks without
   dependencies. *)
LEMMA InitInvariant == Init => IInv
<1> SUFFICES ASSUME Init PROVE IInv
  OBVIOUS
<1> USE DEF Init
<1>1. WellFormed(job)
  BY JobsAssumption
<1>2. Issued = {}
  BY DEF Issued, NotIssued
<1>3. \A b \in job.blocks : Cardinality(job.depends[b]) \in Nat
  <2> SUFFICES ASSUME NEW b \in job.blocks PROVE Cardinality(job.depends[b]) \in Nat
    OBVIOUS
  <2>1. IsFiniteSet(job.blocks) /\ job.depends[b] \in SUBSET job.blocks
    BY <1>1 DEF WellFormed
  <2>2. IsFiniteSet(job.depends[b])
    BY <2>1, FS_Subset
  <2> QED BY <2>2, FS_CardinalityType
<1>4. TypeOK
  <2>1. issue \in [job.blocks -> Nat \cup {NotIssued}]
    BY DEF NotIssued
  <2>2. heap \subseteq [slot : Nat, block : job.blocks]
    OBVIOUS
  <2>3. remaining \in [job.blocks -> Nat]
    BY <1>3
  <2>4. blocks \in Seq(job.blocks)
    OBVIOUS
  <2> QED BY <1>1, <2>1, <2>2, <2>3, <2>4 DEF TypeOK, Fresh
<1>5. CountsOK
  BY <1>2 DEF CountsOK
<1>6. QueueOK
  BY <1>2 DEF QueueOK, Ready
<1>7. SearchOK
  BY DEF SearchOK
<1>8. CalendarOK
  BY <1>2 DEF CalendarOK
<1>9. Exclusive
  BY <1>2 DEF Exclusive
<1> QED BY <1>4, <1>5, <1>6, <1>7, <1>8, <1>9 DEF IInv

(* What a step that places no block leaves as it was. *)
LEMMA Unplaced ==
  ASSUME UNCHANGED <<job, issue>>
  PROVE  /\ Issued' = Issued
         /\ \A b : EndSlot(b)' = EndSlot(b) /\ (Ready(b)' <=> Ready(b))
         /\ Exclusive <=> Exclusive'
         /\ (CalendarOK /\ reserved' = reserved) => CalendarOK'
         /\ (CountsOK /\ remaining' = remaining) => CountsOK'
<1>1. Issued' = Issued
  BY DEF Issued
<1>2. \A b : EndSlot(b)' = EndSlot(b) /\ (Ready(b)' <=> Ready(b))
  BY <1>1 DEF EndSlot, Ready
<1>3. Exclusive <=> Exclusive'
  BY <1>1 DEF Exclusive, Collide, Live
<1>4. (CalendarOK /\ reserved' = reserved) => CalendarOK'
  BY <1>1 DEF CalendarOK, WindowsOf, Live
<1>5. (CountsOK /\ remaining' = remaining) => CountsOK'
  BY <1>1 DEF CountsOK
<1> QED BY <1>1, <1>2, <1>3, <1>4, <1>5

(* A search that has just started is where the dependencies end. *)
LEMMA SearchStarts ==
  ASSUME IInv, NEW b, Ready(b), NEW since, StartSearch(b, since), UNCHANGED <<job, issue>>
  PROVE  /\ phase' = "search" /\ cur' = b /\ popped' = since /\ cur' \in job.blocks
         /\ probe' \in Nat
         /\ \A d \in job.depends[b] : EndSlot(d)' <= probe'
<1> USE DEF IInv
<1>1. b \in job.blocks /\ job.depends[b] \subseteq Issued
  BY DEF Ready
<1>2. \A d \in job.depends[b] : EndSlot(d) \in Nat
  BY <1>1, IssuedTypes, BlockTypes DEF EndSlot
<1>3. ReadySlots(b) \subseteq Nat
  BY <1>2 DEF ReadySlots
<1>4. IsMax(probe', ReadySlots(b))
  BY DEF StartSearch
<1>5. probe' \in Nat /\ \A d \in job.depends[b] : EndSlot(d) <= probe'
  BY <1>3, <1>4 DEF IsMax, ReadySlots
<1>6. \A d : EndSlot(d)' = EndSlot(d)
  BY Unplaced
<1> QED BY <1>1, <1>5, <1>6 DEF StartSearch

(* Popping the heap's first entry and starting its search keep the invariant. *)
LEMMA PopPreserves == IInv /\ Pop => IInv'
<1> SUFFICES ASSUME IInv, Pop PROVE IInv'
  OBVIOUS
<1> USE DEF IInv
<1>0. UNCHANGED <<job, issue, waking, remaining, reserved, blocks>>
  BY DEF Pop
<1>1. PICK e \in heap : heap' = heap \ {e} /\ StartSearch(e.block, e.slot)
  BY DEF Pop
<1>2. Ready(e.block) /\ e.slot \in Nat /\ waking = {}
  BY <1>1 DEF QueueOK, TypeOK, Pop
<1>3. /\ phase' = "search" /\ cur' = e.block /\ popped' = e.slot /\ cur' \in job.blocks
      /\ probe' \in Nat /\ \A d \in job.depends[e.block] : EndSlot(d)' <= probe'
  BY <1>0, <1>1, <1>2, SearchStarts
<1>4. TypeOK'
  BY <1>0, <1>1, <1>2, <1>3 DEF TypeOK, WellFormed
<1>5. QueueOK'
  BY <1>0, <1>1, Unplaced DEF QueueOK
<1>6. SearchOK'
  <2>1. Ready(cur)'
    BY <1>0, <1>2, <1>3, Unplaced DEF Ready
  <2>2. \A f \in heap' : f.block # cur'
    BY <1>1, <1>3 DEF QueueOK
  <2>3. popped' # Fresh
    BY <1>2, <1>3 DEF Fresh
  <2>4. waking' = {}
    BY <1>0, <1>2
  <2> QED BY <1>0, <1>3, <2>1, <2>2, <2>3, <2>4 DEF SearchOK, EndSlot
<1> QED BY <1>0, <1>4, <1>5, <1>6, Unplaced

(* So does starting the search of a block whose last dependency was issued. *)
LEMMA WakePreserves == IInv /\ Wake => IInv'
<1> SUFFICES ASSUME IInv, Wake PROVE IInv'
  OBVIOUS
<1> USE DEF IInv
<1>0. UNCHANGED <<job, issue, heap, waking, remaining, reserved, blocks>>
  BY DEF Wake
<1>1. PICK b \in waking : StartSearch(b, Fresh)
  BY DEF Wake
<1>2. Ready(b)
  BY <1>1 DEF QueueOK
<1>3. /\ phase' = "search" /\ cur' = b /\ popped' = Fresh /\ cur' \in job.blocks
      /\ probe' \in Nat /\ \A d \in job.depends[b] : EndSlot(d)' <= probe'
  BY <1>0, <1>1, <1>2, SearchStarts
<1>4. TypeOK'
  BY <1>0, <1>3 DEF TypeOK, WellFormed
<1>5. QueueOK'
  BY <1>0, Unplaced DEF QueueOK
<1>6. SearchOK'
  <2>1. Ready(cur)'
    BY <1>0, <1>2, <1>3, Unplaced DEF Ready
  <2> QED BY <1>0, <1>1, <1>3, <2>1 DEF SearchOK, EndSlot
<1> QED BY <1>0, <1>4, <1>5, <1>6, Unplaced

(* So does a turn of the slot search: the probe only moves forward. *)
LEMMA SlipPreserves == IInv /\ Slip => IInv'
<1> SUFFICES ASSUME IInv, Slip PROVE IInv'
  OBVIOUS
<1> USE DEF IInv
<1>0. UNCHANGED <<job, issue, phase, cur, popped, heap, waking, remaining, reserved, blocks>>
  BY DEF Slip
<1>1. probe' \in ClearSlots(cur, probe) /\ phase = "search" /\ probe \in Nat
  BY DEF Slip, IsMax, TypeOK
<1>2. cur \in job.blocks
  BY <1>1 DEF TypeOK
<1>3. probe' \in Nat /\ probe < probe'
  BY <1>1, <1>2, BlockTypes, CalendarOrderly, ClearSlotsForward
<1>4. TypeOK'
  BY <1>0, <1>3 DEF TypeOK, WellFormed
<1>5. QueueOK'
  BY <1>0, Unplaced DEF QueueOK
<1>6. SearchOK'
  <2>1. Ready(cur) /\ \A d \in job.depends[cur] : EndSlot(d) <= probe
    BY <1>1 DEF SearchOK
  <2>2. \A d \in job.depends[cur] : EndSlot(d) \in Nat
    BY <1>2, <2>1, IssuedTypes, BlockTypes DEF EndSlot, Ready
  <2>3. \A d \in job.depends[cur] : EndSlot(d) <= probe'
    BY <1>1, <1>3, <2>1, <2>2
  <2> QED BY <1>0, <2>1, <2>3, Unplaced DEF SearchOK
<1> QED BY <1>0, <1>4, <1>5, <1>6, Unplaced

(* Pushing the block of the search: PushReady and Requeue. *)
LEMMA PushPreserves == IInv /\ (PushReady \/ Requeue) => IInv'
<1> SUFFICES ASSUME IInv, PushReady \/ Requeue PROVE IInv'
  OBVIOUS
<1> USE DEF IInv
<1>0. UNCHANGED <<job, issue, cur, probe, popped, remaining, reserved, blocks>>
  BY DEF PushReady, Requeue
<1>1. phase = "search" /\ phase' = "select"
  BY DEF PushReady, Requeue, Found
<1>2. heap' = heap \cup {[slot |-> probe, block |-> cur]}
  BY DEF PushReady, Requeue, PushEntry
<1>3. Ready(cur) /\ cur \in job.blocks /\ probe \in Nat
  BY <1>1 DEF SearchOK, TypeOK
<1>4. waking' \subseteq waking /\ cur \notin waking' /\ \A e \in heap : e.block # cur
  <2>1. CASE PushReady
    <3>1. cur \in waking /\ waking' = waking \ {cur}
      BY <1>1, <2>1 DEF SearchOK, PushReady
    <3> QED BY <3>1 DEF QueueOK
  <2>2. CASE Requeue
    <3>1. waking = {} /\ waking' = waking /\ \A e \in heap : e.block # cur
      BY <1>1, <2>2 DEF SearchOK, Requeue
    <3> QED BY <3>1
  <2> QED BY <2>1, <2>2
<1>5. TypeOK'
  BY <1>0, <1>1, <1>2, <1>3, <1>4 DEF TypeOK, WellFormed
<1>6. QueueOK'
  <2>1. \A e \in heap' : Ready(e.block)'
    BY <1>0, <1>2, <1>3, Unplaced DEF QueueOK
  <2>2. \A e, f \in heap' : e.block = f.block => e = f
    BY <1>2, <1>4 DEF QueueOK
  <2>3. \A b \in waking' : Ready(b)' /\ \A e \in heap' : e.block # b
    BY <1>0, <1>2, <1>4, Unplaced DEF QueueOK
  <2> QED BY <2>1, <2>2, <2>3 DEF QueueOK
<1>7. SearchOK'
  BY <1>1 DEF SearchOK
<1> QED BY <1>0, <1>5, <1>6, <1>7, Unplaced

(* What placing the block of the search does to the schedule. *)
LEMMA EmitPlaces ==
  ASSUME IInv, Emit
  PROVE  /\ cur \in job.blocks \ Issued /\ job.depends[cur] \subseteq Issued
         /\ probe \in Nat /\ waking = {} /\ \A e \in heap : e.block # cur
         /\ issue' = [issue EXCEPT ![cur] = probe]
         /\ Issued' = Issued \cup {cur}
         /\ issue'[cur] = probe /\ \A b \in Issued : issue'[b] = issue[b]
         /\ job' = job
<1> USE DEF IInv
<1>1. phase = "search" /\ popped = probe /\ job' = job /\ issue' = [issue EXCEPT ![cur] = probe]
  BY DEF Emit, Found
<1>2. probe \in Nat /\ popped # Fresh
  BY <1>1 DEF TypeOK, Fresh
<1>3. /\ cur \in job.blocks \ Issued /\ job.depends[cur] \subseteq Issued
      /\ waking = {} /\ \A e \in heap : e.block # cur
  BY <1>1, <1>2 DEF SearchOK, Ready
<1>4. issue \in [job.blocks -> Nat \cup {NotIssued}]
  BY DEF TypeOK
<1>5. Issued' = Issued \cup {cur}
  BY <1>1, <1>2, <1>3, <1>4 DEF Issued, NotIssued
<1>6. issue'[cur] = probe /\ \A b \in Issued : issue'[b] = issue[b]
  BY <1>1, <1>3, <1>4 DEF Issued
<1> QED BY <1>1, <1>2, <1>3, <1>5, <1>6

(* Issuing a block counts it out of its dependents, and out of no other. *)
LEMMA EmitCounts ==
  ASSUME IInv, Emit
  PROVE  /\ CountsOK'
         /\ remaining' \in [job.blocks -> Nat]
         /\ \A b \in job.blocks : Woken(b) => job.depends[b] \subseteq Issued' /\ b \notin Issued'
<1> USE DEF IInv
<1>0. /\ remaining' = [b \in job.blocks |->
                        IF cur \in job.depends[b] THEN remaining[b] - 1 ELSE remaining[b]]
      /\ job' = job
  BY DEF Emit
<1>1. cur \in job.blocks \ Issued /\ job.depends[cur] \subseteq Issued /\ Issued' = Issued \cup {cur}
  BY EmitPlaces
<1>2. ASSUME NEW b \in job.blocks
      PROVE  /\ remaining'[b] = Cardinality(job.depends[b] \ Issued')
             /\ remaining'[b] \in Nat
             /\ Woken(b) => job.depends[b] \subseteq Issued'
  <2> DEFINE Open == job.depends[b] \ Issued
  <2>1. IsFiniteSet(Open) /\ remaining[b] = Cardinality(Open)
    <3>1. IsFiniteSet(job.depends[b]) /\ Open \in SUBSET job.depends[b]
      BY BlockTypes
    <3> QED BY <3>1, FS_Subset DEF CountsOK
  <2>2. job.depends[b] \ Issued' = Open \ {cur}
    BY <1>1
  <2>3. /\ IsFiniteSet(Open \ {cur})
        /\ Cardinality(Open \ {cur}) =
             IF cur \in Open THEN Cardinality(Open) - 1 ELSE Cardinality(Open)
    BY <2>1, FS_RemoveElement
  <2>4. cur \in Open <=> cur \in job.depends[b]
    BY <1>1
  <2>5. remaining'[b] = Cardinality(job.depends[b] \ Issued')
    BY <1>0, <2>1, <2>2, <2>3, <2>4
  <2>6. remaining'[b] \in Nat
    BY <2>2, <2>3, <2>5, FS_CardinalityType
  <2>7. Woken(b) => job.depends[b] \subseteq Issued'
    <3>1. SUFFICES ASSUME Woken(b) PROVE job.depends[b] \subseteq Issued'
      OBVIOUS
    <3>2. cur \in job.depends[b] /\ remaining[b] = 1
      BY <3>1 DEF Woken
    <3>3. Cardinality(Open \ {cur}) = 0
      BY <2>1, <2>3, <2>4, <3>2
    <3>4. Open \ {cur} = {}
      BY <2>3, <3>3, FS_EmptySet
    <3> QED BY <2>2, <3>4
  <2> QED BY <2>5, <2>6, <2>7
<1>3. ASSUME NEW b \in job.blocks, Woken(b) PROVE b \notin Issued'
  <2>1. cur \in job.depends[b]
    BY <1>3 DEF Woken
  <2>2. b \notin Issued
    BY <1>1, <2>1 DEF CountsOK
  <2>3. b # cur
    BY <1>1, <2>1
  <2> QED BY <1>1, <2>2, <2>3
<1>4. \A b \in Issued' : job.depends[b] \subseteq Issued'
  BY <1>1 DEF CountsOK
<1>5. CountsOK'
  BY <1>0, <1>2, <1>4 DEF CountsOK
<1>6. remaining' \in [job.blocks -> Nat]
  BY <1>0, <1>2
<1> QED BY <1>2, <1>3, <1>5, <1>6

(* Issuing the block keeps the invariant: its windows, reserved at a slot the
   search found clear, meet no other, and each dependent's count goes down once. *)
LEMMA EmitPreserves == IInv /\ Emit => IInv'
<1> SUFFICES ASSUME IInv, Emit PROVE IInv'
  OBVIOUS
<1> USE DEF IInv
<1>0. /\ phase' = "select" /\ UNCHANGED <<job, cur, probe, popped, heap>>
      /\ blocks' = Append(blocks, cur) /\ reserved' = reserved \cup WindowsOf(cur, probe)
      /\ waking' = {b \in job.blocks : Woken(b)}
  BY DEF Emit
<1>1. /\ cur \in job.blocks \ Issued /\ job.depends[cur] \subseteq Issued
      /\ probe \in Nat /\ \A e \in heap : e.block # cur
      /\ issue' = [issue EXCEPT ![cur] = probe] /\ Issued' = Issued \cup {cur}
      /\ issue'[cur] = probe /\ \A b \in Issued : issue'[b] = issue[b]
  BY EmitPlaces
<1>2. Live(cur) \subseteq Request
  BY <1>1, BlockTypes
<1>3. WindowsOf(cur, probe) \subseteq Window
  BY <1>1, <1>2 DEF WindowsOf, Window, Request
<1>4. TypeOK'
  <2>1. issue' \in [job.blocks -> Nat \cup {NotIssued}]
    BY <1>1 DEF TypeOK
  <2>2. remaining' \in [job.blocks -> Nat]
    BY EmitCounts
  <2>3. blocks' \in Seq(job.blocks)
    BY <1>0, <1>1 DEF TypeOK
  <2>4. reserved' \subseteq Window /\ waking' \subseteq job.blocks
    BY <1>0, <1>3 DEF TypeOK
  <2> QED BY <1>0, <2>1, <2>2, <2>3, <2>4 DEF TypeOK, WellFormed
<1>5. QueueOK'
  <2>1. \A e \in heap' : Ready(e.block)'
    BY <1>0, <1>1 DEF QueueOK, Ready
  <2>2. \A e, f \in heap' : e.block = f.block => e = f
    BY <1>0 DEF QueueOK
  <2>3. \A b \in waking' : Ready(b)'
    BY <1>0, EmitCounts DEF Ready
  <2>4. \A b \in waking' : \A e \in heap' : e.block # b
    BY <1>0, <1>1 DEF QueueOK, Ready, Woken
  <2> QED BY <2>1, <2>2, <2>3, <2>4 DEF QueueOK
<1>6. SearchOK'
  BY <1>0 DEF SearchOK
<1>7. CalendarOK'
  <2>1. \A b \in Issued : WindowsOf(b, issue[b])' = WindowsOf(b, issue[b])
    BY <1>0, <1>1 DEF Live, WindowsOf
  <2>2. \A b : b = cur => WindowsOf(b, issue[b])' = WindowsOf(cur, probe)
    BY <1>0, <1>1 DEF Live, WindowsOf
  <2>3. ASSUME NEW w \in reserved' PROVE \E b \in Issued' : w \in WindowsOf(b, issue[b])'
    <3>1. CASE w \in reserved
      <4>1. PICK b \in Issued : w \in WindowsOf(b, issue[b])
        BY <3>1 DEF CalendarOK
      <4> QED BY <1>1, <2>1, <4>1
    <3>2. CASE w \in WindowsOf(cur, probe)
      BY <1>1, <2>2, <3>2
    <3> QED BY <1>0, <2>3, <3>1, <3>2
  <2>4. ASSUME NEW b \in Issued', NEW w \in WindowsOf(b, issue[b])' PROVE w \in reserved'
    <3>1. CASE b \in Issued
      <4>1. w \in WindowsOf(b, issue[b])
        BY <2>1, <2>4, <3>1
      <4> QED BY <1>0, <3>1, <4>1 DEF CalendarOK
    <3>2. CASE b = cur
      BY <1>0, <2>2, <2>4, <3>2
    <3> QED BY <1>1, <3>1, <3>2
  <2>5. reserved' = UNION {WindowsOf(b, issue[b])' : b \in Issued'}
    BY <2>3, <2>4
  <2> QED BY <2>5 DEF CalendarOK
<1>8. Exclusive'
  <2>1. \A a \in Issued : ~ Collide(a, issue[a], cur, probe)
    BY FoundFits DEF Emit
  <2>2. ASSUME NEW a \in Issued', NEW b \in Issued', a # b
        PROVE  ~ Collide(a, issue'[a], b, issue'[b])
    <3>1. CASE a \in Issued /\ b \in Issued
      BY <1>1, <2>2, <3>1 DEF Exclusive
    <3>2. CASE a \in Issued /\ b = cur
      BY <1>1, <2>1, <3>2
    <3>3. CASE a = cur /\ b \in Issued
      BY <1>1, <2>1, <3>3 DEF Collide, Overlap
    <3> QED BY <1>1, <2>2, <3>1, <3>2, <3>3
  <2>3. \A a, b : Collide(a, issue'[a], b, issue'[b]) <=> Collide(a, issue[a], b, issue[b])'
    BY <1>0 DEF Collide, Live
  <2> QED BY <2>2, <2>3 DEF Exclusive
<1> QED BY <1>4, <1>5, <1>6, <1>7, <1>8, EmitCounts

(* Leaving the loop changes nothing the invariant speaks of. *)
LEMMA FinishPreserves == IInv /\ Finish => IInv'
<1> SUFFICES ASSUME IInv, Finish PROVE IInv'
  OBVIOUS
<1> USE DEF IInv
<1>0. UNCHANGED <<job, issue, cur, probe, popped, heap, waking, remaining, reserved, blocks>>
  BY DEF Finish
<1>1. phase' = "done"
  BY DEF Finish
<1>2. TypeOK'
  BY <1>0, <1>1 DEF TypeOK, WellFormed
<1>3. QueueOK'
  BY <1>0, Unplaced DEF QueueOK
<1>4. SearchOK'
  BY <1>1 DEF SearchOK
<1> QED BY <1>0, <1>2, <1>3, <1>4, Unplaced

(* Nor does a step of the environment. *)
LEMMA StutterPreserves == IInv /\ UNCHANGED vars => IInv'
<1> SUFFICES ASSUME IInv, UNCHANGED vars PROVE IInv'
  OBVIOUS
<1> USE DEF IInv, vars
<1>1. TypeOK'
  BY DEF TypeOK, WellFormed
<1>2. QueueOK'
  BY Unplaced DEF QueueOK
<1>3. SearchOK'
  BY Unplaced DEF SearchOK
<1> QED BY <1>1, <1>2, <1>3, Unplaced

(* The inductive invariant: along the whole run of plan_dual_core_schedule's loop
   the counts, the heap, the search and the calendar agree with the schedule. *)
THEOREM Invariance == Spec => []IInv
<1>1. Init => IInv
  BY InitInvariant
<1>2. IInv /\ [Next]_vars => IInv'
  BY PopPreserves, WakePreserves, SlipPreserves, PushPreserves, EmitPreserves,
     FinishPreserves, StutterPreserves DEF Next
<1> QED BY <1>1, <1>2, PTL DEF Spec

-----------------------------------------------------------------------------

(* The scheduler's state keeps its types: in particular the dependency counts
   never go below zero and the slot search never leaves the naturals. *)
THEOREM TypeCorrect == Spec => []TypeOK
<1>1. IInv => TypeOK
  BY DEF IInv
<1> QED BY <1>1, Invariance, PTL

(* No resource is ever held by two blocks in the same slot, whatever the jobs. *)
THEOREM NeverDoubleBooked == Spec => []Exclusive
<1>1. IInv => Exclusive
  BY DEF IInv
<1> QED BY <1>1, Invariance, PTL

-----------------------------------------------------------------------------
(* The list scheduler implements the contract.                             *)

(* The contract's operators, instantiated, are the scheduler's own. *)
LEMMA ContractTerms ==
  /\ Contract!NotIssued = NotIssued /\ Contract!Issued = Issued
  /\ \A b : Contract!EndSlot(b) = EndSlot(b)
  /\ \A a, s, b, t : Contract!Collide(a, s, b, t) <=> Collide(a, s, b, t)
<1>1. Contract!NotIssued = NotIssued
  BY DEF Contract!NotIssued, NotIssued
<1>2. Contract!Issued = Issued
  BY <1>1 DEF Contract!Issued, Issued
<1>3. \A b : Contract!EndSlot(b) = EndSlot(b)
  BY DEF Contract!EndSlot, EndSlot
<1>4. \A a, s, b, t : Contract!Collide(a, s, b, t) <=> Collide(a, s, b, t)
  BY DEF Contract!Collide, Collide, Contract!Live, Live, Contract!Overlap, Overlap
<1> QED BY <1>1, <1>2, <1>3, <1>4

(* Issuing a block is a placement the contract allows. *)
LEMMA EmitIsPlace ==
  ASSUME IInv, Emit
  PROVE  Contract!Place(cur)
<1> USE DEF IInv
<1>1. /\ cur \in job.blocks \ Issued /\ job.depends[cur] \subseteq Issued /\ probe \in Nat
      /\ issue' = [issue EXCEPT ![cur] = probe] /\ issue'[cur] = probe /\ job' = job
  BY EmitPlaces
<1>2. issue[cur] = Contract!NotIssued
  BY <1>1, ContractTerms DEF Issued
<1>3. \A d \in job.depends[cur] : d \in Contract!Issued /\ Contract!EndSlot(d) <= probe
  <2>1. \A d \in job.depends[cur] : EndSlot(d) <= probe
    BY DEF SearchOK, Emit, Found
  <2> QED BY <1>1, <2>1, ContractTerms
<1>4. \A a \in Contract!Issued : ~ Contract!Collide(a, issue[a], cur, probe)
  <2>1. \A a \in Issued : ~ Collide(a, issue[a], cur, probe)
    BY FoundFits DEF Emit
  <2> QED BY <2>1, ContractTerms
<1> QED BY <1>1, <1>2, <1>3, <1>4 DEF Contract!Place

(* Every step of the loop is a placement of the contract or leaves the schedule
   as it is. *)
LEMMA StepIsPlace == IInv /\ [Next]_vars => [Contract!Next]_<<job, issue>>
<1> SUFFICES ASSUME IInv, [Next]_vars PROVE [Contract!Next]_<<job, issue>>
  OBVIOUS
<1>1. CASE Emit
  <2>1. Contract!Place(cur) /\ cur \in job.blocks
    BY <1>1, EmitIsPlace, EmitPlaces
  <2> QED BY <2>1 DEF Contract!Next
<1>2. CASE UNCHANGED <<job, issue>>
  BY <1>2
<1> QED
  BY <1>1, <1>2 DEF Next, Pop, Wake, Slip, PushReady, Requeue, Finish, vars

(* The loop of plan_dual_core_schedule implements ScheduleContract for every job:
   blocks are placed once, never moved, each after the blocks it depends on have
   ended, and never over a reservation of another. *)
THEOREM Refinement == Spec => Implements
<1>1. Init => Contract!Init
  BY ContractTerms DEF Init, Contract!Init
<1>2. IInv /\ [Next]_vars => [Contract!Next]_<<job, issue>>
  BY StepIsPlace
<1> QED BY <1>1, <1>2, Invariance, PTL DEF Spec, Implements, Contract!Spec

-----------------------------------------------------------------------------
(* The order of the schedule.                                              *)

Last == blocks[Len(blocks)]

(* Every step but Emit leaves the schedule as it is. *)
LEMMA OnlyEmitPlaces ==
  ASSUME Next, ~ Emit
  PROVE  UNCHANGED <<job, issue, blocks>>
BY DEF Next, Pop, Wake, Slip, PushReady, Requeue, Finish

(* What one more entry does to the list of issued blocks. *)
LEMMA EmitAppends ==
  ASSUME IInv, Emit
  PROVE  /\ blocks \in Seq(job.blocks) /\ Len(blocks) \in Nat
         /\ Len(blocks') = Len(blocks) + 1
         /\ \A i \in 1..Len(blocks) : blocks'[i] = blocks[i]
         /\ blocks'[Len(blocks) + 1] = cur
<1>1. blocks \in Seq(job.blocks) /\ blocks' = Append(blocks, cur)
  BY DEF IInv, TypeOK, Emit
<1> QED BY <1>1

-----------------------------------------------------------------------------
(* Dependencies first.                                                     *)

(* The list of issued blocks and the slots tell of the same blocks. *)
Recorded ==
  \A b \in job.blocks : b \in Issued <=> \E i \in 1..Len(blocks) : blocks[i] = b

(* Issuing a block puts it behind its dependencies, for the first time. *)
LEMMA EmitKeepsDependencies ==
  ASSUME IInv, Recorded, DependenciesFirst, Emit
  PROVE  Recorded' /\ DependenciesFirst'
<1>1. /\ cur \in job.blocks \ Issued /\ job.depends[cur] \subseteq Issued
      /\ Issued' = Issued \cup {cur} /\ issue'[cur] = probe
      /\ \A b \in Issued : issue'[b] = issue[b]
      /\ job' = job
  BY EmitPlaces
<1>2. /\ Len(blocks) \in Nat /\ Len(blocks') = Len(blocks) + 1
      /\ \A i \in 1..Len(blocks) : blocks'[i] = blocks[i] /\ blocks[i] \in job.blocks
      /\ blocks'[Len(blocks) + 1] = cur
  BY EmitAppends
<1>3. \A d \in job.depends[cur] : EndSlot(d) <= probe
  BY DEF IInv, SearchOK, Emit, Found
<1>4. \A b \in Issued : EndSlot(b)' = EndSlot(b)
  BY <1>1 DEF EndSlot
<1>5. \A i \in 1..Len(blocks) : blocks[i] \in Issued
  BY <1>2 DEF Recorded
<1>6. Recorded'
  <2> SUFFICES ASSUME NEW b \in job.blocks
               PROVE  b \in Issued' <=> \E i \in 1..Len(blocks') : blocks'[i] = b
    BY <1>1 DEF Recorded
  <2>1. ASSUME b \in Issued PROVE \E i \in 1..Len(blocks') : blocks'[i] = b
    <3>1. PICK i \in 1..Len(blocks) : blocks[i] = b
      BY <2>1 DEF Recorded
    <3> QED BY <1>2, <3>1
  <2>2. ASSUME b = cur PROVE \E i \in 1..Len(blocks') : blocks'[i] = b
    BY <1>2, <2>2
  <2>3. ASSUME NEW i \in 1..Len(blocks'), blocks'[i] = b PROVE b \in Issued'
    <3>1. i \in 1..Len(blocks) \/ i = Len(blocks) + 1
      BY <1>2
    <3> QED BY <1>1, <1>2, <1>5, <2>3, <3>1
  <2> QED BY <1>1, <2>1, <2>2, <2>3
<1>7. DependenciesFirst'
  <2> SUFFICES ASSUME NEW i \in 1..Len(blocks')
               PROVE  /\ \A k \in 1..(i - 1) : blocks'[k] # blocks'[i]
                      /\ \A d \in job.depends[blocks'[i]] :
                           /\ \E k \in 1..(i - 1) : blocks'[k] = d
                           /\ EndSlot(d)' <= issue'[blocks'[i]]
    BY <1>1 DEF DependenciesFirst
  <2>1. \A k \in 1..(i - 1) : k \in 1..Len(blocks) /\ blocks'[k] = blocks[k]
    BY <1>2
  <2>2. CASE i \in 1..Len(blocks)
    <3>1. blocks'[i] = blocks[i] /\ blocks[i] \in Issued
      BY <1>2, <1>5, <2>2
    <3>2. ASSUME NEW d \in job.depends[blocks[i]]
          PROVE  /\ \E k \in 1..(i - 1) : blocks'[k] = d
                 /\ EndSlot(d)' <= issue'[blocks[i]]
      <4>1. PICK k \in 1..(i - 1) : blocks[k] = d
        BY <2>2, <3>2 DEF DependenciesFirst
      <4>2. d \in Issued /\ EndSlot(d) <= issue[blocks[i]]
        BY <1>5, <2>1, <2>2, <3>2, <4>1 DEF DependenciesFirst
      <4> QED BY <1>1, <1>4, <2>1, <3>1, <4>1, <4>2
    <3>3. \A k \in 1..(i - 1) : blocks[k] # blocks[i]
      BY <2>2 DEF DependenciesFirst
    <3> QED BY <2>1, <3>1, <3>2, <3>3
  <2>3. CASE i = Len(blocks) + 1
    <3>1. blocks'[i] = cur /\ i - 1 = Len(blocks)
      BY <1>2, <2>3
    <3>2. \A k \in 1..(i - 1) : blocks'[k] # cur
      BY <1>1, <1>5, <2>1
    <3>3. ASSUME NEW d \in job.depends[cur]
          PROVE  /\ \E k \in 1..(i - 1) : blocks'[k] = d
                 /\ EndSlot(d)' <= issue'[cur]
      <4>1. d \in Issued /\ d \in job.blocks
        BY <1>1, <3>3 DEF Issued
      <4>2. PICK k \in 1..Len(blocks) : blocks[k] = d
        BY <4>1 DEF Recorded
      <4> QED BY <1>1, <1>3, <1>4, <2>1, <3>1, <3>3, <4>1, <4>2
    <3> QED BY <3>1, <3>2, <3>3
  <2> QED BY <1>2, <2>2, <2>3
<1> QED BY <1>6, <1>7

(* Along every run the list of issued blocks is the schedule, in an order that
   respects the dependencies. *)
THEOREM Bookkeeping == Spec => [](Recorded /\ DependenciesFirst)
<1> DEFINE Inv == Recorded /\ DependenciesFirst
<1>1. Init => Inv
  <2> SUFFICES ASSUME Init PROVE Inv
    OBVIOUS
  <2>1. Issued = {} /\ blocks = <<>>
    BY DEF Init, Issued, NotIssued
  <2> QED BY <2>1 DEF Recorded, DependenciesFirst
<1>2. IInv /\ Inv /\ [Next]_vars => Inv'
  <2> SUFFICES ASSUME IInv, Inv, [Next]_vars PROVE Inv'
    OBVIOUS
  <2>1. CASE Emit
    BY <2>1, EmitKeepsDependencies
  <2>2. CASE UNCHANGED <<job, issue, blocks>>
    BY <2>2, Unplaced DEF Recorded, DependenciesFirst
  <2> QED BY <2>1, <2>2, OnlyEmitPlaces DEF vars
<1> QED BY <1>1, <1>2, Invariance, PTL DEF Spec

(* A block enters the schedule once, after the blocks it depends on, and not
   before the last of them ends. *)
THEOREM IssuedAfterDependencies == Spec => []DependenciesFirst
BY Bookkeeping, PTL

-----------------------------------------------------------------------------
(* None lost.                                                              *)

(* A ready block waits somewhere: in the heap, among the woken, or in the
   search. *)
Accounted ==
  /\ \A b \in job.blocks : Ready(b) =>
       \/ \E e \in heap : e.block = b
       \/ b \in waking
       \/ phase = "search" /\ cur = b
  /\ phase = "done" => heap = {} /\ waking = {}

(* Issuing a block wakes those it was the last dependency of, so that the ready
   ones are still accounted for. *)
LEMMA EmitAccounts ==
  ASSUME IInv, Accounted, Emit
  PROVE  Accounted'
<1>1. /\ cur \in job.blocks \ Issued /\ waking = {}
      /\ Issued' = Issued \cup {cur} /\ job' = job
  BY EmitPlaces
<1>2. /\ phase' = "select" /\ heap' = heap
      /\ waking' = {b \in job.blocks : Woken(b)}
  BY DEF Emit
<1>3. ASSUME NEW b \in job.blocks, Ready(b)'
      PROVE  (\E e \in heap : e.block = b) \/ b \in waking'
  <2>1. b \notin Issued /\ b # cur /\ job.depends[b] \subseteq Issued \cup {cur}
    BY <1>1, <1>3 DEF Ready
  <2>2. CASE cur \in job.depends[b]
    <3>1. job.depends[b] \ Issued = {cur}
      BY <1>1, <2>1, <2>2
    <3>2. remaining[b] = 1
      BY <3>1, FS_Singleton DEF IInv, CountsOK
    <3> QED BY <1>2, <2>2, <3>2 DEF Woken
  <2>3. CASE cur \notin job.depends[b]
    <3>1. Ready(b)
      BY <2>1, <2>3 DEF Ready
    <3> QED BY <1>1, <2>1, <3>1 DEF Accounted
  <2> QED BY <2>2, <2>3
<1> QED BY <1>1, <1>2, <1>3 DEF Accounted

(* The other steps move blocks between the heap, the woken and the search. *)
LEMMA MoveAccounts ==
  ASSUME IInv, Accounted, Next, ~ Emit
  PROVE  Accounted'
<1>1. UNCHANGED <<job, issue>>
  BY OnlyEmitPlaces
<1>2. \A b : Ready(b)' <=> Ready(b)
  BY <1>1, Unplaced
<1>3. CASE Pop
  <2>1. PICK e \in heap : /\ heap' = heap \ {e} /\ phase' = "search" /\ cur' = e.block
                          /\ waking' = waking /\ phase = "select"
    BY <1>3 DEF Pop, StartSearch
  <2> QED BY <1>1, <1>2, <2>1 DEF Accounted
<1>4. CASE Wake
  <2>1. phase' = "search" /\ phase = "select" /\ heap' = heap /\ waking' = waking
    BY <1>4 DEF Wake, StartSearch
  <2> QED BY <1>1, <1>2, <2>1 DEF Accounted
<1>5. CASE Slip
  BY <1>1, <1>2, <1>5 DEF Slip, Accounted
<1>6. CASE PushReady \/ Requeue
  <2>1. /\ phase' = "select" /\ heap' = heap \cup {[slot |-> probe, block |-> cur]}
        /\ waking' \in {waking, waking \ {cur}}
    BY <1>6 DEF PushReady, Requeue, PushEntry
  <2>2. \E e \in heap' : e.block = cur
    <3>1. [slot |-> probe, block |-> cur] \in heap'
      BY <2>1
    <3> QED BY <3>1
  <2> QED BY <1>1, <1>2, <2>1, <2>2 DEF Accounted
<1>7. CASE Finish
  BY <1>1, <1>2, <1>7 DEF Finish, Accounted
<1> QED BY <1>3, <1>4, <1>5, <1>6, <1>7 DEF Next

(* When the loop ends, a block that is missing from the schedule depends on one
   that is missing as well. *)
THEOREM NoneLost == Spec => []NothingLost
<1>1. Init => Accounted
  <2> SUFFICES ASSUME Init PROVE Accounted
    OBVIOUS
  <2>1. Issued = {} /\ phase = "select"
    BY DEF Init, Issued, NotIssued
  <2>2. ASSUME NEW b \in job.blocks, Ready(b) PROVE \E e \in heap : e.block = b
    <3>1. [slot |-> 0, block |-> b] \in heap
      BY <2>1, <2>2 DEF Init, Ready
    <3> QED BY <3>1
  <2> QED BY <2>1, <2>2 DEF Accounted
<1>2. IInv /\ Accounted /\ [Next]_vars => Accounted'
  <2> SUFFICES ASSUME IInv, Accounted, [Next]_vars PROVE Accounted'
    OBVIOUS
  <2>1. CASE UNCHANGED vars
    BY <2>1, Unplaced DEF vars, Accounted
  <2> QED BY <2>1, EmitAccounts, MoveAccounts
<1>3. Accounted => NothingLost
  BY DEF Accounted, NothingLost, Ready
<1> QED BY <1>1, <1>2, <1>3, Invariance, PTL DEF Spec

-----------------------------------------------------------------------------
(* As early as possible.                                                   *)

(* At slot t an issued block holds a resource that b needs. *)
Blocked(b, t) == \E a \in Issued : Collide(a, issue[a], b, t)

(* There is no slot for b before slot s. *)
NoEarlier(b, s) ==
  \A t \in Nat :
    t < s /\ (\A d \in job.depends[b] : EndSlot(d) <= t) => Blocked(b, t)

(* Every slot found so far, waiting in the heap or reached by a search, is
   the earliest one: reservations made since may have taken it, but freed none. *)
SlotsTight ==
  /\ \A e \in heap : NoEarlier(e.block, e.slot)
  /\ phase = "search" =>
       /\ NoEarlier(cur, probe)
       /\ popped # Fresh => NoEarlier(cur, popped)

(* A step that places no block blocks and frees no slot. *)
LEMMA SlotsKept ==
  ASSUME UNCHANGED <<job, issue>>
  PROVE  \A b, s : NoEarlier(b, s)' <=> NoEarlier(b, s)
<1>1. Issued' = Issued
  BY DEF Issued
<1>2. \A b, t : Blocked(b, t)' <=> Blocked(b, t)
  BY <1>1 DEF Blocked, Collide, Live
<1> QED BY <1>2 DEF NoEarlier, EndSlot

(* Issuing a block frees no slot of another ready block. *)
LEMMA EmitFreesNothing ==
  ASSUME IInv, Emit, NEW b, Ready(b), NEW s, NoEarlier(b, s)
  PROVE  NoEarlier(b, s)'
<1>1. Issued \subseteq Issued' /\ job' = job /\ \A a \in Issued : issue'[a] = issue[a]
  BY EmitPlaces
<1>2. \A t : Blocked(b, t) => Blocked(b, t)'
  BY <1>1 DEF Blocked, Collide, Live
<1>3. \A d \in job.depends[b] : EndSlot(d)' = EndSlot(d)
  BY <1>1 DEF Ready, EndSlot
<1> QED BY <1>1, <1>2, <1>3 DEF NoEarlier

(* A search starts at the last of its dependencies' ends: no earlier slot is
   after all of them. *)
LEMMA SearchStartsTight ==
  ASSUME IInv, NEW b, Ready(b), NEW since, StartSearch(b, since), UNCHANGED <<job, issue>>
  PROVE  NoEarlier(cur, probe)'
<1>1. cur' = b /\ probe' \in Nat /\ probe' \in ReadySlots(b)
  BY SearchStarts DEF StartSearch, IsMax
<1>2. ASSUME NEW t \in Nat, t < probe', \A d \in job.depends[b] : EndSlot(d) <= t
      PROVE  FALSE
  <2>1. probe' = 0 \/ \E d \in job.depends[b] : probe' = EndSlot(d)
    BY <1>1 DEF ReadySlots
  <2> QED BY <1>1, <1>2, <2>1
<1>3. \A d : EndSlot(d)' = EndSlot(d)
  BY Unplaced
<1> QED BY <1>1, <1>2, <1>3 DEF NoEarlier

(* A turn of the slot search jumps over taken slots only: the interval it jumps
   past covers the request's window at each of them. *)
LEMMA SlipSkipsTaken ==
  ASSUME IInv, Slip, NEW t \in Nat, probe <= t, t < probe'
  PROVE  Blocked(cur, t)
<1>1. probe \in Nat /\ cur \in job.blocks /\ probe' \in ClearSlots(cur, probe)
  BY DEF IInv, TypeOK, Slip, IsMax
<1>2. Live(cur) \subseteq Request
  BY <1>1, BlockTypes DEF IInv
<1>3. PICK q \in Live(cur) : probe' \in {w.stop - q.off : w \in Hit(q, probe)}
  BY <1>1 DEF ClearSlots
<1>4. PICK w \in Hit(q, probe) : probe' = w.stop - q.off
  BY <1>3
<1>5. /\ w \in reserved /\ w.res = q.res
      /\ Overlap(w.start, w.stop, probe + q.off, probe + q.off + q.len)
  BY <1>4 DEF Hit, Hits, LeftNeighbour, RightNeighbour, Before, After
<1>6. w.start \in Nat /\ w.stop \in Nat /\ q.off \in Nat /\ q.len \in Nat
  BY <1>2, <1>5 DEF IInv, TypeOK, Window, Request
<1>7. Overlap(w.start, w.stop, t + q.off, t + q.off + q.len)
  BY <1>1, <1>4, <1>5, <1>6 DEF Overlap
<1>8. PICK a \in Issued : w \in WindowsOf(a, issue[a])
  BY <1>5 DEF IInv, CalendarOK
<1>9. PICK r \in Live(a) :
        w = [res |-> r.res, start |-> issue[a] + r.off, stop |-> issue[a] + r.off + r.len]
  BY <1>8 DEF WindowsOf
<1>10. Collide(a, issue[a], cur, t)
  BY <1>5, <1>7, <1>9 DEF Collide
<1> QED BY <1>10 DEF Blocked

(* So the slot the search has reached stays the earliest one. *)
LEMMA SlipTight ==
  ASSUME IInv, Slip, NoEarlier(cur, probe)
  PROVE  NoEarlier(cur, probe)'
<1>1. UNCHANGED <<job, issue, cur>>
  BY DEF Slip
<1>2. probe \in Nat /\ probe' \in Nat
  <2>1. probe \in Nat /\ cur \in job.blocks /\ probe' \in ClearSlots(cur, probe)
    BY DEF IInv, TypeOK, Slip, IsMax
  <2>2. Live(cur) \subseteq Request
    BY <2>1, BlockTypes DEF IInv
  <2> QED BY <2>1, <2>2, CalendarOrderly, ClearSlotsForward
<1>3. ASSUME NEW t \in Nat, t < probe', \A d \in job.depends[cur] : EndSlot(d) <= t
      PROVE  Blocked(cur, t)
  <2>1. CASE t < probe
    BY <1>3, <2>1 DEF NoEarlier
  <2>2. CASE probe <= t
    BY <1>3, <2>2, SlipSkipsTaken
  <2> QED BY <1>2, <2>1, <2>2
<1>4. \A b, t : Blocked(b, t)' <=> Blocked(b, t)
  BY <1>1, Unplaced DEF Blocked, Collide, Live
<1>5. \A d : EndSlot(d)' = EndSlot(d)
  BY <1>1, Unplaced
<1> QED BY <1>1, <1>3, <1>4, <1>5 DEF NoEarlier

(* The invariant holds initially, where every slot is 0, and after each step. *)
LEMMA TightInit == Init => SlotsTight
<1> SUFFICES ASSUME Init PROVE SlotsTight
  OBVIOUS
<1>1. phase = "select" /\ \A e \in heap : e.slot = 0
  BY DEF Init
<1> QED BY <1>1 DEF SlotsTight, NoEarlier

LEMMA TightStep == IInv /\ SlotsTight /\ Next => SlotsTight'
<1> SUFFICES ASSUME IInv, SlotsTight, Next PROVE SlotsTight'
  OBVIOUS
<1>1. CASE Emit
  <2>1. phase' = "select" /\ heap' = heap
    BY <1>1 DEF Emit
  <2>2. ASSUME NEW e \in heap PROVE NoEarlier(e.block, e.slot)'
    BY <1>1, EmitFreesNothing DEF IInv, QueueOK, SlotsTight
  <2> QED BY <2>1, <2>2 DEF SlotsTight
<1>2. CASE Pop
  <2>0. UNCHANGED <<job, issue>> /\ waking = {}
    BY <1>2 DEF Pop
  <2>1. PICK e \in heap : heap' = heap \ {e} /\ StartSearch(e.block, e.slot)
    BY <1>2 DEF Pop
  <2>2. Ready(e.block) /\ NoEarlier(e.block, e.slot)
    BY DEF IInv, QueueOK, SlotsTight
  <2>3. NoEarlier(cur, probe)'
    BY <2>0, <2>1, <2>2, SearchStartsTight
  <2>4. NoEarlier(cur, popped)'
    BY <2>0, <2>1, <2>2, SlotsKept DEF StartSearch, NoEarlier
  <2>5. \A f \in heap' : NoEarlier(f.block, f.slot)'
    BY <2>0, <2>1, SlotsKept DEF SlotsTight
  <2> QED BY <2>3, <2>4, <2>5 DEF SlotsTight
<1>3. CASE Wake
  <2>0. UNCHANGED <<job, issue, heap>>
    BY <1>3 DEF Wake
  <2>1. PICK b \in waking : StartSearch(b, Fresh)
    BY <1>3 DEF Wake
  <2>2. NoEarlier(cur, probe)' /\ popped' = Fresh
    BY <2>0, <2>1, SearchStartsTight DEF IInv, QueueOK, StartSearch
  <2>3. \A f \in heap' : NoEarlier(f.block, f.slot)'
    BY <2>0, SlotsKept DEF SlotsTight
  <2> QED BY <2>2, <2>3 DEF SlotsTight, Fresh
<1>4. CASE Slip
  <2>0. UNCHANGED <<job, issue, heap, cur, popped, phase>> /\ phase = "search"
    BY <1>4 DEF Slip
  <2>1. NoEarlier(cur, probe)'
    BY <1>4, <2>0, SlipTight DEF SlotsTight
  <2>2. (popped # Fresh => NoEarlier(cur, popped))'
    BY <2>0, SlotsKept DEF SlotsTight, NoEarlier, Fresh
  <2>3. \A f \in heap' : NoEarlier(f.block, f.slot)'
    BY <2>0, SlotsKept DEF SlotsTight
  <2> QED BY <2>1, <2>2, <2>3 DEF SlotsTight
<1>5. CASE PushReady \/ Requeue
  <2>1. /\ UNCHANGED <<job, issue>> /\ phase' = "select" /\ phase = "search"
        /\ heap' = heap \cup {[slot |-> probe, block |-> cur]}
    BY <1>5 DEF PushReady, Requeue, PushEntry, Found
  <2>2. ASSUME NEW f \in heap' PROVE NoEarlier(f.block, f.slot)
    BY <2>1 DEF SlotsTight
  <2>3. \A f \in heap' : NoEarlier(f.block, f.slot)'
    BY <2>1, <2>2, SlotsKept
  <2> QED BY <2>1, <2>3 DEF SlotsTight
<1>6. CASE Finish
  <2>1. UNCHANGED <<job, issue, heap>> /\ phase' = "done"
    BY <1>6 DEF Finish
  <2> QED BY <2>1, SlotsKept DEF SlotsTight
<1> QED BY <1>1, <1>2, <1>3, <1>4, <1>5, <1>6 DEF Next

(* The slots the loop works with stay the earliest ones along every run. *)
THEOREM Tightness == Spec => []SlotsTight
<1>1. UNCHANGED vars /\ SlotsTight => SlotsTight'
  <2> SUFFICES ASSUME UNCHANGED vars, SlotsTight PROVE SlotsTight'
    OBVIOUS
  <2>1. \A e \in heap : NoEarlier(e.block, e.slot)'
    BY SlotsKept DEF vars, SlotsTight
  <2>2. NoEarlier(cur, probe) => NoEarlier(cur, probe)'
    BY SlotsKept DEF vars, NoEarlier
  <2>3. NoEarlier(cur, popped) => NoEarlier(cur, popped)'
    BY SlotsKept DEF vars, NoEarlier
  <2> QED BY <2>1, <2>2, <2>3 DEF vars, SlotsTight, Fresh
<1> QED BY <1>1, TightInit, TightStep, Invariance, PTL DEF Spec

(* The scheduler is greedy for every job: at each slot before the one a block is
   given, and not before its dependencies end, a block issued already holds a
   resource it needs. *)
THEOREM IssuedEarliest == Spec => Earliest
<1> DEFINE Greedy == \A b \in job.blocks : issue'[b] # issue[b] =>
              \A t \in 0..(issue'[b] - 1) :
                (\A d \in job.depends[b] : EndSlot(d) <= t)
                  => \E a \in Issued : Collide(a, issue[a], b, t)
<1>1. IInv /\ SlotsTight /\ [Next]_vars => [Greedy]_vars
  <2> SUFFICES ASSUME IInv, SlotsTight, [Next]_vars PROVE [Greedy]_vars
    OBVIOUS
  <2>1. CASE Emit
    <3>1. /\ issue \in [job.blocks -> Nat \cup {NotIssued}] /\ cur \in job.blocks
          /\ probe \in Nat /\ issue' = [issue EXCEPT ![cur] = probe]
      BY <2>1, EmitPlaces DEF IInv, TypeOK
    <3>2. NoEarlier(cur, probe)
      BY <2>1 DEF SlotsTight, Emit, Found
    <3>3. ASSUME NEW b \in job.blocks, issue'[b] # issue[b], NEW t \in 0..(issue'[b] - 1),
                 \A d \in job.depends[b] : EndSlot(d) <= t
          PROVE  \E a \in Issued : Collide(a, issue[a], b, t)
      <4>1. b = cur /\ issue'[b] = probe
        BY <3>1, <3>3
      <4>2. t \in 0..(probe - 1)
        BY <4>1
      <4>3. t \in Nat /\ t < probe
        BY <3>1, <4>2
      <4> QED BY <3>2, <3>3, <4>1, <4>3 DEF NoEarlier, Blocked
    <3> QED BY <3>3
  <2>2. CASE UNCHANGED <<job, issue, blocks>>
    BY <2>2
  <2> QED BY <2>1, <2>2, OnlyEmitPlaces DEF vars
<1> QED BY <1>1, Invariance, Tightness, PTL DEF Spec, Earliest

-----------------------------------------------------------------------------
(* In the order of time.                                                   *)

(* Nothing in the heap, and no popped slot, lies before the block issued last or
   behind the pop; the woken wait for the block issued last. *)
Forward ==
  /\ blocks # <<>> =>
       /\ Last \in Issued
       /\ \A e \in heap : issue[Last] <= e.slot
       /\ \A b \in waking : Last \in job.depends[b]
       /\ phase = "search" /\ popped # Fresh => issue[Last] <= popped
  /\ phase = "search" /\ popped # Fresh => \A e \in heap : popped <= e.slot

(* A popped block that goes back to the heap goes back under a later slot. *)
LEMMA FoundAfterPop ==
  ASSUME IInv, SlotsTight, Found, popped # Fresh
  PROVE  popped \in Nat /\ probe \in Nat /\ popped <= probe
<1>1. popped \in Nat /\ probe \in Nat
  BY DEF IInv, TypeOK
<1>2. NoEarlier(cur, popped) /\ \A d \in job.depends[cur] : EndSlot(d) <= probe
  BY DEF SlotsTight, IInv, SearchOK, Found
<1>3. ~ Blocked(cur, probe)
  BY FoundFits DEF Blocked
<1>4. ~ (probe < popped)
  BY <1>1, <1>2, <1>3 DEF NoEarlier
<1> QED BY <1>1, <1>4

(* A block that has just become ready is pushed behind the one that woke it. *)
LEMMA FoundAfterWake ==
  ASSUME IInv, Forward, Found, popped = Fresh, blocks # <<>>
  PROVE  issue[Last] <= probe
<1>1. cur \in waking /\ cur \in job.blocks /\ probe \in Nat
  BY DEF IInv, SearchOK, TypeOK, Found
<1>2. Last \in job.depends[cur] /\ Last \in Issued
  BY <1>1 DEF Forward
<1>3. issue[Last] \in Nat /\ job.duration[Last] \in Nat
  BY <1>2, IssuedTypes, BlockTypes DEF IInv
<1>4. issue[Last] + job.duration[Last] <= probe
  BY <1>2 DEF IInv, SearchOK, Found, EndSlot
<1> QED BY <1>1, <1>3, <1>4

(* Issuing the popped block, whose slot no entry of the heap precedes. *)
LEMMA EmitForward ==
  ASSUME IInv, Recorded, Forward, IssueOrder, Emit
  PROVE  Forward' /\ IssueOrder'
<1>1. /\ cur \in job.blocks \ Issued /\ Issued' = Issued \cup {cur}
      /\ issue'[cur] = probe /\ \A b \in Issued : issue'[b] = issue[b]
      /\ probe \in Nat /\ job' = job
  BY EmitPlaces
<1>2. /\ phase' = "select" /\ phase = "search" /\ popped = probe /\ popped # Fresh
      /\ heap' = heap /\ waking' = {b \in job.blocks : Woken(b)}
  BY <1>1 DEF Emit, Found, Fresh
<1>3. /\ blocks \in Seq(job.blocks) /\ Len(blocks) \in Nat /\ Len(blocks') = Len(blocks) + 1
      /\ \A i \in 1..Len(blocks) : blocks'[i] = blocks[i]
      /\ blocks'[Len(blocks) + 1] = cur
  BY EmitAppends
<1>4. Last' = cur
  BY <1>3 DEF Last
<1>5. Forward'
  <2>1. \A e \in heap' : issue'[cur] <= e.slot
    BY <1>1, <1>2 DEF Forward
  <2>2. \A b \in waking' : cur \in job'.depends[b]
    BY <1>1, <1>2 DEF Woken
  <2> QED BY <1>1, <1>2, <1>4, <2>1, <2>2 DEF Forward
<1>6. \A i \in 1..Len(blocks) : blocks[i] \in Issued
  BY <1>3 DEF Recorded
<1>7. IssueOrder'
  <2> SUFFICES ASSUME NEW i \in 2..Len(blocks')
               PROVE  issue'[blocks'[i - 1]] <= issue'[blocks'[i]]
    BY DEF IssueOrder
  <2>1. CASE i \in 2..Len(blocks)
    <3>1. i \in 1..Len(blocks) /\ i - 1 \in 1..Len(blocks)
      BY <1>3, <2>1
    <3>2. blocks'[i - 1] = blocks[i - 1] /\ blocks'[i] = blocks[i]
      BY <1>3, <3>1
    <3>3. /\ issue'[blocks[i - 1]] = issue[blocks[i - 1]]
          /\ issue'[blocks[i]] = issue[blocks[i]]
      BY <1>1, <1>6, <3>1
    <3> QED BY <2>1, <3>2, <3>3 DEF IssueOrder
  <2>2. CASE i = Len(blocks) + 1
    <3>1. i - 1 = Len(blocks) /\ i - 1 \in 1..Len(blocks) /\ blocks # <<>>
      BY <1>3, <2>2
    <3>2. blocks'[i] = cur /\ blocks'[i - 1] = Last
      BY <1>3, <2>2, <3>1 DEF Last
    <3>3. issue[Last] <= popped /\ issue'[Last] = issue[Last]
      BY <1>1, <1>2, <3>1 DEF Forward
    <3> QED BY <1>1, <1>2, <3>2, <3>3
  <2> QED BY <1>3, <2>1, <2>2
<1> QED BY <1>5, <1>7

(* The other steps issue nothing, and put nothing behind. *)
LEMMA MoveForward ==
  ASSUME IInv, SlotsTight, Forward, Next, ~ Emit
  PROVE  Forward'
<1>0. UNCHANGED <<job, issue, blocks>>
  BY OnlyEmitPlaces
<1>1. Last' = Last /\ Issued' = Issued /\ (blocks # <<>> => issue[Last] \in Nat)
  BY <1>0, Unplaced, IssuedTypes DEF Last, Forward, IInv
<1>2. CASE Pop
  <2>1. PICK e \in heap : /\ heap' = heap \ {e} /\ phase' = "search" /\ popped' = e.slot
                          /\ waking' = waking /\ \A f \in heap : Precedes(e, f)
    BY <1>2 DEF Pop, StartSearch
  <2>2. \A f \in heap : f.slot \in Nat
    BY DEF IInv, TypeOK
  <2>3. \A f \in heap : e.slot <= f.slot
    BY <2>1, <2>2 DEF Precedes
  <2> QED BY <1>0, <1>1, <2>1, <2>3 DEF Forward
<1>3. CASE Wake
  <2>1. heap' = heap /\ waking' = waking /\ popped' = Fresh
    BY <1>3 DEF Wake, StartSearch
  <2> QED BY <1>0, <1>1, <2>1 DEF Forward, Fresh
<1>4. CASE Slip
  <2>1. UNCHANGED <<phase, popped, heap, waking>>
    BY <1>4 DEF Slip
  <2> QED BY <1>0, <1>1, <2>1 DEF Forward, Fresh
<1>5. CASE PushReady \/ Requeue
  <2>1. /\ phase' = "select" /\ waking' \subseteq waking /\ Found
        /\ heap' = heap \cup {[slot |-> probe, block |-> cur]}
    BY <1>5 DEF PushReady, Requeue, PushEntry
  <2>2. blocks # <<>> => issue[Last] <= probe
    <3>1. CASE popped = Fresh
      BY <2>1, <3>1, FoundAfterWake
    <3>2. CASE popped # Fresh
      <4>1. popped \in Nat /\ probe \in Nat /\ popped <= probe
        BY <2>1, <3>2, FoundAfterPop
      <4> QED BY <1>1, <2>1, <3>2, <4>1 DEF Forward, Found
    <3> QED BY <3>1, <3>2
  <2> QED BY <1>0, <1>1, <2>1, <2>2 DEF Forward
<1>6. CASE Finish
  <2>1. phase' = "done" /\ heap' = heap /\ waking' = waking
    BY <1>6 DEF Finish
  <2> QED BY <1>0, <1>1, <2>1 DEF Forward
<1> QED BY <1>2, <1>3, <1>4, <1>5, <1>6 DEF Next

(* No block is issued at an earlier slot than one issued before it: order_key
   follows time. *)
THEOREM IssuedInOrder == Spec => []IssueOrder
<1> DEFINE Inv == Forward /\ IssueOrder
<1>1. Init => Inv
  <2> SUFFICES ASSUME Init PROVE Inv
    OBVIOUS
  <2>1. blocks = <<>> /\ phase = "select"
    BY DEF Init
  <2> QED BY <2>1 DEF Forward, IssueOrder
<1>2. IInv /\ SlotsTight /\ Recorded /\ Inv /\ [Next]_vars => Inv'
  <2> SUFFICES ASSUME IInv, SlotsTight, Recorded, Inv, [Next]_vars PROVE Inv'
    OBVIOUS
  <2>1. CASE Emit
    BY <2>1, EmitForward
  <2>2. CASE Next /\ ~ Emit
    <3>1. IssueOrder'
      BY <2>2, OnlyEmitPlaces DEF IssueOrder
    <3> QED BY <2>2, <3>1, MoveForward
  <2>3. CASE UNCHANGED vars
    BY <2>3, Unplaced DEF vars, Forward, IssueOrder, Last, Fresh
  <2> QED BY <2>1, <2>2, <2>3
<1> QED BY <1>1, <1>2, Invariance, Tightness, Bookkeeping, PTL DEF Spec

=============================================================================
