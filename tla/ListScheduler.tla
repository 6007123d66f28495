---------------------------- MODULE ListScheduler ----------------------------
(***************************************************************************)
(* The list scheduler of scheduler/dual_core.py (the main loop of          *)
(* plan_dual_core_schedule) with the reservation calendar of               *)
(* scheduler/reservations.py.                                              *)
(*                                                                         *)
(* The loop keeps a heap of ready blocks keyed by the issue slot they      *)
(* could get when they were pushed.  A popped block searches its earliest  *)
(* slot again; if reservations made in between have moved it, it goes back *)
(* to the heap under the new slot, otherwise it is issued, its windows are *)
(* reserved, and the blocks it was the last dependency of search their     *)
(* slot and are pushed.  One step of this module is one iteration of the   *)
(* slot search or one turn of the loop.                                    *)
(***************************************************************************)
EXTENDS PendingJobs, Sequences

VARIABLES
  phase,      \* "select": at the loop head; "search": in the slot search; "done"
  cur,        \* the block whose slot is searched
  probe,      \* find_earliest_issue_slot's issue_slot
  popped,     \* scheduled_issue_slot of a popped block, Fresh for a waking one
  heap,       \* ready_heap
  waking,     \* dependents whose count reached 0 and that are not pushed yet
  remaining,  \* remaining_dep_count
  reserved,   \* reservations_by_resource: each interval list as a set
  blocks      \* the issued blocks; a block's order_key is its position

vars == <<job, issue, phase, cur, probe, popped, heap, waking, remaining,
          reserved, blocks>>

Fresh == -1

IsMax(m, S) == m \in S /\ \A x \in S : x <= m

Window == [res : Resource, start : Nat, stop : Nat]

TypeOK ==
  /\ WellFormed(job)
  /\ issue \in [job.blocks -> Nat \cup {NotIssued}]
  /\ phase \in {"select", "search", "done"}
  /\ phase = "search" => cur \in job.blocks
  /\ probe \in Nat
  /\ popped \in Nat \cup {Fresh}
  /\ heap \subseteq [slot : Nat, block : job.blocks]
  /\ waking \subseteq job.blocks
  /\ remaining \in [job.blocks -> Nat]
  /\ reserved \subseteq Window
  /\ blocks \in Seq(job.blocks)

-----------------------------------------------------------------------------
(* reservations.py: the calendar.                                          *)

(* Where bisect_left splits the interval list of q's resource.  The windows
   of a resource are disjoint, so their starts are distinct and order them. *)
Before(q, t) == {w \in reserved : w.res = q.res /\ w.start < t + q.off}
After(q, t)  == {w \in reserved : w.res = q.res /\ w.start >= t + q.off}

(* The last interval that starts before the window and the first one that does
   not: the search looks at these two and at no other. *)
LeftNeighbour(q, t)  == {w \in Before(q, t) : \A v \in Before(q, t) : v.start <= w.start}
RightNeighbour(q, t) == {w \in After(q, t) : \A v \in After(q, t) : w.start <= v.start}

Hits(W, q, t) == {w \in W : Overlap(w.start, w.stop, t + q.off, t + q.off + q.len)}

MutHitLeftOnly(q, t) == Hits(LeftNeighbour(q, t), q, t)

(* The first of the two neighbours that overlaps q's window at slot t. *)
Hit(q, t) ==
  LET left == Hits(LeftNeighbour(q, t), q, t) IN
  IF left # {} THEN left ELSE Hits(RightNeighbour(q, t), q, t)

MutPastReservation(b, t) ==
  {w.stop : w \in UNION {Hit(q, t) : q \in Live(b)}}

(* The slots at which each blocked request would clear its neighbour. *)
ClearSlots(b, t) ==
  UNION {{w.stop - q.off : w \in Hit(q, t)} : q \in Live(b)}

MutReserveFirst(b, t) ==
  {[res |-> q.res, start |-> t, stop |-> t + q.len] : q \in Live(b)}

(* reserve_resource_windows *)
WindowsOf(b, t) ==
  {[res |-> q.res, start |-> t + q.off, stop |-> t + q.off + q.len] : q \in Live(b)}

MutReadyAtStart(b) == {0} \cup {issue[d] : d \in job.depends[b]}

(* _earliest_issue_slot: the search starts where the last dependency ends. *)
ReadySlots(b) == {0} \cup {EndSlot(d) : d \in job.depends[b]}

-----------------------------------------------------------------------------

(* Blocks without dependencies are pushed first; the calendar is empty, so
   their search ends at once at slot 0. *)
Init ==
  /\ job \in Jobs
  /\ issue = [b \in job.blocks |-> NotIssued]
  /\ phase = "select"
  /\ cur = {}
  /\ probe = 0
  /\ popped = Fresh
  /\ heap = {[slot |-> 0, block |-> b] : b \in {a \in job.blocks : job.depends[a] = {}}}
  /\ waking = {}
  /\ remaining = [b \in job.blocks |-> Cardinality(job.depends[b])]
  /\ reserved = {}
  /\ blocks = <<>>

StartSearch(b, since) ==
  /\ phase' = "search"
  /\ cur' = b
  /\ popped' = since
  /\ \E t \in ReadySlots(b) : IsMax(t, ReadySlots(b)) /\ probe' = t

MutPrecedesRank(e, f) == job.rank[e.block] <= job.rank[f.block]

(* heapq's order: (issue_slot, priority, block_id). *)
Precedes(e, f) ==
  \/ e.slot < f.slot
  \/ e.slot = f.slot /\ job.rank[e.block] <= job.rank[f.block]

Pop ==
  /\ phase = "select"
  /\ waking = {}
  /\ \E e \in heap :
       /\ \A f \in heap : Precedes(e, f)
       /\ heap' = heap \ {e}
       /\ StartSearch(e.block, e.slot)
  /\ UNCHANGED <<job, issue, waking, remaining, reserved, blocks>>

(* The dependents loop; its order is not observable, as it reserves nothing. *)
Wake ==
  /\ phase = "select"
  /\ \E b \in waking : StartSearch(b, Fresh)
  /\ UNCHANGED <<job, issue, heap, waking, remaining, reserved, blocks>>

(* One more turn of find_earliest_issue_slot's loop. *)
Slip ==
  /\ phase = "search"
  /\ \E t \in ClearSlots(cur, probe) : IsMax(t, ClearSlots(cur, probe)) /\ probe' = t
  /\ UNCHANGED <<job, issue, phase, cur, popped, heap, waking, remaining, reserved, blocks>>

Found == phase = "search" /\ ClearSlots(cur, probe) = {}

PushEntry == heap' = heap \cup {[slot |-> probe, block |-> cur]}

PushReady ==
  /\ Found
  /\ popped = Fresh
  /\ PushEntry
  /\ waking' = waking \ {cur}
  /\ phase' = "select"
  /\ UNCHANGED <<job, issue, cur, probe, popped, remaining, reserved, blocks>>

MutRequeueDrops ==
  /\ Found
  /\ popped \notin {Fresh, probe}
  /\ phase' = "select"
  /\ UNCHANGED <<job, issue, cur, probe, popped, heap, waking, remaining, reserved, blocks>>

MutRequeueStale ==
  /\ Found
  /\ popped \notin {Fresh, probe}
  /\ heap' = heap \cup {[slot |-> popped, block |-> cur]}
  /\ phase' = "select"
  /\ UNCHANGED <<job, issue, cur, probe, popped, waking, remaining, reserved, blocks>>

Requeue ==
  /\ Found
  /\ popped \notin {Fresh, probe}
  /\ PushEntry
  /\ phase' = "select"
  /\ UNCHANGED <<job, issue, cur, probe, popped, waking, remaining, reserved, blocks>>

MutWokenEarly(b) == cur \in job.depends[b] /\ remaining[b] > 0

(* The dependents whose remaining_dep_count the issue of cur brings to 0. *)
Woken(b) == cur \in job.depends[b] /\ remaining[b] = 1

Emit ==
  /\ Found
  /\ popped = probe
  /\ issue' = [issue EXCEPT ![cur] = probe]
  /\ blocks' = Append(blocks, cur)
  /\ reserved' = reserved \cup WindowsOf(cur, probe)
  /\ remaining' = [b \in job.blocks |->
                     IF cur \in job.depends[b] THEN remaining[b] - 1 ELSE remaining[b]]
  /\ waking' = {b \in job.blocks : Woken(b)}
  /\ phase' = "select"
  /\ UNCHANGED <<job, cur, probe, popped, heap>>

Finish ==
  /\ phase = "select"
  /\ waking = {}
  /\ heap = {}
  /\ phase' = "done"
  /\ UNCHANGED <<job, issue, cur, probe, popped, heap, waking, remaining, reserved, blocks>>

Next == Pop \/ Wake \/ Slip \/ PushReady \/ Requeue \/ Emit \/ Finish

Spec == Init /\ [][Next]_vars

(* A single-threaded loop that nothing interrupts: it takes its next step. *)
FairSpec == Spec /\ WF_vars(Next)

-----------------------------------------------------------------------------
(* Safety.                                                                 *)

(* No two issued blocks ever hold the same resource in the same slot, although
   the search looks at two neighbouring intervals only
   (find_earliest_issue_slot, reserve_resource_windows). *)
Exclusive ==
  \A a, b \in Issued : a # b => ~ Collide(a, issue[a], b, issue[b])

(* A block enters the schedule once, after every block it depends on, and is
   issued no earlier than each of them ends: what ScheduleIR's validator checks
   of block ids, depends_on and order_key, and the slots it does not check. *)
DependenciesFirst ==
  \A i \in 1..Len(blocks) :
    /\ \A k \in 1..(i - 1) : blocks[k] # blocks[i]
    /\ \A d \in job.depends[blocks[i]] :
         /\ \E k \in 1..(i - 1) : blocks[k] = d
         /\ EndSlot(d) <= issue[blocks[i]]

(* order_key follows time: although slots are computed when a block becomes
   ready and go stale in the heap, no block is issued at an earlier slot than
   one issued before it. *)
IssueOrder ==
  \A i \in 2..Len(blocks) : issue[blocks[i - 1]] <= issue[blocks[i]]

(* When the heap runs empty, a block is missing from the schedule only because
   a block it depends on is missing too (a dependency cycle): none is lost
   between the pops, the returns to the heap and the dependents' counts. *)
NothingLost ==
  phase = "done" =>
    \A b \in job.blocks \ Issued : job.depends[b] \ Issued # {}

(* The scheduler is greedy: at every slot before the one a block is given, but
   not before its dependencies end, some block issued already holds a resource
   it needs (find_earliest_issue_slot jumps past reservations and never past a
   free slot). *)
Earliest ==
  [][\A b \in job.blocks : issue'[b] # issue[b] =>
       \A t \in 0..(issue'[b] - 1) :
         (\A d \in job.depends[b] : EndSlot(d) <= t)
           => \E a \in Issued : Collide(a, issue[a], b, t)]_vars

(* Placing blocks is all the loop does to the schedule: the contract's variables are
   job and issue, and heap, search and calendar are what it does not tell. *)
Contract == INSTANCE ScheduleContract WITH job <- job, issue <- issue
Implements == Contract!Spec

(* Liveness: the slot search and the returns to the heap come to an end, also
   when the dependencies are cyclic. *)
Terminates == <>(phase = "done")
=============================================================================
