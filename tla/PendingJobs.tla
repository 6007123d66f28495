----------------------------- MODULE PendingJobs -----------------------------
(***************************************************************************)
(* The input of the list scheduler of scheduler/dual_core.py: the pending  *)
(* blocks, and what their placement means.  A job has                      *)
(*   blocks     the block ids                                              *)
(*   depends    depends_on, a set of block ids for each block              *)
(*   duration   duration_slots                                             *)
(*   requests   resource_reservations: the windows a block needs, each a   *)
(*              resource, an offset from the issue slot and a length       *)
(*   rank       the heap's tie-break, (priority, block_id), as a number    *)
(***************************************************************************)
EXTENDS Integers, FiniteSets

CONSTANTS Resource,   \* resource keys: shared:DMA, core0:MXU, ...
          Jobs        \* the inputs the scheduler may be given

Request == [res : Resource, off : Nat, len : Nat]

(* Two windows [s1, e1) and [s2, e2) share a slot. *)
Overlap(s1, e1, s2, e2) == s1 < e2 /\ s2 < e1

(* The requests of one block never collide with each other. *)
SelfConsistent(reqs) ==
  \A q, r \in reqs :
    q # r /\ q.res = r.res /\ q.len > 0 /\ r.len > 0
      => ~ Overlap(q.off, q.off + q.len, r.off, r.off + r.len)

(* What _build_pending_blocks guarantees of the blocks it hands over. *)
WellFormed(j) ==
  /\ IsFiniteSet(j.blocks)
  /\ j.depends  \in [j.blocks -> SUBSET j.blocks]
  /\ j.duration \in [j.blocks -> Nat \ {0}]
  /\ j.requests \in [j.blocks -> SUBSET Request]
  /\ \A b \in j.blocks : SelfConsistent(j.requests[b])
  /\ j.rank \in [j.blocks -> Nat]
  /\ \A a, b \in j.blocks : j.rank[a] = j.rank[b] => a = b

ASSUME JobsAssumption == \A j \in Jobs : WellFormed(j)

VARIABLES job,     \* the pending blocks, fixed
          issue    \* issue_slot of each block, NotIssued before it is placed

NotIssued == -1

Issued == {b \in job.blocks : issue[b] # NotIssued}

EndSlot(b) == issue[b] + job.duration[b]

(* find_earliest_issue_slot drops the requests of no length. *)
Live(b) == {q \in job.requests[b] : q.len > 0}

(* Block a issued at slot s and block b issued at slot t would hold one
   resource in the same slot. *)
Collide(a, s, b, t) ==
  \E q \in Live(a), r \in Live(b) :
    /\ q.res = r.res
    /\ Overlap(s + q.off, s + q.off + q.len, t + r.off, t + r.off + r.len)

=============================================================================
