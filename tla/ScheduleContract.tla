-------------------------- MODULE ScheduleContract --------------------------
(***************************************************************************)
(* What a schedule of pending blocks promises, whatever list scheduler     *)
(* produced it: blocks are placed one at a time and never moved, a block   *)
(* is placed at a slot where every block it depends on has ended, and no   *)
(* two placed blocks ever hold the same resource in the same slot.         *)
(***************************************************************************)
EXTENDS PendingJobs

Init == /\ job \in Jobs
        /\ issue = [b \in job.blocks |-> NotIssued]

Place(b) ==
  LET slot == issue'[b] IN
  /\ issue[b] = NotIssued
  /\ slot \in Nat
  /\ issue' = [issue EXCEPT ![b] = slot]
  /\ \A d \in job.depends[b] : d \in Issued /\ EndSlot(d) <= slot
  /\ \A a \in Issued : ~ Collide(a, issue[a], b, slot)
  /\ UNCHANGED job

Next == \E b \in job.blocks : Place(b)

Spec == Init /\ [][Next]_<<job, issue>>

=============================================================================
