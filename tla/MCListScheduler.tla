--------------------------- MODULE MCListScheduler ---------------------------
(* Small jobs for ListScheduler: every dependency relation over three blocks,
   cycles included, and every forward one over four, with the shapes of
   reservations that scheduler/duration.py produces. *)
EXTENDS ListScheduler

Win(r, o, n) == [res |-> r, off |-> o, len |-> n]

(* A load, a load with a vector tail, a compute stage, a fused attention compute
   stage that holds the vector unit twice, a transfer with its synchronisation. *)
Load     == [duration |-> 2, requests |-> {Win("DMA", 0, 2)}]
LoadTail == [duration |-> 3, requests |-> {Win("DMA", 0, 1), Win("VPU", 1, 2)}]
Attend   == [duration |-> 3, requests |-> {Win("VPU", 0, 1), Win("MXU", 1, 1), Win("VPU", 2, 1)}]
Idle     == [duration |-> 1, requests |-> {Win("DMA", 0, 0)}]
Transfer == [duration |-> 2, requests |-> {Win("DMA", 0, 1), Win("SYNC", 1, 1)}]

JobOf(depends, shape) ==
  [blocks   |-> DOMAIN depends,
   depends  |-> depends,
   duration |-> [b \in DOMAIN depends |-> shape[b].duration],
   requests |-> [b \in DOMAIN depends |-> shape[b].requests],
   rank     |-> [b \in DOMAIN depends |-> b]]

AnyThree == {JobOf(d, s) : d \in [1..3 -> SUBSET (1..3)],
                           s \in [1..3 -> {LoadTail, Attend}]}

Forward == {<<{}, p, q, r>> : p \in SUBSET {1}, q \in SUBSET (1..2), r \in SUBSET (1..3)}

Shapes == [1..4 -> {LoadTail, Attend}] \cup
  {<<Transfer, LoadTail, Transfer, Load>>, <<Idle, Transfer, Transfer, Attend>>,
   <<Load, Load, Idle, Transfer>>, <<Attend, Load, Transfer, LoadTail>>}

ForwardFour == {JobOf(d, s) : d \in Forward, s \in Shapes}

MCJobs == AnyThree \cup ForwardFour
MCResource == {"DMA", "VPU", "MXU", "SYNC"}
=============================================================================
