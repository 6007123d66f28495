------------------------------ MODULE MCTilePlan ------------------------------
(* The planners one after the other, on the instances of MCMemoryPlan, with the MXU
   of the profiles, a small one and a wide one. *)
EXTENDS TilePlan, MCMemoryPlan

MCMxus == {[rows |-> 128, cols |-> 128], [rows |-> 64, cols |-> 64],
           [rows |-> 32, cols |-> 256]}
=============================================================================
