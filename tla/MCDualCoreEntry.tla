--------------------------- MODULE MCDualCoreEntry ---------------------------
(* A NIGIR without bound nodes, and one with. *)
EXTENDS DualCoreEntry

MCNodeCounts == {0, 2}
=============================================================================
