------------------------------ MODULE MCTasks ------------------------------
(***************************************************************************)
(* Tasks with init and three structs for its descendants: enough for a     *)
(* grandchild that kills, a sibling, and a waiter at each level.           *)
(***************************************************************************)
EXTENDS Tasks

CONSTANTS idle, init, x, y, z

MCSymmetry == Permutations({x, y, z})

=============================================================================
