------------------------- MODULE MCGrowthScheduler -------------------------
(***************************************************************************)
(* Small instances of GrowthScheduler for TLC.                             *)
(***************************************************************************)
EXTENDS GrowthScheduler, TLC

Symmetry == Permutations(Slots) \cup Permutations(Replicas)
=============================================================================
