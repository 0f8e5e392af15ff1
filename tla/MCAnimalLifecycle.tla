------------------------- MODULE MCAnimalLifecycle -------------------------
(***************************************************************************)
(* Small instances of AnimalLifecycle for TLC.                             *)
(***************************************************************************)
EXTENDS AnimalLifecycle, TLC

Symmetry == Permutations(Animals) \cup Permutations(Workers)
=============================================================================
