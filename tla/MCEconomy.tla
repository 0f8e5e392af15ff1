----------------------------- MODULE MCEconomy -----------------------------
(***************************************************************************)
(* Small instances of Economy for TLC.                                     *)
(***************************************************************************)
EXTENDS Economy, TLC

Symmetry == Permutations(Requests) \cup Permutations(TileIds)
SomeCapacities == <<1, 2, 2>>
SomeJobTimes == {-1, 3}
=============================================================================
