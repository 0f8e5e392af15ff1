----------------------------- MODULE MCGateway -----------------------------
(***************************************************************************)
(* Small instances of Gateway for TLC.  Requests are alike, and so are     *)
(* users.                                                                  *)
(***************************************************************************)
EXTENDS Gateway, TLC

Symmetry == Permutations(Calls) \cup Permutations(Users)
=============================================================================
