-------------------------- MODULE MCConnectionPool --------------------------
(***************************************************************************)
(* Small instances of ConnectionPool for TLC.  A request has one           *)
(* connection at most, so that what CHOOSE finds is not a matter of order. *)
(***************************************************************************)
EXTENDS ConnectionPool, TLC

Symmetry == Permutations(Requests) \cup Permutations(Connections)
=============================================================================
