-------------------------- MODULE MCLeaderElection --------------------------
(***************************************************************************)
(* Small instances of LeaderElection for TLC.                              *)
(***************************************************************************)
EXTENDS LeaderElection, TLC

Symmetry == Permutations(Nodes)

(* Two routines of a node overlap until a fault; then one is at work at a  *)
(* time.                                                                   *)
OverlapOrFault ==
    faults = 0 \/ \A n \in Nodes : Cardinality({q \in Routines : call[n][q] # "idle"}) <= 1
=============================================================================
