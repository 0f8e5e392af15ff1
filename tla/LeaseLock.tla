----------------------------- MODULE LeaseLock -----------------------------
(***************************************************************************)
(* What the Kubernetes lease promises its nodes: it has one holder, and    *)
(* another node takes it only when it is free or its time has run out.     *)
(* LeaderElection implements it.                                           *)
(***************************************************************************)
CONSTANTS Nodes, NoNode

VARIABLES
    holder,  \* NoNode when the lease is free or does not exist
    fresh    \* the renew time lies within the lease duration

Init ==
    /\ holder = NoNode
    /\ fresh = FALSE

Take(n) ==
    /\ holder = NoNode \/ ~fresh
    /\ holder' = n
    /\ fresh' = TRUE

Renew(n) ==
    /\ holder = n
    /\ fresh' = TRUE
    /\ UNCHANGED holder

Release(n) ==
    /\ holder = n
    /\ holder' = NoNode
    /\ fresh' = FALSE

Expire ==
    /\ fresh' = FALSE
    /\ UNCHANGED holder

(* The lease object may be deleted from outside.                           *)
Delete ==
    /\ holder' = NoNode
    /\ fresh' = FALSE

Next ==
    \/ \E n \in Nodes : Take(n) \/ Renew(n) \/ Release(n)
    \/ Expire
    \/ Delete

Spec == Init /\ [][Next]_<<holder, fresh>>
=============================================================================
