----------------------------- MODULE MCDelivery -----------------------------
(***************************************************************************)
(* Small instances of Delivery for TLC.                                    *)
(***************************************************************************)
EXTENDS Delivery, TLC

Symmetry == Permutations(Parcels) \cup Permutations(Workers) \cup Permutations(Requests)

(* Once no promise is left to keep there is nothing more to see.           *)
SomebodyOrderly == troubled # Users

(* A wish nobody leads to hear is dropped or heard by the next leader, as  *)
(* if it had been made then: the states of its waiting add nothing.        *)
WishesAreHeard == instantly => \E r \in Replicas : isLeader[r]

(* What guards and the liveness property read: not the tokens, that grow   *)
(* without end when a worker dies each time it has paid, nor what payments *)
(* have found but for whether they can be made.                            *)
Guarded ==
    <<stock, parcel, cleared, request, schedule, queue, job, rewards,
      [p \in Payments |-> <<Stage(p), Stage(p) # "none" => payment[p].payable>>]>>
=============================================================================
