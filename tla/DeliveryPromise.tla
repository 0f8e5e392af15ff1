-------------------------- MODULE DeliveryPromise --------------------------
(***************************************************************************)
(* What the delivery of products promises a player: a unit is kept, sent   *)
(* or paid for.  What is sent can be taken back, and is paid all at once.  *)
(* The promise is dropped for a player whose requests and payments met,    *)
(* who sent a negative quantity or whose goods were cleared (see Delivery  *)
(* for when).                                                              *)
(***************************************************************************)
EXTENDS Integers

CONSTANTS Users, InitialStock, Price

VARIABLES
    kept,    \* units in the inventory of each player
    sent,    \* units waiting for the delivery
    paid,    \* tokens paid
    orderly  \* players the promise is still made to

Init ==
    /\ kept = [u \in Users |-> InitialStock]
    /\ sent = [u \in Users |-> 0]
    /\ paid = [u \in Users |-> 0]
    /\ orderly = Users

Send(u) ==
    \E n \in 1 .. kept[u] :
        /\ kept' = [kept EXCEPT ![u] = @ - n]
        /\ sent' = [sent EXCEPT ![u] = @ + n]
        /\ UNCHANGED <<paid, orderly>>

TakeBack(u) ==
    \E n \in 1 .. sent[u] :
        /\ kept' = [kept EXCEPT ![u] = @ + n]
        /\ sent' = [sent EXCEPT ![u] = @ - n]
        /\ UNCHANGED <<paid, orderly>>

Pay(u) ==
    /\ UNCHANGED <<kept, orderly>>
    /\ sent[u] > 0
    /\ sent' = [sent EXCEPT ![u] = 0]
    /\ paid' = [paid EXCEPT ![u] = @ + Price * sent[u]]

(* One crash may drop several players.                                     *)
Drop(S) ==
    /\ orderly' = orderly \ S
    /\ kept' = [u \in Users |-> IF u \in S THEN 0 ELSE kept[u]]
    /\ sent' = [u \in Users |-> IF u \in S THEN 0 ELSE sent[u]]
    /\ paid' = [u \in Users |-> IF u \in S THEN 0 ELSE paid[u]]

Next ==
    \/ \E S \in SUBSET orderly : Drop(S)
    \/ \E u \in orderly : Send(u) \/ TakeBack(u) \/ Pay(u)

Spec == Init /\ [][Next]_<<kept, sent, paid, orderly>>
=============================================================================
