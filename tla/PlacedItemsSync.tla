-------------------------- MODULE PlacedItemsSync --------------------------
(***************************************************************************)
(* What io-gameplay shows its clients: the placed items of the player      *)
(* whose farm they look at.  A client observes its own farm from the       *)
(* moment it is authenticated, and another from its visit on.  Items are   *)
(* read from the database and pushed every second, at a visit, when the    *)
(* client asks, and when a neighbour has changed the farm (an event of     *)
(* gameplay-service through Kafka); nothing orders the pushes, each reads  *)
(* and emits when it can.                                                  *)
(*                                                                         *)
(* A definition marked (slip: ...) is a mistake a change of the code could *)
(* make in the definition that follows; no action uses it.                 *)
(***************************************************************************)
EXTENDS Naturals, FiniteSets

CONSTANTS
    Sockets,     \* clients, one connection each at a time
    Users,       \* players with a farm
    MaxVisits,   \* bound: visits of one connection
    MaxChanges,  \* bound: changes of a farm
    MaxPushes    \* bound: pushes under way

ASSUME SyncAssumption == MaxVisits \in Nat /\ MaxChanges \in Nat /\ MaxPushes \in Nat

VARIABLES
    farm,        \* how often the placed items of a player have changed
    stage,       \* "away", "connecting" or "open"
    observing,   \* socket.data.observing.userId
    rooms,       \* the rooms a socket is in
    pushes,      \* getPlacedItems under way, and read but not emitted yet
    announcing,  \* changes committed by neighbours, not yet sent to Kafka
    topic,       \* events of KafkaPattern.PlacedItems
    shown        \* what a client shows

(***************************************************************************)
(* History: the visits of a connection, counted.                           *)
(***************************************************************************)
VARIABLE visits

sockets  == <<stage, observing, rooms, visits>>
messages == <<announcing, topic>>
vars     == <<farm, sockets, pushes, messages, shown>>

Nobody  == [none |-> "user"]
Nothing == [none |-> "items"]

Open(s) == stage[s] = "open"

(* A push of the items of u to s, begun now; it is due to show at least    *)
(* the given change: for an event its own, else the last one committed.    *)
Push(s, u, change) ==
    [to |-> s, user |-> u, visit |-> visits[s], due |-> change,
     read |-> FALSE, version |-> 0]

StartPushes(new) ==
    /\ pushes' = pushes \cup new
    /\ Cardinality(pushes') <= MaxPushes

----------------------------------------------------------------------------
Init ==
    /\ farm = [u \in Users |-> 0]
    /\ stage = [s \in Sockets |-> "away"]
    /\ observing = [s \in Sockets |-> Nobody]
    /\ rooms = [s \in Sockets |-> {}]
    /\ visits = [s \in Sockets |-> 0]
    /\ pushes = {}
    /\ announcing = {}
    /\ topic = {}
    /\ shown = [s \in Sockets |-> Nothing]

(***************************************************************************)
(* The gateway of the namespace.                                           *)
(***************************************************************************)
Connect(s) ==
    /\ stage[s] = "away"
    /\ stage' = [stage EXCEPT ![s] = "connecting"]
    /\ UNCHANGED <<farm, observing, rooms, visits, pushes, messages, shown>>

(* The token is verified; the socket joins no room.                        *)
HandleConnection(s, u) ==
    /\ stage[s] = "connecting"
    /\ stage' = [stage EXCEPT ![s] = "open"]
    /\ observing' = [observing EXCEPT ![s] = u]
    /\ UNCHANGED <<farm, rooms, visits, pushes, messages, shown>>

(* A client goes, or is refused; what is pushed to its socket is dropped.  *)
HandleDisconnect(s) ==
    /\ stage[s] # "away"
    /\ stage' = [stage EXCEPT ![s] = "away"]
    /\ observing' = [observing EXCEPT ![s] = Nobody]
    /\ rooms' = [rooms EXCEPT ![s] = {}]
    /\ visits' = [visits EXCEPT ![s] = 0]
    /\ pushes' = {p \in pushes : p.to # s}
    /\ shown' = [shown EXCEPT ![s] = Nothing]
    /\ UNCHANGED <<farm, messages>>

(* (slip: a visit before the end of the authentication is let through)     *)
HandleVisitEarly(s, u) ==
    /\ stage[s] # "away" /\ visits[s] < MaxVisits
    /\ rooms' = [rooms EXCEPT ![s] = (@ \ {observing[s]}) \cup {u}]
    /\ observing' = [observing EXCEPT ![s] = u]
    /\ visits' = [visits EXCEPT ![s] = @ + 1]
    /\ StartPushes({[Push(s, u, farm[u]) EXCEPT !.visit = visits[s] + 1]})
    /\ UNCHANGED <<farm, stage, messages, shown>>

(* (slip: the room of the farm left is not left)                           *)
HandleVisitStaying(s, u) ==
    /\ Open(s) /\ visits[s] < MaxVisits
    /\ rooms' = [rooms EXCEPT ![s] = @ \cup {u}]
    /\ observing' = [observing EXCEPT ![s] = u]
    /\ visits' = [visits EXCEPT ![s] = @ + 1]
    /\ StartPushes({[Push(s, u, farm[u]) EXCEPT !.visit = visits[s] + 1]})
    /\ UNCHANGED <<farm, stage, messages, shown>>

(* A visit leaves the room of the farm observed, joins that of the other   *)
(* and has it pushed.  Before the authentication ends there is nothing to  *)
(* leave, and the handler throws.                                          *)
HandleVisit(s, u) ==
    /\ Open(s) /\ visits[s] < MaxVisits
    /\ rooms' = [rooms EXCEPT ![s] = (@ \ {observing[s]}) \cup {u}]
    /\ observing' = [observing EXCEPT ![s] = u]
    /\ visits' = [visits EXCEPT ![s] = @ + 1]
    /\ StartPushes({[Push(s, u, farm[u]) EXCEPT !.visit = visits[s] + 1]})
    /\ UNCHANGED <<farm, stage, messages, shown>>

----------------------------------------------------------------------------
(***************************************************************************)
(* The gateway of the placed items.                                        *)
(***************************************************************************)
Begin(new) ==
    /\ StartPushes(new)
    /\ UNCHANGED <<farm, sockets, shown>>

(* (slip: only those in a room are served)                                 *)
ProcessSyncOfRooms ==
    /\ Begin({Push(s, observing[s], farm[observing[s]]) : s \in {r \in Sockets : rooms[r] # {}}})
    /\ UNCHANGED messages

ProcessSyncPlacedItemsEverySecond ==
    /\ Begin({Push(s, observing[s], farm[observing[s]]) : s \in {r \in Sockets : Open(r)}})
    /\ UNCHANGED messages

HandleSyncPlacedItems(s) ==
    /\ Open(s)
    /\ Begin({Push(s, observing[s], farm[observing[s]])})
    /\ UNCHANGED messages

(* An event goes to the visitors found in the room; Kafka may deliver it   *)
(* once more.                                                              *)
SyncPlacedItems(e) ==
    /\ Begin({Push(s, e.user, e.change) : s \in {r \in Sockets : e.user \in rooms[r]}})
    /\ topic' \in {topic, topic \ {e}}
    /\ UNCHANGED announcing

GetPlacedItems(p) ==
    /\ ~p.read
    /\ pushes' = (pushes \ {p}) \cup {[p EXCEPT !.read = TRUE, !.version = farm[p.user]]}
    /\ UNCHANGED <<farm, sockets, messages, shown>>

FailToGetPlacedItems(p) ==
    /\ ~p.read
    /\ pushes' = pushes \ {p}
    /\ UNCHANGED <<farm, sockets, messages, shown>>

EmitPlacedItems(p) ==
    /\ p.read
    /\ pushes' = pushes \ {p}
    /\ shown' = [shown EXCEPT ![p.to] = p]
    /\ UNCHANGED <<farm, sockets, messages>>

----------------------------------------------------------------------------
(***************************************************************************)
(* The farms.                                                              *)
(***************************************************************************)
(* Its player or a worker changes a farm.                                  *)
ChangeFarm(u) ==
    /\ farm[u] < MaxChanges
    /\ farm' = [farm EXCEPT ![u] = @ + 1]
    /\ UNCHANGED <<sockets, pushes, messages, shown>>

(* The event of help-water names its neighborUserId, not the userId the    *)
(* consumer asks for: it finds nobody in any room.                         *)
HelpWater(u) == ChangeFarm(u)

(* (slip: the change is announced before it is committed)                  *)
HelpAnnouncedFirst(u) ==
    /\ farm[u] < MaxChanges
    /\ announcing' = announcing \cup {[user |-> u, change |-> farm[u] + 1]}
    /\ UNCHANGED <<farm, sockets, pushes, topic, shown>>

(* Another help or a theft: the transaction is committed, then Kafka is    *)
(* told, unless the process dies or the broker cannot be reached.          *)
Help(u) ==
    /\ farm[u] < MaxChanges
    /\ farm' = [farm EXCEPT ![u] = @ + 1]
    /\ announcing' = announcing \cup {[user |-> u, change |-> farm[u] + 1]}
    /\ UNCHANGED <<sockets, pushes, topic, shown>>

Announce(e) ==
    /\ announcing' = announcing \ {e}
    /\ topic' \in {topic, topic \cup {e}}
    /\ UNCHANGED <<farm, sockets, pushes, shown>>

----------------------------------------------------------------------------
SocketStep(s) ==
    \/ Connect(s)
    \/ \E u \in Users : HandleConnection(s, u) \/ HandleVisit(s, u)
    \/ HandleDisconnect(s)
    \/ HandleSyncPlacedItems(s)

PushStep(p) == GetPlacedItems(p) \/ FailToGetPlacedItems(p) \/ EmitPlacedItems(p)

Next ==
    \/ \E s \in Sockets : SocketStep(s)
    \/ ProcessSyncPlacedItemsEverySecond
    \/ \E e \in topic : SyncPlacedItems(e)
    \/ \E p \in pushes : PushStep(p)
    \/ \E u \in Users : ChangeFarm(u) \/ HelpWater(u) \/ Help(u)
    \/ \E e \in announcing : Announce(e)

Spec == Init /\ [][Next]_vars

(* Cron goes on, errors of the database are transient, and what is read is *)
(* emitted.                                                                *)
GetFor(s)  == \E p \in pushes : p.to = s /\ GetPlacedItems(p)
EmitFor(s) == \E p \in pushes : p.to = s /\ EmitPlacedItems(p)
Fairness ==
    /\ WF_vars(ProcessSyncPlacedItemsEverySecond)
    /\ \A s \in Sockets : SF_vars(GetFor(s)) /\ WF_vars(EmitFor(s))

FairSpec == Spec /\ Fairness

----------------------------------------------------------------------------
(* Each variable holds a value the code can give it: a client observes a   *)
(* farm once it is authenticated, and is in no room but that farm's.       *)
Pushes == [to : Sockets, user : Users, visit : 0 .. MaxVisits,
           due : 0 .. MaxChanges, read : BOOLEAN, version : 0 .. MaxChanges]
Events == [user : Users, change : 1 .. MaxChanges]
TypeOK ==
    /\ farm \in [Users -> 0 .. MaxChanges]
    /\ stage \in [Sockets -> {"away", "connecting", "open"}]
    /\ observing \in [Sockets -> Users \cup {Nobody}]
    /\ \A s \in Sockets : Open(s) <=> observing[s] # Nobody
    /\ \A s \in Sockets : rooms[s] \subseteq {observing[s]} \cap Users
    /\ pushes \subseteq Pushes
    /\ announcing \subseteq Events /\ topic \subseteq Events
    /\ shown \in [Sockets -> Pushes \cup {Nothing}]
    /\ visits \in [Sockets -> 0 .. MaxVisits]

(* No push shows what was out of date when it was begun, however pushes    *)
(* overtake each other and Kafka repeats itself: of a farm other than the  *)
(* one it observes a client shows something only if the push had begun     *)
(* before its last visit; and a push shows no state from before it was     *)
(* begun, one that follows a neighbour's event none from before the change *)
(* it tells of.  (A push that reads, is overtaken and emits afterwards     *)
(* does bring an older state back, for as long as FarmIsShown says.)       *)
ShownIsDue ==
    \A s \in Sockets : shown[s] # Nothing =>
        /\ shown[s].user # observing[s] => shown[s].visit < visits[s]
        /\ shown[s].version >= shown[s].due

(* A client that stays connected comes to show the farm it observes as it  *)
(* is, and goes on doing so, once visits and changes have come to an end   *)
(* (their bounds see to that): no push begun earlier has the last word.    *)
FarmIsShown ==
    \A s \in Sockets :
        (<>[]Open(s)) =>
        <>[](/\ shown[s] # Nothing
             /\ shown[s].user = observing[s]
             /\ shown[s].version = farm[observing[s]])
=============================================================================
