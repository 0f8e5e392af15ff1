--------------------------- MODULE Gateway_proofs ---------------------------
(***************************************************************************)
(* The edges of the system, for every number of users, requests and        *)
(* clients, and whatever the times are.                                    *)
(*                                                                         *)
(* A service that acts for a user acts for one who has logged in.  The     *)
(* induction is over where tokens come from: logins make them for the      *)
(* account shown with a signed message, refreshes for the user of a        *)
(* session, and the rows of sessions were made by one or the other.        *)
(*                                                                         *)
(* No client of io-gameplay is shown what was out of date when its push    *)
(* was begun.  The induction follows a push from its start until the       *)
(* client shows something else.                                            *)
(*                                                                         *)
(* A delete, of reference data or of a player's rows, leaves no key that   *)
(* names a missing row, in any database with the keys of Schema.           *)
(***************************************************************************)
EXTENDS Gateway, Schema, TLAPS

(* Tokens and sessions are of users who have logged in, and so             *)
(* are the ones a refresh shows.                                           *)
Earned(grant) == grant = NoGrant \/ grant.user \in loggedIn
GrantsEarned ==
    /\ \A c \in Calls : Earned(tokens[c]) /\ Earned(sessions[c])
    /\ \A c \in Calls : At(c, "sent") /\ Method(c) = "refresh" => Earned(call[c].shows)

Typed == /\ now \in Nat
         /\ tokens = [c \in Calls |-> tokens[c]]
         /\ sessions = [c \in Calls |-> sessions[c]]
         /\ call = [c \in Calls |-> call[c]]

IInv == Typed /\ GrantsEarned /\ ActsForCaller

(* A message with a userId is one of a guarded route.                      *)
LEMMA OnlyGuardedCarryUser ==
    ASSUME NEW r \in GameplayController, NEW u,
           "userId" \in Carried(r.method, Body(r, u) \cup r.adds)
    PROVE  r.guarded /\ "userId" \in r.adds
<1>1. CASE r \in AuthRoutes
  <2>1. /\ r.method \in {"requestMessage", "generateSignature", "verifySignature", "refresh"}
    BY <1>1 DEF AuthRoutes, Open
  <2>2. "userId" \notin GameplayService[r.method]
    BY <2>1 DEF GameplayService
  <2> QED BY <2>2 DEF Carried
<1>2. CASE r \notin AuthRoutes
  BY <1>2 DEF GameplayController, ClaimRoutes, CommunityRoutes, DeliveryRoutes, FarmingRoutes,
              ShopRoutes, PlacementRoutes, ProfileRoutes, UpgradeRoutes, Guarded
<1> QED BY <1>1, <1>2

(* The access token that passes a guard is of a user who has logged in.    *)
LEMMA ValidIsEarned ==
    ASSUME now \in Nat, NEW t, Earned(t), Valid(t)
    PROVE  t.user \in loggedIn
<1>1. t # NoGrant
  BY DEF Valid, NoGrant
<1> QED BY <1>1 DEF Earned

LEMMA InitIInv == Init => IInv
BY DEF Init, IInv, Typed, GrantsEarned, ActsForCaller, Earned, At, Method, Idle

(* Each step keeps it.                                                     *)
LEMMA StepIInv ==
    ASSUME IInv, [Next]_vars
    PROVE  IInv'
<1> USE DEF IInv
<1>0. CASE UNCHANGED vars
  BY <1>0 DEF vars, Typed, GrantsEarned, ActsForCaller, Earned, At, Method
<1>1. CASE Tick
  BY <1>1 DEF Tick, Typed, GrantsEarned, ActsForCaller, Earned, At, Method
<1>2. ASSUME NEW c \in Calls, NEW stage, stage # "sent", Answer(c, stage),
             UNCHANGED <<now, tokens, sessions, loggedIn>>
      PROVE  IInv'
  BY <1>2 DEF Answer, Idle, Typed, GrantsEarned, ActsForCaller, Earned, At, Method
<1>3. ASSUME NEW c \in Calls, Send(c)
      PROVE  IInv'
  <2>1. PICK r \in GameplayController, d \in Calls, u \in Users \cup {Nobody} :
          /\ Passes(r, tokens[d])
          /\ \E s \in Shown(r) :
              call' = [call EXCEPT ![c] =
                [stage |-> "sent", method |-> r.method, bearer |-> tokens[d], shows |-> s,
                 fields |-> Carried(r.method, Body(r, u) \cup r.adds),
                 userId |-> IF "userId" \in r.adds THEN tokens[d].user ELSE u]]
    BY <1>3 DEF Send
  <2>2. PICK s \in Shown(r) :
          call' = [call EXCEPT ![c] =
                [stage |-> "sent", method |-> r.method, bearer |-> tokens[d], shows |-> s,
                 fields |-> Carried(r.method, Body(r, u) \cup r.adds),
                 userId |-> IF "userId" \in r.adds THEN tokens[d].user ELSE u]]
    BY <2>1
  <2>3. UNCHANGED <<now, messages, tokens, sessions, loggedIn>>
    BY <1>3 DEF Send
  <2>4. Typed'
    BY <2>2, <2>3 DEF Typed
  <2>5. GrantsEarned'
    <3>1. r.method = "refresh" => Earned(s)
      BY <2>2 DEF Shown, GrantsEarned
    <3> QED BY <2>2, <2>3, <3>1 DEF Typed, GrantsEarned, Earned, At, Method
  <2>6. ActsForCaller'
    <3>1. "userId" \in Carried(r.method, Body(r, u) \cup r.adds) =>
            /\ "userId" \in r.adds
            /\ tokens[d].user \in loggedIn
      <4> HAVE "userId" \in Carried(r.method, Body(r, u) \cup r.adds)
      <4>1. r.guarded /\ "userId" \in r.adds
        BY OnlyGuardedCarryUser
      <4>2. Valid(tokens[d])
        BY <2>1, <4>1 DEF Passes
      <4> QED BY <4>1, <4>2, ValidIsEarned DEF Typed, GrantsEarned
    <3> QED BY <2>2, <2>3, <3>1 DEF Typed, ActsForCaller, At
  <2> QED BY <2>4, <2>5, <2>6
<1>4. ASSUME NEW c \in Calls, NEW u, Credentials(c, u), u \in loggedIn', loggedIn \subseteq loggedIn',
             now' = now
      PROVE  IInv'
  <2>1. Typed'
    BY <1>4 DEF Credentials, Answer, Typed
  <2>2. GrantsEarned'
    BY <1>4 DEF Credentials, Grant, Answer, Idle, Typed, GrantsEarned, Earned, At, Method
  <2>3. ActsForCaller'
    BY <1>4 DEF Credentials, Answer, Idle, Typed, ActsForCaller, At
  <2> QED BY <2>1, <2>2, <2>3
<1>5. ASSUME NEW c \in Calls, VerifySignature(c)
      PROVE  IInv'
  BY <1>4, <1>5 DEF VerifySignature
<1>6. ASSUME NEW c \in Calls, Refresh(c)
      PROVE  IInv'
  <2>1. call[c].shows.user \in loggedIn
    BY <1>6 DEF Refresh, GrantsEarned, Earned
  <2> QED BY <1>4, <1>6, <2>1 DEF Refresh
<1>7. ASSUME NEW c \in Calls,
             \/ Refuse(c) \/ FailToCall(c) \/ RequestMessage(c) \/ GenerateSignature(c)
             \/ FailToServe(c) \/ Serve(c)
      PROVE  IInv'
  BY <1>2, <1>7 DEF Refuse, FailToCall, RequestMessage, GenerateSignature, HandOutMessage, FailToServe,
                    Serve
<1> QED BY <1>0, <1>1, <1>3, <1>5, <1>6, <1>7 DEF Next

(* A service that acts for a user acts for the one the access token was    *)
(* handed out to, who has logged in, whatever the body says.               *)
THEOREM CallersKept == Spec => []ActsForCaller
<1>1. IInv => ActsForCaller
  BY DEF IInv
<1> QED BY <1>1, InitIInv, StepIInv, PTL DEF Spec

(* The methods whose requests do not fit the protobuf service.             *)
Gaps == {"helpUseHerbicide", "updateTutorial", "helpWater", "helpUsePesticide",
         "helpCureAnimal", "thiefCrop", "upgradeBuilding"}
Fits(h) == Callable(h.method) /\ h.request \subseteq GameplayService[h.method]

(* Every other request of every controller can be made, and its message    *)
(* carries all of its fields.                                              *)
THEOREM ContractKeptElsewhere ==
    \A h \in AppModule : h.method \notin Gaps => Fits(h)
<1> USE DEF Gaps, Fits, Callable, Serves, GameplayService, UserIdRequest,
            NeighborAndUserIdRequest
<1>1. \A h \in AuthModule : h.method \notin Gaps => Fits(h)
  BY DEF AuthModule,
         GenerateSignatureModule, RequestMessageModule, VerifySignatureModule,
         RefreshModule,
         RequestMessageController, GenerateSignatureController,
         VerifySignatureController, RefreshController, RequestMessageRequest,
         GenerateSignatureRequest, VerifySignatureRequest, RefreshRequest
<1>2. \A h \in ClaimModule : h.method \notin Gaps => Fits(h)
  BY DEF ClaimModule,
         SpinModule, ClaimDailyRewardModule,
         ClaimDailyRewardSpinController, SpinController,
         ClaimDailyRewardRequest, SpinRequest
<1>3. \A h \in CommunityModule : h.method \notin Gaps => Fits(h)
  BY DEF CommunityModule,
         FollowModule, UnfollowModule, HelpCureAnimalModule,
         HelpWaterModule, HelpUsePesticideModule, HelpUseHerbicideModule,
         ThiefCropModule, ThiefAnimalProductModule,
         FollowController, UnfollowController, HelpCureAnimalController,
         HelpWaterController, HelpUsePesticideController, HelpUseHerbicideController,
         ThiefCropController, ThiefAnimalProductController, FollowRequest, UnfollowRequest,
         HelpCureAnimalRequest, HelpWaterRequest, HelpUsePesticideRequest,
         HelpUseHerbicideRequest, ThiefCropRequest, ThiefAnimalProductRequest
<1>4. \A h \in DeliveryModule : h.method \notin Gaps => Fits(h)
  BY DEF DeliveryModule,
         DeliverProductModule, RetainProductModule,
         DeliverProductController, RetainProductController,
         DeliverProductRequest, RetainProductRequest
<1>5. \A h \in DevModule : h.method \notin Gaps => Fits(h)
  BY DEF DevModule,
         SpeedUpModule, DeliveryInstantlyModule,
         SpeedUpController, DeliveryInstantlyController, SpeedUpRequest,
         DeliverInstantlyRequest
<1>6. \A h \in FarmingModule : h.method \notin Gaps => Fits(h)
  BY DEF FarmingModule,
         CollectAnimalProductModule, CureAnimalModule, FeedAnimalModule,
         HarvestCropModule, PlantSeedModule, UseFertilizerModule,
         UseHerbicideModule, UsePesticideModule, WaterModule,
         CollectAnimalProductController, CureAnimalController,
         FeedAnimalController, HarvestCropController, PlantSeedController,
         UseFertilizerController, UseHerbicideController, UsePesticideController,
         WaterController, CollectAnimalProductRequest, CureAnimalRequest,
         FeedAnimalRequest, HarvestCropRequest, PlantSeedRequest, UseFertilizerRequest,
         UseHerbicideRequest, UsePesticideRequest, WaterRequest
<1>7. \A h \in PlacementModule : h.method \notin Gaps => Fits(h)
  BY DEF PlacementModule,
         MoveModule, PlaceTileModule, RecoverTileModule,
         MoveController, PlaceTileController, RecoverTileController,
         MoveRequest, PlaceTileRequest, RecoverTileRequest
<1>8. \A h \in ProfileModule : h.method \notin Gaps => Fits(h)
  BY DEF ProfileModule,
         UpdateTutorialModule,
         UpdateTutorialController, UpdateTutorialRequest
<1>9. \A h \in ShopModule : h.method \notin Gaps => Fits(h)
  BY DEF ShopModule,
         ConstructBuildingModule, BuySeedsModule, BuySuppliesModule,
         BuyAnimalModule, BuyTileModule,
         ConstructBuildingController, BuySeedsController,
         BuySuppliesController, BuyAnimalController, BuyTileController,
         ConstructBuildingRequest, BuySeedsRequest, BuySuppliesRequest, BuyAnimalRequest,
         BuyTileRequest
<1>10. \A h \in UpgradeModule : h.method \notin Gaps => Fits(h)
  BY DEF UpgradeModule,
         UpgradeBuildingModule,
         UpgradeBuildingController, UpgradeBuildingRequest
<1> HIDE DEF Gaps, Fits, Callable, Serves, GameplayService, UserIdRequest,
            NeighborAndUserIdRequest
<1> QED BY <1>1, <1>2, <1>3, <1>4, <1>5, <1>6, <1>7, <1>8, <1>9, <1>10 DEF AppModule

----------------------------------------------------------------------------
(***************************************************************************)
(* The gateway of the sockets, io-gameplay: PlacedItemsSync, for any       *)
(* number of clients, farms, visits, changes and pushes under way.         *)
(***************************************************************************)
CONSTANTS Sockets, MaxVisits, MaxChanges, MaxPushes
VARIABLES farm, stage, observing, rooms, pushes, announcing, topic, shown, visits

Sync == INSTANCE PlacedItemsSync

SyncTypes ==
    /\ farm \in [Users -> Nat]
    /\ visits \in [Sockets -> Nat]
    /\ stage \in [Sockets -> {"away", "connecting", "open"}]
    /\ observing \in [Sockets -> Users \cup {Sync!Nobody}]
    /\ rooms = [s \in Sockets |-> rooms[s]]
    /\ shown = [s \in Sockets |-> shown[s]]

(* A client observes a farm if it is authenticated, and is in the room of  *)
(* no other.                                                               *)
SocketKnown(s) ==
    /\ Sync!Open(s) => observing[s] \in Users
    /\ ~Sync!Open(s) => rooms[s] = {} /\ shown[s] = Sync!Nothing /\ visits[s] = 0
    /\ rooms[s] \subseteq {observing[s]}

(* A change is announced after its commit.                                 *)
Committed(e) == e.user \in Users /\ e.change \in Nat /\ e.change <= farm[e.user]

(* What holds of a push from its start until the client shows something    *)
(* else: one of another farm than the client's began before its last       *)
(* visit, one that follows an event follows its commit, and what is read   *)
(* after that has the change in it.                                        *)
PushRow == [to : Sockets, user : Users, visit : Nat, due : Nat, read : BOOLEAN, version : Nat]
Timely(p) ==
    /\ p \in PushRow
    /\ Sync!Open(p.to)
    /\ p.user # observing[p.to] => p.visit < visits[p.to]
    /\ p.visit <= visits[p.to]
    /\ p.due <= farm[p.user]
    /\ p.read => p.version >= p.due

ShownTimely(s) ==
    \A p \in {shown[s]} \ {Sync!Nothing} : Timely(p) /\ p.read /\ p.to = s

SyncInv ==
    /\ SyncTypes
    /\ \A s \in Sockets : SocketKnown(s)
    /\ \A e \in announcing \cup topic : Committed(e)
    /\ \A p \in pushes : Timely(p)
    /\ \A s \in Sockets : ShownTimely(s)

(* What is pushed is of the farm observed at the start, and due to show    *)
(* nothing that is not committed.                                          *)
LEMMA PushBegins ==
    ASSUME SyncInv, NEW s \in Sockets, Sync!Open(s), NEW change \in Nat,
           change <= farm[observing[s]]
    PROVE  Timely(Sync!Push(s, observing[s], change))
<1>1. observing[s] \in Users
  BY DEF SyncInv, SocketKnown
<1>2. visits[s] \in Nat
  BY DEF SyncInv, SyncTypes
<1> QED BY <1>1, <1>2 DEF Sync!Push, Timely, PushRow

(* Pushes that begin disturb nothing.                                      *)
LEMMA BeginTimely ==
    ASSUME SyncInv, NEW new, \A p \in new : Timely(p), Sync!Begin(new),
           announcing' \cup topic' \subseteq announcing \cup topic
    PROVE  SyncInv'
<1>1. pushes' = pushes \cup new /\ UNCHANGED <<farm, stage, observing, rooms, visits, shown>>
  BY DEF Sync!Begin, Sync!StartPushes, Sync!sockets
<1>2. SyncTypes'
  BY <1>1 DEF SyncInv, SyncTypes
<1>3. \A s \in Sockets : SocketKnown(s)'
  BY <1>1 DEF SyncInv, SocketKnown, Sync!Open
<1>4. \A e \in announcing' \cup topic' : Committed(e)'
  BY <1>1 DEF SyncInv, Committed, ShownTimely
<1>5. \A p : Timely(p) => Timely(p)'
  BY <1>1 DEF Timely, Sync!Open
<1>6. \A p \in pushes' : Timely(p)'
  BY <1>1, <1>5 DEF SyncInv
<1>7. \A s \in Sockets : ShownTimely(s)'
  BY <1>1, <1>5 DEF SyncInv, ShownTimely
<1> QED BY <1>2, <1>3, <1>4, <1>6, <1>7 DEF SyncInv

LEMMA SyncInit == Sync!Init => SyncInv
BY DEF Sync!Init, SyncInv, ShownTimely, SyncTypes, SocketKnown, Sync!Open, Sync!Nobody, Sync!Nothing

LEMMA ConnectTimely ==
    ASSUME SyncInv, NEW s \in Sockets, Sync!Connect(s)
    PROVE  SyncInv'
<1>1. /\ stage[s] = "away" /\ stage' = [stage EXCEPT ![s] = "connecting"]
      /\ UNCHANGED <<farm, observing, rooms, visits, pushes, announcing, topic, shown>>
  BY DEF Sync!Connect, Sync!messages
<1>2. SyncTypes'
  BY <1>1 DEF SyncInv, SyncTypes
<1>3. \A q \in Sockets : Sync!Open(q)' <=> Sync!Open(q)
  BY <1>1 DEF SyncInv, SyncTypes, Sync!Open
<1>4. \A q \in Sockets : SocketKnown(q)'
  BY <1>1, <1>3 DEF SyncInv, SocketKnown
<1>5. \A p : Timely(p) => Timely(p)'
  BY <1>1, <1>3 DEF Timely, PushRow
<1> QED BY <1>1, <1>2, <1>4, <1>5 DEF SyncInv, Committed, ShownTimely

LEMMA HandleConnectionTimely ==
    ASSUME SyncInv, NEW s \in Sockets, NEW u \in Users, Sync!HandleConnection(s, u)
    PROVE  SyncInv'
<1>1. /\ stage[s] = "connecting" /\ stage' = [stage EXCEPT ![s] = "open"]
      /\ observing' = [observing EXCEPT ![s] = u]
      /\ UNCHANGED <<farm, rooms, visits, pushes, announcing, topic, shown>>
  BY DEF Sync!HandleConnection, Sync!messages
<1>2. SyncTypes'
  BY <1>1 DEF SyncInv, SyncTypes
<1>3. /\ ~Sync!Open(s) /\ Sync!Open(s)'
      /\ \A q \in Sockets \ {s} : (Sync!Open(q)' <=> Sync!Open(q)) /\ observing'[q] = observing[q]
  BY <1>1 DEF SyncInv, SyncTypes, Sync!Open
<1>4. observing'[s] = u
  BY <1>1 DEF SyncInv, SyncTypes
<1>5. \A q \in Sockets : SocketKnown(q)'
  BY <1>1, <1>3, <1>4 DEF SyncInv, SocketKnown
<1>6. \A p : Timely(p) => Timely(p)'
  BY <1>1, <1>3 DEF Timely, PushRow
<1> QED BY <1>1, <1>2, <1>5, <1>6 DEF SyncInv, Committed, ShownTimely

LEMMA HandleDisconnectTimely ==
    ASSUME SyncInv, NEW s \in Sockets, Sync!HandleDisconnect(s)
    PROVE  SyncInv'
<1>1. /\ stage' = [stage EXCEPT ![s] = "away"]
      /\ observing' = [observing EXCEPT ![s] = Sync!Nobody]
      /\ rooms' = [rooms EXCEPT ![s] = {}]
      /\ visits' = [visits EXCEPT ![s] = 0]
      /\ pushes' = {p \in pushes : p.to # s}
      /\ shown' = [shown EXCEPT ![s] = Sync!Nothing]
      /\ UNCHANGED <<farm, announcing, topic>>
  BY DEF Sync!HandleDisconnect, Sync!messages
<1>2. SyncTypes'
  BY <1>1 DEF SyncInv, SyncTypes
<1>3. /\ ~Sync!Open(s)' /\ rooms'[s] = {} /\ visits'[s] = 0 /\ shown'[s] = Sync!Nothing
      /\ \A q \in Sockets \ {s} :
          /\ Sync!Open(q)' <=> Sync!Open(q)
          /\ observing'[q] = observing[q] /\ rooms'[q] = rooms[q]
          /\ visits'[q] = visits[q] /\ shown'[q] = shown[q]
  BY <1>1 DEF SyncInv, SyncTypes, Sync!Open
<1>4. \A q \in Sockets : SocketKnown(q)'
  BY <1>3 DEF SyncInv, SocketKnown
<1>5. \A p : Timely(p) /\ p.to # s => Timely(p)'
  BY <1>1, <1>3 DEF Timely, PushRow
<1>6. \A q \in Sockets : ShownTimely(q)'
  BY <1>3, <1>5 DEF SyncInv, ShownTimely
<1> QED BY <1>1, <1>2, <1>4, <1>5, <1>6 DEF SyncInv, Committed, ShownTimely

LEMMA HandleVisitTimely ==
    ASSUME SyncInv, NEW s \in Sockets, NEW u \in Users, Sync!HandleVisit(s, u)
    PROVE  SyncInv'
<1>0. PICK p0 : p0 = [Sync!Push(s, u, farm[u]) EXCEPT !.visit = visits[s] + 1]
  OBVIOUS
<1>1. /\ Sync!Open(s)
      /\ rooms' = [rooms EXCEPT ![s] = (rooms[s] \ {observing[s]}) \cup {u}]
      /\ observing' = [observing EXCEPT ![s] = u]
      /\ visits' = [visits EXCEPT ![s] = visits[s] + 1]
      /\ UNCHANGED <<farm, stage, announcing, topic, shown>>
  BY DEF Sync!HandleVisit, Sync!messages
<1>2. pushes' = pushes \cup {p0}
  BY <1>0 DEF Sync!HandleVisit, Sync!StartPushes
<1>3. visits[s] \in Nat /\ visits[s] + 1 \in Nat /\ farm[u] \in Nat
  BY DEF SyncInv, SyncTypes
<1>4. SyncTypes'
  BY <1>1, <1>3 DEF SyncInv, SyncTypes
<1>5. /\ \A q \in Sockets : Sync!Open(q)' <=> Sync!Open(q)
      /\ observing'[s] = u /\ rooms'[s] = (rooms[s] \ {observing[s]}) \cup {u}
      /\ visits'[s] = visits[s] + 1
      /\ \A q \in Sockets \ {s} :
          observing'[q] = observing[q] /\ rooms'[q] = rooms[q] /\ visits'[q] = visits[q]
  BY <1>1 DEF SyncInv, SyncTypes, Sync!Open
<1>6. \A q \in Sockets : SocketKnown(q)'
  <2>1. SocketKnown(s)'
    BY <1>1, <1>5 DEF SyncInv, SocketKnown
  <2>2. \A q \in Sockets \ {s} : SocketKnown(q)'
    BY <1>1, <1>5 DEF SyncInv, SocketKnown
  <2> QED BY <2>1, <2>2
<1>7. \A p : Timely(p) => Timely(p)'
  <2> SUFFICES ASSUME NEW p, Timely(p) PROVE Timely(p)'
    OBVIOUS
  <2>1. p \in PushRow /\ p.to \in Sockets /\ p.visit \in Nat
    BY DEF Timely, PushRow
  <2>2. CASE p.to = s
    <3>1. p.visit < visits'[s] /\ p.visit <= visits'[s]
      BY <2>1, <2>2, <1>3, <1>5 DEF Timely
    <3> QED BY <1>1, <1>5, <2>1, <2>2, <3>1 DEF Timely, PushRow
  <2>3. CASE p.to # s
    BY <1>1, <1>5, <2>1, <2>3 DEF Timely, PushRow
  <2> QED BY <2>2, <2>3
<1>8. Timely(p0)'
  <2>1. PICK q : q = Sync!Push(s, u, farm[u])
    OBVIOUS
  <2>2. q \in PushRow /\ q.to = s /\ q.user = u /\ q.due = farm[u] /\ q.read = FALSE
    BY <1>3, <2>1 DEF Sync!Push, PushRow
  <2>3. p0 = [q EXCEPT !.visit = visits[s] + 1]
    BY <1>0, <2>1
  <2>4. /\ p0 \in PushRow /\ p0.to = s /\ p0.user = u /\ p0.due = farm[u] /\ p0.read = FALSE
        /\ p0.visit = visits[s] + 1
    BY <1>3, <2>2, <2>3 DEF PushRow
  <2> QED BY <2>4, <1>1, <1>3, <1>5 DEF Timely, PushRow
<1> QED BY <1>1, <1>2, <1>4, <1>6, <1>7, <1>8 DEF SyncInv, Committed, ShownTimely

(* Reading a push and showing it.                                          *)
LEMMA GetPlacedItemsTimely ==
    ASSUME SyncInv, NEW p \in pushes, Sync!GetPlacedItems(p)
    PROVE  SyncInv'
<1> DEFINE p1 == [p EXCEPT !.read = TRUE, !.version = farm[p.user]]
<1>1. /\ pushes' = (pushes \ {p}) \cup {p1}
      /\ UNCHANGED <<farm, stage, observing, rooms, visits, announcing, topic, shown>>
  BY DEF Sync!GetPlacedItems, Sync!sockets, Sync!messages
<1>2. Timely(p) /\ p \in PushRow
  BY DEF SyncInv, Timely
<1>3. farm[p.user] \in Nat
  BY <1>2 DEF SyncInv, SyncTypes, PushRow
<1>4. Timely(p1)
  BY <1>2, <1>3 DEF Timely, PushRow
<1> HIDE DEF p1
<1>5. SyncTypes' /\ \A q \in Sockets : SocketKnown(q)'
  BY <1>1 DEF SyncInv, SyncTypes, SocketKnown, Sync!Open
<1>6. \A q : Timely(q) => Timely(q)'
  BY <1>1 DEF Timely, Sync!Open
<1> QED BY <1>1, <1>4, <1>5, <1>6 DEF SyncInv, Committed, ShownTimely

LEMMA DroppedTimely ==
    ASSUME SyncInv, NEW p \in pushes, Sync!FailToGetPlacedItems(p) \/ Sync!EmitPlacedItems(p)
    PROVE  SyncInv'
<1>1. /\ pushes' = pushes \ {p}
      /\ UNCHANGED <<farm, stage, observing, rooms, visits, announcing, topic>>
      /\ shown' = shown \/ (p.read /\ shown' = [shown EXCEPT ![p.to] = p])
  BY DEF Sync!FailToGetPlacedItems, Sync!EmitPlacedItems, Sync!sockets, Sync!messages
<1>2. Timely(p) /\ p.to \in Sockets /\ Sync!Open(p.to)
  BY DEF SyncInv, Timely, PushRow
<1>3. SyncTypes'
  BY <1>1 DEF SyncInv, SyncTypes
<1>4. \A q \in Sockets : shown'[q] = shown[q] \/ (q = p.to /\ p.read /\ shown'[q] = p)
  BY <1>1, <1>2 DEF SyncInv, SyncTypes
<1>5. \A q \in Sockets : SocketKnown(q)'
  BY <1>1, <1>2, <1>4 DEF SyncInv, SocketKnown, Sync!Open
<1>6. \A q : Timely(q) => Timely(q)'
  BY <1>1 DEF Timely, Sync!Open
<1> QED BY <1>1, <1>2, <1>3, <1>4, <1>5, <1>6 DEF SyncInv, Committed, ShownTimely

(* A farm only changes forward, and an event follows its change.           *)
LEMMA ChangesTimely ==
    ASSUME SyncInv, NEW u \in Users,
           farm' = [farm EXCEPT ![u] = farm[u] + 1],
           announcing' = announcing \/ announcing' = announcing \cup {[user |-> u, change |-> farm[u] + 1]},
           UNCHANGED <<stage, observing, rooms, visits, pushes, topic, shown>>
    PROVE  SyncInv'
<1>1. farm[u] \in Nat /\ farm[u] + 1 \in Nat
  BY DEF SyncInv, SyncTypes
<1>2. SyncTypes'
  BY <1>1 DEF SyncInv, SyncTypes
<1>3. \A v \in Users : farm'[v] \in Nat /\ farm[v] \in Nat /\ farm[v] <= farm'[v]
  BY <1>1 DEF SyncInv, SyncTypes
<1>4. \A q \in Sockets : SocketKnown(q)'
  BY DEF SyncInv, SocketKnown, Sync!Open
<1>5. \A e : Committed(e) => Committed(e)'
  BY <1>3 DEF Committed
<1>6. farm'[u] = farm[u] + 1
  BY DEF SyncInv, SyncTypes
<1>. PICK e : e = [user |-> u, change |-> farm[u] + 1]
  OBVIOUS
<1>7. Committed(e)'
  BY <1>1, <1>6 DEF Committed
<1>8. \A p : Timely(p) => Timely(p)'
  <2> SUFFICES ASSUME NEW p, Timely(p) PROVE Timely(p)'
    OBVIOUS
  <2>1. p \in PushRow /\ p.user \in Users /\ p.due \in Nat
    BY DEF Timely, PushRow
  <2>2. p.due <= farm'[p.user]
    BY <1>3, <2>1 DEF Timely
  <2> QED BY <2>1, <2>2 DEF Timely, Sync!Open
<1> QED BY <1>2, <1>4, <1>5, <1>7, <1>8 DEF SyncInv, ShownTimely

LEMMA SyncStep ==
    ASSUME SyncInv, [Sync!Next]_(Sync!vars)
    PROVE  SyncInv'
<1>1. CASE UNCHANGED Sync!vars
  <2>1. UNCHANGED <<farm, stage, observing, rooms, visits, pushes, announcing, topic, shown>>
    BY <1>1 DEF Sync!vars, Sync!sockets, Sync!messages
  <2> QED BY <2>1 DEF SyncInv, SyncTypes, SocketKnown, Committed, ShownTimely, Timely, Sync!Open
<1>2. ASSUME NEW s \in Sockets, Sync!SocketStep(s) PROVE SyncInv'
  <2>1. CASE Sync!HandleSyncPlacedItems(s)
    <3>1. Sync!Open(s) /\ Sync!Begin({Sync!Push(s, observing[s], farm[observing[s]])})
          /\ UNCHANGED <<announcing, topic>>
      BY <2>1 DEF Sync!HandleSyncPlacedItems, Sync!messages
    <3>2. farm[observing[s]] \in Nat
      BY <3>1 DEF SyncInv, SyncTypes, SocketKnown
    <3>3. Timely(Sync!Push(s, observing[s], farm[observing[s]]))
      BY <3>1, <3>2, PushBegins
    <3> QED BY <3>1, <3>3, BeginTimely
  <2> QED BY <1>2, <2>1, ConnectTimely, HandleConnectionTimely, HandleVisitTimely,
             HandleDisconnectTimely DEF Sync!SocketStep
<1>3. CASE Sync!ProcessSyncPlacedItemsEverySecond
  <2> DEFINE new == {Sync!Push(s, observing[s], farm[observing[s]]) : s \in {r \in Sockets : Sync!Open(r)}}
  <2>1. Sync!Begin(new) /\ UNCHANGED <<announcing, topic>>
    BY <1>3 DEF Sync!ProcessSyncPlacedItemsEverySecond, Sync!messages
  <2>2. ASSUME NEW s \in Sockets, Sync!Open(s) PROVE Timely(Sync!Push(s, observing[s], farm[observing[s]]))
    <3>1. farm[observing[s]] \in Nat
      BY <2>2 DEF SyncInv, SyncTypes, SocketKnown
    <3> QED BY <2>2, <3>1, PushBegins
  <2>3. \A p \in new : Timely(p)
    BY <2>2
  <2> HIDE DEF new
  <2> QED BY <2>1, <2>3, BeginTimely
<1>4. ASSUME NEW e \in topic, Sync!SyncPlacedItems(e) PROVE SyncInv'
  <2> DEFINE new == {Sync!Push(s, e.user, e.change) : s \in {r \in Sockets : e.user \in rooms[r]}}
  <2>1. Sync!Begin(new) /\ topic' \subseteq topic /\ announcing' = announcing
    BY <1>4 DEF Sync!SyncPlacedItems
  <2>2. ASSUME NEW s \in Sockets, e.user \in rooms[s]
        PROVE  Timely(Sync!Push(s, e.user, e.change))
    <3>1. Sync!Open(s) /\ e.user = observing[s]
      BY <2>2 DEF SyncInv, SocketKnown
    <3>2. Committed(e)
      BY DEF SyncInv
    <3> QED BY <3>1, <3>2, PushBegins DEF Committed
  <2>3. \A p \in new : Timely(p)
    BY <2>2
  <2> HIDE DEF new
  <2> QED BY <2>1, <2>3, BeginTimely
<1>5. ASSUME NEW u \in Users, Sync!ChangeFarm(u) \/ Sync!HelpWater(u) \/ Sync!Help(u)
      PROVE  SyncInv'
  BY <1>5, ChangesTimely DEF Sync!ChangeFarm, Sync!HelpWater, Sync!Help, Sync!sockets, Sync!messages
<1>6. ASSUME NEW e \in announcing, Sync!Announce(e) PROVE SyncInv'
  <2>1. /\ announcing' \cup topic' \subseteq announcing \cup topic
        /\ UNCHANGED <<farm, stage, observing, rooms, visits, pushes, shown>>
    BY <1>6 DEF Sync!Announce, Sync!sockets
  <2> QED BY <2>1 DEF SyncInv, SyncTypes, SocketKnown, Committed, ShownTimely, Timely, Sync!Open
<1> QED BY <1>1, <1>2, <1>3, <1>4, <1>5, <1>6, GetPlacedItemsTimely, DroppedTimely
        DEF Sync!Next, Sync!PushStep

(* No push shows what was out of date when it was begun: of a farm other   *)
(* than the one it observes a client shows something only if the push had  *)
(* begun before its last visit; and a push shows no state from before it   *)
(* was begun, one that follows a neighbour's event none from before the    *)
(* change it tells of.                                                     *)
THEOREM ShownKept == Sync!Spec => []Sync!ShownIsDue
<1>1. SyncInv => Sync!ShownIsDue
  <2> SUFFICES ASSUME SyncInv, NEW s \in Sockets, shown[s] # Sync!Nothing
               PROVE  /\ shown[s].user # observing[s] => shown[s].visit < visits[s]
                      /\ shown[s].version >= shown[s].due
    BY DEF Sync!ShownIsDue
  <2>1. Timely(shown[s]) /\ shown[s].read /\ shown[s].to = s
    BY DEF SyncInv, ShownTimely
  <2> QED BY <2>1, Zenon DEF Timely
<1> QED BY <1>1, SyncInit, SyncStep, PTL DEF Sync!Spec

----------------------------------------------------------------------------
(***************************************************************************)
(* Deletions, of reference data by a clear and of rows by players, in any  *)
(* database with the keys of Schema.                                       *)
(***************************************************************************)
Formed(r) == r = [table |-> r.table, id |-> r.id, copy |-> r.copy, refs |-> r.refs]

(* What a further round of cascading deletes is of tables one key further. *)
LEMMA NextRound ==
    ASSUME NEW db, NEW rows, NEW T, \A q \in With(db, rows) \ rows : q.table \in T
    PROVE  \A r \in With(db, With(db, rows)) \ With(db, rows) : r.table \in Cascading(T)
<1> SUFFICES ASSUME NEW r \in With(db, With(db, rows)) \ With(db, rows)
             PROVE  r.table \in Cascading(T)
  OBVIOUS
<1>1. r \in db /\ r \notin With(db, rows)
  BY DEF With
<1>2. PICK x \in r.refs, q \in With(db, rows) : Refers(r, x, q, {"cascade"})
  BY DEF With
<1>3. q \notin rows
  BY <1>1, <1>2 DEF With
<1>4. PICK k \in Keys : k.from = r.table /\ k.to = q.table /\ k.onDelete = "cascade"
  BY <1>2 DEF Refers
<1> QED BY <1>3, <1>4 DEF Cascading

(* Three rounds are enough: what they delete, no key that cascades refers  *)
(* to from outside.                                                        *)
LEMMA DoomedClosed ==
    ASSUME NEW db, NEW rows
    PROVE  With(db, Doomed(db, rows)) \subseteq Doomed(db, rows)
<1> DEFINE one   == With(db, rows)
           two   == With(db, one)
           three == With(db, two)
<1>1. \A r \in one \ rows : r.table \in Cascading(Tables)
  <2> SUFFICES ASSUME NEW r \in one \ rows PROVE r.table \in Cascading(Tables)
    OBVIOUS
  <2>1. PICK x \in r.refs, q \in rows : Refers(r, x, q, {"cascade"})
    BY DEF With
  <2>2. PICK k \in Keys : k.from = r.table /\ k.onDelete = "cascade"
    BY <2>1 DEF Refers
  <2>3. k.to \in Tables
    BY DEF Tables
  <2> QED BY <2>2, <2>3 DEF Cascading
<1>2. \A r \in two \ one : r.table \in Cascading(Cascading(Tables))
  BY <1>1, NextRound
<1>3. \A r \in three \ two : r.table \in Cascading(Cascading(Cascading(Tables)))
  BY <1>2, NextRound
<1>4. \A r \in With(db, three) \ three : r.table \in {}
  BY <1>3, NextRound, CascadesAreShort
<1> QED BY <1>4 DEF Doomed

(* A delete the keys do not refuse leaves no key that names a row that is  *)
(* not there: whatever it refers to goes with it, is forgotten, or stays.  *)
THEOREM NoKeyDangles ==
    ASSUME NEW db, \A r \in db : Formed(r), Resolved(db),
           NEW rows \in SUBSET db, ~Refused(db, rows)
    PROVE  Resolved(Deleted(db, rows)) /\ \A r \in Deleted(db, rows) : Formed(r)
<1> DEFINE gone == Doomed(db, rows)
           kept(r) == {x \in r.refs : \A q \in gone : ~Refers(r, x, q, {"set null"})}
           left(r) == [r EXCEPT !.refs = kept(r)]
<1>1. Deleted(db, rows) = {left(r) : r \in db \ gone}
  BY DEF Deleted
<1>2. ASSUME NEW r \in db
      PROVE  /\ left(r).table = r.table /\ left(r).id = r.id /\ left(r).copy = r.copy
             /\ left(r).refs = kept(r) /\ Formed(left(r))
  <2> DEFINE refs == kept(r)
  <2>1. r = [table |-> r.table, id |-> r.id, copy |-> r.copy, refs |-> r.refs]
    BY DEF Formed
  <2> HIDE DEF refs
  <2>2. [r EXCEPT !.refs = refs] = [table |-> r.table, id |-> r.id, copy |-> r.copy, refs |-> refs]
    BY <2>1
  <2> QED BY <2>2 DEF Formed, refs
<1>3. ASSUME NEW r \in db \ gone, NEW x \in kept(r)
      PROVE  \E q \in db \ gone : Refers(r, x, q, AnyRule)
  <2>1. PICK q \in db : Refers(r, x, q, AnyRule)
    BY DEF Resolved
  <2>2. PICK k \in Keys : /\ x.id = q.id /\ x.copy = q.copy
                          /\ k.from = r.table /\ k.column = x.column /\ k.to = q.table
                          /\ k.onDelete \in AnyRule
    BY <2>1 DEF Refers
  <2>3. Refers(r, x, q, {k.onDelete})
    BY <2>2 DEF Refers
  <2>4. ASSUME q \in gone PROVE FALSE
    <3>1. CASE k.onDelete = "cascade"
      <4>1. r \in With(db, gone)
        BY <2>3, <2>4, <3>1 DEF With
      <4> QED BY <4>1, DoomedClosed
    <3>2. CASE k.onDelete = "set null"
      BY <2>3, <2>4, <3>2
    <3>3. CASE k.onDelete = "no action"
      BY <2>3, <2>4, <3>3 DEF Refused
    <3> QED BY <2>2, <3>1, <3>2, <3>3 DEF AnyRule
  <2> QED BY <2>1, <2>4
<1>4. ASSUME NEW r \in db \ gone, NEW x \in left(r).refs
      PROVE  \E q \in Deleted(db, rows) : Refers(left(r), x, q, AnyRule)
  <2>1. x \in kept(r)
    BY <1>2
  <2>2. PICK q \in db \ gone : Refers(r, x, q, AnyRule)
    BY <1>3, <2>1
  <2>3. Refers(left(r), x, left(q), AnyRule)
    BY <1>2, <2>2 DEF Refers
  <2> QED BY <1>1, <2>3
<1>5. \A s \in Deleted(db, rows) : \E r \in db \ gone : s = left(r)
  BY <1>1
<1>6. Resolved(Deleted(db, rows))
  <2> SUFFICES ASSUME NEW s \in Deleted(db, rows), NEW x \in s.refs
               PROVE  \E q \in Deleted(db, rows) : Refers(s, x, q, AnyRule)
    BY DEF Resolved
  <2>1. PICK r \in db \ gone : s = left(r)
    BY <1>5
  <2> QED BY <2>1, <1>4
<1>7. \A s \in Deleted(db, rows) : Formed(s)
  BY <1>2, <1>5
<1> QED BY <1>6, <1>7
=============================================================================
