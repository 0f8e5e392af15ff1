------------------------------ MODULE Economy ------------------------------
(***************************************************************************)
(* What a player owns: the users row, the inventories, the tiles, the      *)
(* building and its animals, and everything that writes them at once: the  *)
(* shop, upgrade, claim, farming, community and placement requests of      *)
(* gameplay-service and the energy worker (cron-worker/src/energy).        *)
(*                                                                         *)
(* A request reads, checks and computes what to write; then it writes all  *)
(* of it in one transaction.  Begin is the first half, Commit the second;  *)
(* nothing locks the rows in between.  What the requests do to crops and   *)
(* animals is in CropLifecycle and AnimalLifecycle, what sends products in *)
(* Delivery.                                                               *)
(*                                                                         *)
(* A definition marked (slip: ...) is a mistake a change of the code could *)
(* make in the definition that follows; no action uses it.                 *)
(***************************************************************************)
EXTENDS GameplayRules, FiniteSets

CONSTANTS
    Requests,        \* requests in flight: the player's, and neighbours' that touch
                     \*   what the player owns
    Worker,          \* the energy worker
    RowIds,          \* ids of inventories rows, in the order they are found
    TileIds,         \* ids of placed tiles
    InitialGolds,    \* Starter.golds
    InitialStreak,   \* days of rewards claimed before
    Price,           \* of a seed, supply, tile, animal, building or upgrade
    MaxQuantity,     \* units of one purchase
    MaxOwnership,    \* TileEntity.maxOwnership
    Capacities,      \* capacities of a building, in the order of its upgrades
    EnergyConsume, ExperiencesGain,  \* Activities
    DailyGolds, DailyTokens,         \* DailyRewardEntity, tokens of the fifth day
    Prizes,          \* types of the common spin prizes
    PrizeAmount,     \* golds, tokens or units of a prize
    JobTimes,        \* times the jobs of the energy queue carry, below zero
                     \*   when two handlers of the scheduler overlap
    MaxRequests,     \* bound: requests and jobs started
    MaxDays          \* bound: days that pass

ASSUME EconomyAssumption ==
    /\ Worker \notin Requests
    /\ IsFiniteSet(RowIds) /\ RowIds \subseteq Nat
    /\ IsFiniteSet(TileIds)
    /\ InitialGolds \in Nat /\ InitialStreak \in Nat
    /\ Price \in Nat /\ MaxQuantity \in Nat /\ MaxOwnership \in Nat
    /\ Capacities \in Seq(Nat) \ {<<>>}
    /\ \A i, j \in DOMAIN Capacities : i <= j => Capacities[i] <= Capacities[j]
    /\ EnergyConsume \in Nat /\ ExperiencesGain \in Nat \ {0}
    /\ DailyGolds \in Nat /\ DailyTokens \in Nat /\ PrizeAmount \in Nat
    /\ JobTimes \subseteq Int
    /\ Prizes \subseteq {"golds", "tokens", "seed", "supply"}

VARIABLES
    user,         \* the users row
    rows,         \* inventories: NoRow for an id not used yet, Gone when removed
    tile,         \* placed_items of tiles: "new", "placed" or "gone"
    building,     \* building_info of the player's building, NoBuilding before
    animals,      \* placed_items of animals in the building
    transaction,  \* what each request and the worker are about to write
    day           \* the clock of the spin, in 24 hours

(***************************************************************************)
(* History of the run, read by the properties and the bound only.          *)
(***************************************************************************)
VARIABLES
    started,    \* requests and jobs started
    books,      \* the account a bookkeeper keeps of all that was committed
    conflicts,  \* what was ever written from an outdated read
    highest     \* the highest level reached

estate  == <<user, rows, tile, building, animals>>
history == <<books, conflicts, highest>>
vars    == <<estate, transaction, day, started, history>>

Actors  == Requests \cup {Worker}
Columns == {"golds", "tokens", "energy", "energyRegenTime", "experiences", "level",
            "dailyRewardStreak", "spinLastTime"}
Kinds   == {"seed", "supply", "tile", "product"}
Never   == -1

Inventory    == [kind : Kinds, quantity : Int]
BuildingInfo == [currentUpgrade : 1 .. Len(Capacities), occupancy : Nat]

NoRow      == [none |-> "row"]
Gone       == [none |-> "gone"]
NoBuilding == [none |-> "building"]
Idle       == [none |-> "transaction"]
Nothing    == [k \in {} |-> 0]   \* the empty function

IsRow(i)      == rows[i] \notin {NoRow, Gone}
RowsOf(kind)  == {i \in RowIds : IsRow(i) /\ rows[i].kind = kind}
StacksOf(kind) == [i \in RowsOf(kind) |-> rows[i].quantity]
Placed        == {p \in TileIds : tile[p] = "placed"}
Fresh(n)      == {i \in RowIds : /\ rows[i] = NoRow
                                 /\ Cardinality({j \in RowIds : rows[j] = NoRow /\ j < i}) < n}

----------------------------------------------------------------------------
(* A user verify-signature has created, who has claimed some days.         *)
Init ==
    /\ user = [golds |-> InitialGolds, tokens |-> 0,
               energy |-> GetMaxEnergy(1), energyRegenTime |-> 0,
               experiences |-> 0, level |-> 1,
               dailyRewardStreak |-> InitialStreak, spinLastTime |-> Never]
    /\ rows = [i \in RowIds |-> NoRow]
    /\ tile = [p \in TileIds |-> "new"]
    /\ building = NoBuilding
    /\ animals = 0
    /\ transaction = [a \in Actors |-> Idle]
    /\ day = 0
    /\ started = 0
    /\ books = [golds |-> InitialGolds, tokens |-> 0,
                energy |-> GetMaxEnergy(1) * RegenTime,
                seed |-> 0, supply |-> 0, tile |-> 0, product |-> 0,
                upgrade |-> 0, spins |-> 0]
    /\ conflicts = {}
    /\ highest = 1

----------------------------------------------------------------------------
(* The transaction a request is about to run.                              *)
Blank ==
    [columns |-> Nothing,   \* columns of the users row
     seen |-> Nothing,      \*   and what they were
     kind |-> "none",       \* inventories rows of this kind:
     stacks |-> Nothing,    \*   the quantities read,
     saved |-> Nothing,     \*   rows saved, again if they are gone,
     updated |-> Nothing,   \*   rows updated, if they are there,
     removed |-> {},        \*   rows removed
     opened |-> <<>>,       \*   and rows inserted
     laid |-> 0,            \* tiles placed
     recovered |-> {},      \*   and recovered
     building |-> Idle,     \* the building saved
     found |-> Idle,        \*   and what it was
     born |-> 0,            \* animals placed
     account |-> Nothing]   \* the bookkeeper's entry

Begin(a, t) ==
    /\ transaction[a] = Idle
    /\ started < MaxRequests
    /\ started' = started + 1
    /\ transaction' = [transaction EXCEPT ![a] =
          [t EXCEPT !.seen = [c \in DOMAIN t.columns |-> user[c]]]]
    /\ UNCHANGED <<estate, day, history>>

Merge(columns, more) ==
    [c \in DOMAIN columns \cup DOMAIN more |->
        IF c \in DOMAIN more THEN more[c] ELSE columns[c]]

(* inventoryService.add: every row of the kind is saved as read.           *)
Adding(t, kind, quantity) ==
    LET stacks == StacksOf(kind) IN
    [t EXCEPT !.kind = kind, !.stacks = stacks,
              !.saved = ToppedUp(stacks, quantity), !.opened = Opened(stacks, quantity)]

(* inventoryService.remove of one unit; the last one removes the row.      *)
(* (slip: the last one leaves an empty row)                                *)
TakingOneKeepsRow(t, i) ==
    [t EXCEPT !.kind = rows[i].kind, !.stacks = [j \in {i} |-> rows[j].quantity],
              !.updated = [j \in {i} |-> rows[i].quantity - 1]]

TakingOne(t, i) ==
    LET left == rows[i].quantity - 1 IN
    [t EXCEPT !.kind = rows[i].kind, !.stacks = [j \in {i} |-> rows[j].quantity],
              !.updated = [j \in {i} \ {k \in {i} : left = 0} |-> left],
              !.removed = {k \in {i} : left = 0}]

Spending(t, cost) == [t EXCEPT !.columns = Merge(@, SubtractGolds(user, cost))]

----------------------------------------------------------------------------
(* The shop.                                                               *)
(* (A quantity below zero passes the check of the golds and is refused by  *)
(* their subtraction; none at all is bought for nothing.)                  *)
Buy(a, kind) ==
    \E n \in 0 .. MaxQuantity :
        /\ user.golds >= Price * n
        /\ Begin(a, Adding(Spending([Blank EXCEPT
               !.account = [b \in {"golds", kind} |-> IF b = "golds" THEN -Price * n ELSE n]],
               Price * n), kind, n))

BuySeeds(a)    == Buy(a, "seed")
BuySupplies(a) == Buy(a, "supply")

(* Rows of the inventory are counted, not what they hold.                  *)
BuyTile(a) ==
    /\ Cardinality(RowsOf("tile")) + Cardinality(Placed) < MaxOwnership
    /\ user.golds >= Price
    /\ Begin(a, Spending([Blank EXCEPT !.laid = 1, !.account = [golds |-> -Price, tile |-> 1]],
                         Price))

ConstructBuilding(a) ==
    /\ building = NoBuilding
    /\ user.golds >= Price
    /\ Begin(a, Spending([Blank EXCEPT
           !.building = [currentUpgrade |-> 1, occupancy |-> 0], !.found = building,
           !.account = [golds |-> -Price, upgrade |-> 1]], Price))

(* (slip: the full building takes one more)                                *)
HasSpaceWhenFull ==
    /\ building # NoBuilding
    /\ building.currentUpgrade + 1 \in DOMAIN Capacities
    /\ building.occupancy <= Capacities[building.currentUpgrade + 1]

(* upgrades[currentUpgrade] counts from zero, upgradeLevel from one; at    *)
(* the last level there is no such entry and the request fails.            *)
HasSpace ==
    /\ building # NoBuilding
    /\ building.currentUpgrade + 1 \in DOMAIN Capacities
    /\ building.occupancy < Capacities[building.currentUpgrade + 1]

(* (slip: the building is saved as when it was new)                        *)
HousedAsNew(t) ==
    [t EXCEPT !.building = [currentUpgrade |-> 1, occupancy |-> building.occupancy + 1],
              !.found = building, !.born = 1]

Housed(t) ==
    [t EXCEPT !.building = [building EXCEPT !.occupancy = @ + 1],
              !.found = building, !.born = 1]

(* The building is found by its id, whoever owns it: the player's own, a   *)
(* neighbour's for the player's golds, the player's for a neighbour's.     *)
BuyAnimal(a) ==
    \/ /\ HasSpace
       /\ user.golds >= Price
       /\ Begin(a, Spending(Housed([Blank EXCEPT !.account = [golds |-> -Price]]), Price))
    \/ /\ user.golds >= Price
       /\ Begin(a, Spending([Blank EXCEPT !.account = [golds |-> -Price]], Price))
    \/ /\ HasSpace
       /\ Begin(a, Housed(Blank))

(* (slip: the last level is not looked for)                                *)
UpgradeBuildingPastLast(a) ==
    /\ building # NoBuilding
    /\ user.golds >= Price
    /\ Begin(a, Spending([Blank EXCEPT
           !.building = [building EXCEPT !.currentUpgrade = @ + 1], !.found = building,
           !.account = [golds |-> -Price, upgrade |-> 1]], Price))

UpgradeBuilding(a) ==
    /\ building # NoBuilding
    /\ building.currentUpgrade < Len(Capacities)
    /\ user.golds >= Price
    /\ Begin(a, Spending([Blank EXCEPT
           !.building = [building EXCEPT !.currentUpgrade = @ + 1], !.found = building,
           !.account = [golds |-> -Price, upgrade |-> 1]], Price))

----------------------------------------------------------------------------
(* Claims.  The guard of the daily reward compares spinLastTime with the   *)
(* millisecond of now and lets every claim pass.                           *)
ClaimDailyReward(a) ==
    LET streak == user.dailyRewardStreak
        tokens == IF streak >= 4 THEN DailyTokens ELSE 0
    IN  Begin(a, [Blank EXCEPT
            !.columns = Merge(Merge([dailyRewardStreak |-> streak + 1], AddGolds(user, DailyGolds)),
                              IF streak >= 4 THEN AddTokens(user, tokens) ELSE Nothing),
            !.account = [golds |-> DailyGolds, tokens |-> tokens]])

(* (slip: the time of the spin is not written)                             *)
SpinUntimed(a) ==
    /\ user.spinLastTime = Never \/ day - user.spinLastTime >= 1
    /\ \E prize \in Prizes \cap Kinds :
        Begin(a, Adding([Blank EXCEPT
            !.account = [b \in {"spins", prize} |-> IF b = "spins" THEN 1 ELSE PrizeAmount]],
            prize, PrizeAmount))

(* The prize is drawn among the common ones: the loop over the chances     *)
(* ends after the first.                                                   *)
Spin(a) ==
    /\ user.spinLastTime = Never \/ day - user.spinLastTime >= 1
    /\ \E prize \in Prizes :
        LET spun == [spinLastTime |-> day]
            entry == [b \in {"spins", prize} |-> IF b = "spins" THEN 1 ELSE PrizeAmount]
            t == [Blank EXCEPT
                    !.columns = CASE prize = "golds"  -> Merge(spun, AddGolds(user, PrizeAmount))
                                  [] prize = "tokens" -> Merge(spun, AddTokens(user, PrizeAmount))
                                  [] OTHER            -> spun,
                    !.account = entry]
        IN  Begin(a, IF prize \in Kinds THEN Adding(t, prize, PrizeAmount) ELSE t)

----------------------------------------------------------------------------
(* Farming and community.                                                  *)
Labour(t) ==
    [t EXCEPT !.columns = Merge(SubstractEnergy(user, EnergyConsume),
                                AddExperiences(user, ExperiencesGain)),
              !.account = Merge([energy |-> -EnergyConsume * RegenTime], @)]

CanLabour == user.energy >= EnergyConsume

(* Watering, spraying, curing, here or at a neighbour's.                   *)
Water(a) == CanLabour /\ Begin(a, Labour(Blank))

(* The seed is found by its id, whoever owns it: the player's own, a       *)
(* neighbour's planted by the player, the player's planted by a neighbour. *)
PlantSeed(a) ==
    \/ /\ CanLabour
       /\ \E i \in RowsOf("seed") :
           Begin(a, TakingOne(Labour([Blank EXCEPT !.account = [seed |-> -1]]), i))
    \/ CanLabour /\ Begin(a, Labour(Blank))
    \/ \E i \in RowsOf("seed") :
           Begin(a, TakingOne([Blank EXCEPT !.account = [seed |-> -1]], i))

(* Fertilizer and feed: the row stays when nothing is left, and is used    *)
(* again.                                                                  *)
UseSupply(a) ==
    /\ CanLabour
    /\ \E i \in RowsOf("supply") :
        Begin(a, [Labour([Blank EXCEPT !.account = [supply |-> -1]]) EXCEPT
                     !.kind = "supply",
                     !.stacks = [j \in {i} |-> rows[j].quantity],
                     !.updated = [j \in {i} |-> rows[j].quantity - 1]])

Thief(a) ==
    /\ CanLabour
    /\ Begin(a, Adding(Labour([Blank EXCEPT !.account = [product |-> 1]]), "product", 1))

----------------------------------------------------------------------------
(* Placement.                                                              *)
PlaceTile(a) ==
    \E i \in RowsOf("tile") : Begin(a, TakingOne([Blank EXCEPT !.laid = 1], i))

(* The tile is found by its id and deleted where the player owns it: one   *)
(* of a neighbour's stays, and a tile is added all the same.               *)
RecoverTile(a) ==
    \/ \E p \in Placed : Begin(a, Adding([Blank EXCEPT !.recovered = {p}], "tile", 1))
    \/ Begin(a, Adding([Blank EXCEPT !.account = [tile |-> 1]], "tile", 1))

----------------------------------------------------------------------------
(* The energy worker saves the whole row it has read.                      *)
RegenerateEnergy ==
    \E time \in JobTimes :
        LET new == Regenerated(user, time) IN
        Begin(Worker, [Blank EXCEPT
            !.columns = new,
            !.account = [energy |-> IF Full(user) THEN 0 ELSE time]])

----------------------------------------------------------------------------
(* What of a transaction rests on an outdated read.                        *)
Outdated(t) ==
    {c \in DOMAIN t.columns : user[c] # t.seen[c]}
    \cup {k \in {t.kind} : \E i \in DOMAIN t.stacks :
              rows[i] # [kind |-> k, quantity |-> t.stacks[i]]}
    \cup {k \in {"tile"} : ~(t.recovered \subseteq Placed)}
    \cup {b \in {"building"} : t.building # Idle /\ building # t.found}

Written(t, i) ==
    LET new == Fresh(Len(t.opened))
        nth == Cardinality({j \in new : j <= i})
    IN  CASE i \in t.removed                    -> IF IsRow(i) THEN Gone ELSE rows[i]
          [] i \in DOMAIN t.saved               -> [kind |-> t.kind, quantity |-> t.saved[i]]
          [] i \in DOMAIN t.updated /\ IsRow(i) -> [rows[i] EXCEPT !.quantity = t.updated[i]]
          [] i \in new                          -> [kind |-> t.kind, quantity |-> t.opened[nth]]
          [] OTHER                              -> rows[i]

(* Everything a request has computed is written, or nothing.               *)
Commit(a) ==
    LET t == transaction[a]
        user1 == Merge(user, t.columns)
    IN
    /\ t # Idle
    /\ user' = user1
    /\ Cardinality(Fresh(Len(t.opened))) = Len(t.opened)
    /\ rows' = [i \in RowIds |-> Written(t, i)]
    /\ \E laid \in {S \in SUBSET TileIds : Cardinality(S) = t.laid} :
        /\ \A p \in laid : tile[p] = "new"
        /\ tile' = [p \in TileIds |-> IF p \in laid THEN "placed"
                                      ELSE IF p \in t.recovered THEN "gone" ELSE tile[p]]
    /\ building' = IF t.building = Idle THEN building ELSE t.building
    /\ animals' = animals + t.born
    /\ transaction' = [transaction EXCEPT ![a] = Idle]
    /\ books' = [b \in DOMAIN books |->
                    books[b] + (IF b \in DOMAIN t.account THEN t.account[b] ELSE 0)]
    /\ conflicts' = conflicts \cup Outdated(t)
    /\ highest' = IF user1.level > highest THEN user1.level ELSE highest
    /\ UNCHANGED <<day, started>>

Rollback(a) ==
    /\ transaction[a] # Idle
    /\ transaction' = [transaction EXCEPT ![a] = Idle]
    /\ UNCHANGED <<estate, day, started, history>>

NextDay ==
    /\ day < MaxDays
    /\ day' = day + 1
    /\ UNCHANGED <<estate, transaction, started, history>>

----------------------------------------------------------------------------
RequestStep(a) ==
    \/ BuySeeds(a) \/ BuySupplies(a) \/ BuyTile(a)
    \/ ConstructBuilding(a) \/ BuyAnimal(a) \/ UpgradeBuilding(a)
    \/ ClaimDailyReward(a) \/ Spin(a)
    \/ Water(a) \/ PlantSeed(a) \/ UseSupply(a) \/ Thief(a)
    \/ PlaceTile(a) \/ RecoverTile(a)

Next ==
    \/ \E a \in Requests : RequestStep(a)
    \/ RegenerateEnergy
    \/ \E a \in Actors : Commit(a) \/ Rollback(a)
    \/ NextDay

Spec == Init /\ [][Next]_vars

----------------------------------------------------------------------------
(* Each variable holds a value the code can give it.                       *)
TypeOK ==
    /\ DOMAIN user = Columns /\ \A c \in Columns : user[c] \in Int
    /\ rows \in [RowIds -> Inventory \cup {NoRow, Gone}]
    /\ tile \in [TileIds -> {"new", "placed", "gone"}]
    /\ building \in BuildingInfo \cup {NoBuilding}
    /\ animals \in Nat
    /\ DOMAIN transaction = Actors
    /\ day \in Nat /\ started \in Nat /\ highest \in Nat
    /\ DOMAIN books = {"golds", "tokens", "energy", "spins", "upgrade"} \cup Kinds
    /\ conflicts \subseteq Columns \cup Kinds \cup {"building"}

(* Whatever is overwritten by whom: no balance falls below zero, no energy *)
(* exceeds what the highest level reached allows, and experiences stay     *)
(* between the debt one gain can leave and the quota of that level.  (The  *)
(* time of regeneration may fall below zero: jobs of overlapped handlers   *)
(* carry such times, and the worker adds what it is given.)                *)
NothingOverdrawn ==
    /\ user.golds >= 0 /\ user.tokens >= 0
    /\ user.energy \in 0 .. GetMaxEnergy(highest)
    /\ user.level \in 1 .. highest
    /\ user.experiences >= -ExperiencesGain
    /\ user.experiences < ComputeExperiencesQuota(highest)

(* No stack outgrows its limit, and none of seeds, tiles or products is    *)
(* kept with nothing in it, although requests save rows they read long     *)
(* ago and rows that others have removed.  (A delivery below zero, which   *)
(* Delivery has, puts back into a stack more than it may hold.)            *)
StacksInBounds ==
    \A i \in RowIds : IsRow(i) =>
        /\ rows[i].quantity <= MaxStack
        /\ rows[i].kind # "supply" => rows[i].quantity >= 1

(* What there is in stacks, unit by unit, less what a row is short of that *)
(* was used when nothing was left.                                         *)
Units(stacks) ==
    Cardinality(UNION {{i} \X (1 .. stacks[i]) : i \in DOMAIN stacks})
    - Cardinality(UNION {{i} \X (1 .. -stacks[i]) : i \in DOMAIN stacks})
UnitsOf(kind) == Units(StacksOf(kind))
Held ==
    [golds |-> user.golds, tokens |-> user.tokens,
     energy |-> user.energy * RegenTime + user.energyRegenTime,
     seed |-> UnitsOf("seed"), supply |-> UnitsOf("supply"), product |-> UnitsOf("product"),
     tile |-> UnitsOf("tile") + Cardinality(Placed)]

(* Until a balance or a kind of goods is written from an outdated read, it *)
(* is what the committed requests leave by what each of them is for: units *)
(* come with a purchase, a prize, a theft or a recovered tile and go with  *)
(* a use, and energy counts the time of every job that found the user not  *)
(* full.  The books enter what the code gives, the tile for one recovered  *)
(* from a neighbour too, which is had for nothing and leaves the neighbour *)
(* his own.                                                                *)
Balanced(b) ==
    b \notin conflicts /\ ~(b = "energy" /\ "energyRegenTime" \in conflicts)
    => Held[b] = books[b]
BalancesBooked == Balanced("golds") /\ Balanced("tokens") /\ Balanced("energy")
GoodsBooked    == \A kind \in Kinds : Balanced(kind)
BooksBalance   == BalancesBooked /\ GoodsBooked

(* Until a building is saved from an outdated read, it counts its animals, *)
(* has the upgrades that were paid for and no more animals than the next   *)
(* level holds.                                                            *)
BuildingHonest ==
    building # NoBuilding /\ "building" \notin conflicts =>
        /\ building.occupancy = animals
        /\ building.currentUpgrade = books.upgrade
        /\ animals > 0 => animals <= Capacities[Least(building.currentUpgrade + 1, Len(Capacities))]

(* A player spins once in 24 hours unless the time of the last spin is     *)
(* overwritten by a spin or a job that read it earlier.                    *)
SpinsOnceADay == "spinLastTime" \notin conflicts => books.spins <= day + 1

(* A level reached or an upgrade paid for is lost only to a write from an  *)
(* outdated read.                                                          *)
ProgressKept ==
    [][/\ user'.level < user.level => "level" \in conflicts'
       /\ building # NoBuilding => building' # NoBuilding /\
            (building'.currentUpgrade < building.currentUpgrade => "building" \in conflicts')]_vars
=============================================================================
