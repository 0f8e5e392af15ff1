------------------------------ MODULE Seeding ------------------------------
(***************************************************************************)
(* The seed command of the cli at work on a gameplay database players use: *)
(* it clears the reference data when forced to, runs the seeders that are  *)
(* not tracked yet in their order, and tracks each after it ran (by        *)
(* typeorm-extension, in a statement of its own).                          *)
(*                                                                         *)
(* Rows are modelled in groups.  A seeder adds all rows of a table with    *)
(* the same keys at once and the command deletes whole tables, so the rows *)
(* of a group are there together or not at all.  Of the players' rows      *)
(* there is one group for each way a row can depend on reference data.     *)
(*                                                                         *)
(* A definition marked (slip: ...) is a mistake a change of the code could *)
(* make in the definition that follows; no action uses it.                 *)
(***************************************************************************)
EXTENDS SeedData, SequencesExt

CONSTANT MaxAborts    \* bound: commands that die or fail before they end

ASSUME SeedingAssumption == MaxAborts \in Nat

VARIABLES
    db,        \* groups of rows in the gameplay database
    tracked,   \* seeders in the table of the seeds that ran
    command,   \* what the command is about: its stage, the seeders left
    aborts,    \* number of commands that did not end
    unrecorded \* history: seeders that ran and were not tracked, since the
               \* last clear

vars == <<db, tracked, command, aborts, unrecorded>>

----------------------------------------------------------------------------
gameplaySeeders ==
    <<"System", "Temp", "Animal", "Crop", "Building", "Tool", "Tile", "Supply",
      "DailyReward", "SpinPrize", "SpinSlot">>

Seeded ==
    [System |-> SystemRows, Temp |-> TempRows, Animal |-> AnimalRows, Crop |-> CropRows,
     Building |-> BuildingRows, Tool |-> ToolRows, Tile |-> TileRows, Supply |-> SupplyRows,
     DailyReward |-> DailyRewardRows, SpinPrize |-> SpinPrizeRows,
     SpinSlot |-> SpinSlotRows]
Seeders == DOMAIN Seeded

(* The group of a row: who seeds it, its table, the keys it has and where  *)
(* they lead.                                                              *)
Columns(r)   == {x.column : x \in r.refs}
Group(s, r)  == <<s, r.table, Columns(r)>>
SeededRows    == UNION {{<<s, r>> : r \in Seeded[s]} : s \in Seeders}
Targets(r)    == {p \in r.refs \X SeededRows : Refers(r, p[1], p[2][2], AnyRule)}
AllGroups ==
    {Row(p[2].table, Group(p[1], p[2]),
         {To(t[1].column, Group(t[2][1], t[2][2])) : t \in Targets(p[2])}) : p \in SeededRows}
Groups(s) == {g \in AllGroups : g.id[1] = s}

GroupOf(s, table, columns) == <<s, table, columns>>

(* Rows of a player: the home and the tiles a new player gets, a stack of  *)
(* seeds, a seed planted on a tile, a coop, a chicken in it, products sent *)
(* to be sold.                                                             *)
Own(what) == GroupOf("Player", what, {})
OfType(s, column) ==
    To("placed_item_type_id", GroupOf(s, "placed_item_types", {column}))
HomeRow == Row("placed_items", Own("home"), {OfType("Building", "building_id")})
TileRow == Row("placed_items", Own("tile"), {OfType("Tile", "tile_id")})
SeedStackRow ==
    Row("inventories", Own("seeds"),
        {To("inventory_type_id", GroupOf("Crop", "inventory_types", {"crop_id"}))})
PlantRow ==
    Row("seed_growth_info", Own("plant"),
        {To("placed_item_id", Own("tile")), To("crop_id", GroupOf("Crop", "crops", {}))})
CoopRows ==
    {Row("placed_items", Own("coop"), {OfType("Building", "building_id")}),
     Row("building_info", Own("coop"),
         {To("placed_item_id", Own("coop")),
          To("building_id", GroupOf("Building", "buildings", {}))})}
ChickenRows ==
    {Row("placed_items", Own("chicken"), {OfType("Animal", "animal_id")}),
     Row("animal_infos", Own("chicken"),
         {To("placed_item_id", Own("chicken")),
          To("animal_id", GroupOf("Animal", "animals", {}))})}
ParcelRow ==
    Row("delivering_products", Own("parcel"),
        {To("product_id", GroupOf("Crop", "products", {"crop_id"}))})

PlayerTables ==
    {"placed_items", "inventories", "seed_growth_info", "building_info", "animal_infos",
     "delivering_products"}
Players(rows) == {r \in rows : r.table \in PlayerTables}

----------------------------------------------------------------------------
Idle == [stage |-> "idle", todo |-> <<>>]

Init ==
    /\ db = {}
    /\ tracked = {}
    /\ command = Idle
    /\ aborts = 0
    /\ unrecorded = {}

(* SeedCommand.run, with --force (which also clears the cache) or without. *)
Run(force) ==
    /\ command = Idle
    /\ command' = [command EXCEPT !.stage = IF force THEN "clear" ELSE "load"]
    /\ UNCHANGED <<db, tracked, aborts, unrecorded>>

(* (slip: tiles go before crops)                                           *)
DeletedInTurnTilesFirst ==
    <<"temp", "animals", "spin_prizes", "tiles", "crops", "upgrades", "buildings", "tools",
      "supplies", "daily_rewards", "system", "inventory_types", "spin_slots">>

DeletedInTurn ==
    <<"temp", "animals", "spin_prizes", "crops", "upgrades", "buildings", "tools", "tiles",
      "supplies", "daily_rewards", "system", "inventory_types", "spin_slots">>

(* The deletes of the transaction one after the other, until one is        *)
(* refused.                                                                *)
Cleared ==
    FoldLeft(LAMBDA state, table :
                 LET rows == InTable(state.db, table) IN
                 IF state.refused \/ Refused(state.db, rows) THEN [state EXCEPT !.refused = TRUE]
                 ELSE [state EXCEPT !.db = Deleted(@, rows)],
             [db |-> db, refused |-> FALSE], DeletedInTurn)

(* (slip: the table of the seeds outlives the clear)                       *)
ClearKeepingTracked ==
    /\ command.stage = "clear"
    /\ command' = [command EXCEPT !.stage = "load"]
    /\ LET clear == Cleared IN
       IF clear.refused THEN UNCHANGED <<db, tracked, unrecorded>>
       ELSE /\ db' = clear.db
            /\ unrecorded' = {}
            /\ UNCHANGED tracked
    /\ UNCHANGED aborts

(* SeedersService.clearSeeders: when a delete is refused all is rolled     *)
(* back, the error is logged, and the command goes on.                     *)
ClearSeeders ==
    /\ command.stage = "clear"
    /\ command' = [command EXCEPT !.stage = "load"]
    /\ LET clear == Cleared IN
       IF clear.refused THEN UNCHANGED <<db, tracked, unrecorded>>
       ELSE /\ db' = clear.db
            /\ tracked' = {}
            /\ unrecorded' = {}
    /\ UNCHANGED aborts

Continue(todo) == command' = IF todo = <<>> THEN Idle ELSE [stage |-> "run", todo |-> todo]

(* The seeders to run are chosen once, from what is tracked.               *)
LoadPending ==
    /\ command.stage = "load"
    /\ Continue(SelectSeq(gameplaySeeders, LAMBDA s : s \notin tracked))
    /\ UNCHANGED <<db, tracked, aborts, unrecorded>>

Abort ==
    /\ command' = Idle
    /\ UNCHANGED <<db, tracked>>

(* What save and insert make of the rows of a seeder: rows with fixed ids  *)
(* are written again by save and refused by insert, rows with generated    *)
(* ids are added again.                                                    *)
Generated == {"SpinPrize", "SpinSlot"}
Copies(rows) == {r.copy : r \in {q \in db : \E g \in rows : q.table = g.table /\ q.id = g.id}}
NextCopy(rows) == IF Copies(rows) = {} THEN 1 ELSE Max(Copies(rows)) + 1

(* A slot names any prize of its kind that is found.                       *)
SlotChoices(rows) ==
    {[g \in rows |-> [g EXCEPT !.copy = NextCopy(rows),
                               !.refs = {[x EXCEPT !.copy = c] : x \in @}]] :
        c \in Copies(Groups("SpinPrize"))}

Written(s) ==
    LET rows == Groups(s) IN
    CASE s = "SpinPrize" -> {{[g EXCEPT !.copy = NextCopy(rows)] : g \in rows}}
      [] s = "SpinSlot"  -> {Range(f) : f \in SlotChoices(rows)}
      [] OTHER           -> {rows}

(* (slip: all rows are inserted)                                           *)
RejectsWhatIsThere(s) == Groups(s) \cap db # {}

(* The rewards of the days are inserted; the slots need a value of the     *)
(* system.                                                                 *)
Rejects(s) ==
    \/ s = "DailyReward" /\ InTable(db, "daily_rewards") # {}
    \/ s = "SpinSlot" /\ InTable(db, "system") = {}

RunSeeder ==
    LET s == Head(command.todo) IN
    /\ command.stage = "run"
    /\ IF Rejects(s) THEN Abort
       ELSE /\ \E rows \in Written(s) : db' = db \cup rows
            /\ command' = [command EXCEPT !.stage = "track"]
            /\ UNCHANGED tracked
    /\ UNCHANGED <<aborts, unrecorded>>

TrackSeeder ==
    /\ command.stage = "track"
    /\ tracked' = tracked \cup {Head(command.todo)}
    /\ Continue(Tail(command.todo))
    /\ UNCHANGED <<db, aborts, unrecorded>>

(* The process dies, or the database does not answer; an open transaction  *)
(* is rolled back.                                                         *)
AbortCommand ==
    /\ command # Idle
    /\ aborts < MaxAborts
    /\ aborts' = aborts + 1
    /\ unrecorded' = IF command.stage = "track" THEN unrecorded \cup {Head(command.todo)}
                     ELSE unrecorded
    /\ Abort

----------------------------------------------------------------------------
(* The players.  A row is written when all its keys name rows.             *)
Add(rows) ==
    /\ \A r \in rows : \A q \in Players(db) : ~SameRow(r, q)
    /\ Resolved(db \cup rows)
    /\ db' = db \cup rows
    /\ UNCHANGED <<tracked, command, aborts, unrecorded>>

Take(rows) ==
    /\ rows # {}
    /\ db' = Deleted(db, rows)
    /\ UNCHANGED <<tracked, command, aborts, unrecorded>>

(* A player signs in for the first time: the home and the tiles come with  *)
(* the user, when the system knows what a player starts with.              *)
SignUp == InTable(db, "system") # {} /\ Add({HomeRow, TileRow})

BuySeeds          == Add({SeedStackRow})
PlaceTile         == Add({TileRow})
PlantSeed         == Add({PlantRow})
ConstructBuilding == Add(CoopRows)
BuyAnimal         == CoopRows \subseteq db /\ Add(ChickenRows)
DeliverProduct    == Add({ParcelRow})
RecoverTile       == Take(db \cap {TileRow})

(* A product that is taken back needs some inventory type of a product; of *)
(* a parcel that has lost its product it is any.                           *)
RetainProduct ==
    /\ \E r \in InTable(db, "inventory_types") : "product_id" \in Columns(r)
    /\ Take(InTable(db, "delivering_products"))

PlayerStep ==
    \/ SignUp
    \/ BuySeeds
    \/ PlaceTile
    \/ PlantSeed
    \/ ConstructBuilding
    \/ BuyAnimal
    \/ DeliverProduct
    \/ RetainProduct
    \/ RecoverTile

CommandStep ==
    \/ \E force \in BOOLEAN : Run(force)
    \/ ClearSeeders
    \/ LoadPending
    \/ RunSeeder
    \/ TrackSeeder
    \/ AbortCommand

Next == CommandStep \/ PlayerStep

Spec == Init /\ [][Next]_vars

(* The command is run again until all is seeded, and once started it goes  *)
(* on; the transaction of the clear ends.                                  *)
Fairness ==
    /\ WF_vars(\E force \in BOOLEAN : Run(force))
    /\ []<>(command.stage # "clear")
    /\ WF_vars(LoadPending)
    /\ WF_vars(RunSeeder)
    /\ WF_vars(TrackSeeder)

FairSpec == Spec /\ Fairness

----------------------------------------------------------------------------
(* Each variable holds a value the code can give it, and no key names a    *)
(* row that is not there.                                                  *)
TypeOK ==
    /\ Resolved(db)
    /\ {r.table : r \in db} \subseteq Tables
    /\ tracked \subseteq Seeders
    /\ unrecorded \subseteq Seeders
    /\ aborts \in 0 .. MaxAborts
    /\ command.stage \in {"idle", "clear", "load", "run", "track"}
    /\ command.stage \in {"run", "track"} <=> command.todo # <<>>

NamedBy(r) == {<<x.column, x.id>> : x \in r.refs}
Found(g)   == {r \in db : r.table = g.table /\ r.id = g.id /\ NamedBy(r) = NamedBy(g)}

(* What is tracked is there, and only once: clears that are rolled back,   *)
(* commands that die and requests of players notwithstanding.  Only prizes *)
(* and slots whose run was not recorded may be there twice.                *)
TrackedIsSeeded ==
    \A s \in tracked : \A g \in Groups(s) :
        /\ Found(g) # {}
        /\ s \notin unrecorded \/ s \notin Generated => Cardinality(Found(g)) = 1

(* Seeding does not touch what players own, except in a clear: that one    *)
(* goes through only while no crop is planted, and then every placed item  *)
(* of every player is gone while stacks and parcels stay, their types      *)
(* forgotten.                                                              *)
FarmsSurviveSeeding ==
    [][CommandStep /\ Players(db') # Players(db) =>
          /\ command.stage = "clear"
          /\ InTable(db, "seed_growth_info") = {}
          /\ Players(db') = {[r EXCEPT !.refs = {}] :
                r \in InTable(db, "inventories") \cup InTable(db, "delivering_products")}]_vars

(* A command that inserted the rewards and died before they were tracked:  *)
(* every later one stops there until one clears the database.              *)
StuckAtRewards ==
    "DailyReward" \in unrecorded \ tracked /\ InTable(db, "daily_rewards") # {}

(* Run again and again, the command ends with all seeders tracked, unless  *)
(* the rewards are in its way.                                             *)
SeedingEnds == []<>(tracked = Seeders \/ StuckAtRewards)
=============================================================================
