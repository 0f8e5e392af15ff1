------------------------------ MODULE SeedData ------------------------------
(***************************************************************************)
(* The reference data the seeders of the cli put into the gameplay         *)
(* database: the rows and their keys, and of their other columns those the *)
(* rules of the game depend on.  Times are in seconds, chances in percent. *)
(***************************************************************************)
EXTENDS Schema, Entities, TLC

Ids(table, ids)             == {Row(table, i, {}) : i \in ids}
Referring(table, column, f) == {Row(table, i, {To(column, f[i])}) : i \in DOMAIN f}
Named(ids)                  == [i \in ids |-> i]

----------------------------------------------------------------------------
ActivityInfos  == [a \in Activities |-> [experiencesGain |-> 3, energyConsume |-> 1]]

CropRandomness   == [needWater |-> 50, thief2 |-> 80, thief3 |-> 95, isWeedyOrInfested |-> 100]
AnimalRandomness == [sickChance |-> 50, thief2 |-> 80, thief3 |-> 95]

StarterGolds == 1000
HomePosition == <<4, 0>>
TilePositions == {0, 1} \X {-1, 0, 1}

Slot(count, min, max) == [count |-> count, thresholdMin |-> min, thresholdMax |-> max]
AppearanceChanceSlots ==
    [common |-> Slot(4, 0, 80), uncommon |-> Slot(2, 80, 95),
     rare |-> Slot(1, 95, 99), veryRare |-> Slot(1, 99, 100)]
Chances == DOMAIN AppearanceChanceSlots

EnergyRegenTime == 5 * 60

SystemRows ==
    Ids("system", {"activities", "cropRandomness", "animalRandomness", "starter",
                   "spinInfo", "energyRegen"})

(* The dates of the last schedules start at the time of the seeding.       *)
TempRows ==
    Ids("temp", {"animalGrowthLastSchedule", "cropGrowthLastSchedule",
                 "energyRegenerationLastSchedule"})

----------------------------------------------------------------------------
Crop(price, duration, experiences, premium, min, max, perennial) ==
    [price |-> price, growthStageDuration |-> duration, growthStages |-> 5,
     basicHarvestExperiences |-> experiences, premiumHarvestExperiences |-> premium,
     minHarvestQuantity |-> min, maxHarvestQuantity |-> max, perennialCount |-> perennial,
     premium |-> FALSE, nextGrowthStageAfterHarvest |-> 1, availableInShop |-> TRUE,
     maxStack |-> 16]
Crops ==
    [carrot     |-> Crop(50, 3600, 12, 60, 14, 20, 1),
     potato     |-> Crop(100, 9000, 21, 110, 16, 23, 1),
     cucumber   |-> Crop(100, 9000, 21, 110, 16, 23, 1),
     pineapple  |-> Crop(100, 9000, 21, 110, 16, 23, 1),
     watermelon |-> Crop(100, 9000, 21, 110, 16, 23, 1),
     bellPepper |-> Crop(100, 9000, 21, 110, 16, 23, 3)]

(* The seed of a crop in the inventories; its product is named as it is.   *)
SeedCrop ==
    [carrotSeed |-> "carrot", potatoSeed |-> "potato", cucumberSeed |-> "cucumber",
     pineappleSeed |-> "pineapple", watermelonSeed |-> "watermelon",
     bellPepperSeed |-> "bellPepper"]
CropRows ==
    LET crops == Named(DOMAIN Crops) IN
    Ids("crops", DOMAIN Crops)
    \cup Referring("products", "crop_id", crops)
    \cup Referring("inventory_types", "product_id", crops)
    \cup Referring("inventory_types", "crop_id", SeedCrop)

Animal(price, yield, growth, type) ==
    [price |-> price, offspringPrice |-> price, yieldTime |-> yield, growthTime |-> growth,
     hungerTime |-> 43200, minHarvestQuantity |-> 14, maxHarvestQuantity |-> 20,
     basicHarvestExperiences |-> 32, premiumHarvestExperiences |-> 96, type |-> type,
     isNFT |-> FALSE, availableInShop |-> TRUE]
Animals ==
    [chicken |-> Animal(1000, 86400, 3 * 86400, "poultry"),
     cow     |-> Animal(2500, 2 * 86400, 7 * 86400, "livestock")]
AnimalProduct == [egg |-> "chicken", milk |-> "cow"]
AnimalRows ==
    LET animals == Named(DOMAIN Animals) IN
    Ids("animals", DOMAIN Animals)
    \cup Referring("products", "animal_id", AnimalProduct)
    \cup Referring("inventory_types", "product_id", Named(DOMAIN AnimalProduct))
    \cup Referring("inventory_types", "animal_id", animals)
    \cup Referring("placed_item_types", "animal_id", animals)

----------------------------------------------------------------------------
Upgrade(level, price, capacity) ==
    [upgradeLevel |-> level, upgradePrice |-> price, capacity |-> capacity]
Building(price, maxUpgrade, type, inShop) ==
    [price |-> price, maxUpgrade |-> maxUpgrade, type |-> type, availableInShop |-> inShop]
Buildings ==
    [coop    |-> Building(2000, 2, {"poultry"}, TRUE),
     pasture |-> Building(3000, 2, {"livestock"}, TRUE),
     home    |-> Building(0, 0, {}, FALSE)]
Upgrades ==
    [coopUpgrade1 |-> Upgrade(1, 0, 3), coopUpgrade2 |-> Upgrade(2, 1000, 5),
     coopUpgrade3 |-> Upgrade(3, 2000, 10), pastureUpgrade1 |-> Upgrade(1, 0, 3),
     pastureUpgrade2 |-> Upgrade(2, 1000, 5), pastureUpgrade3 |-> Upgrade(3, 2000, 10)]
UpgradeBuilding ==
    [coopUpgrade1 |-> "coop", coopUpgrade2 |-> "coop", coopUpgrade3 |-> "coop",
     pastureUpgrade1 |-> "pasture", pastureUpgrade2 |-> "pasture", pastureUpgrade3 |-> "pasture"]
BuildingRows ==
    Ids("buildings", DOMAIN Buildings)
    \cup Referring("upgrades", "building_id", UpgradeBuilding)
    \cup Referring("placed_item_types", "building_id", Named(DOMAIN Buildings))

Tool(availableIn, index) == [availableIn |-> availableIn, index |-> index]
Tools ==
    [scythe    |-> Tool("home", 0), steal |-> Tool("neighbor", 1), watercan |-> Tool("both", 2),
     herbicide |-> Tool("both", 3), pesticide |-> Tool("both", 4)]
ToolRows == Ids("tools", DOMAIN Tools)

Tile(price, maxOwnership, isNFT) ==
    [price |-> price, maxOwnership |-> maxOwnership, isNFT |-> isNFT, availableInShop |-> ~isNFT]
Tiles ==
    [starterTile |-> Tile(0, 6, FALSE), basicTile1 |-> Tile(1000, 10, FALSE),
     basicTile2 |-> Tile(2500, 30, FALSE), basicTile3 |-> Tile(10000, 9999, FALSE),
     fertileTile |-> Tile(0, 0, TRUE)]
TileRows ==
    LET tiles == Named(DOMAIN Tiles) IN
    Ids("tiles", DOMAIN Tiles)
    \cup Referring("inventory_types", "tile_id", tiles)
    \cup Referring("placed_item_types", "tile_id", tiles)

(* Only the fertilizer has a time to reduce; by its type it is feed, too.  *)
FertilizerEffectTimeReduce == 30 * 60
Supply(reduce) == [type |-> "animalFeed", price |-> 50, availableInShop |-> TRUE,
                   fertilizerEffectTimeReduce |-> reduce]
Supplies == [basicFertilizer |-> Supply({FertilizerEffectTimeReduce}), animalFeed |-> Supply({})]
SupplyRows ==
    Ids("supplies", DOMAIN Supplies)
    \cup Referring("inventory_types", "supply_id", Named(DOMAIN Supplies))

(* What is sold by delivery, with its price.                               *)
Product(type, golds, tokens) ==
    [isPremium |-> FALSE, goldAmount |-> golds, tokenAmount |-> tokens, type |-> type]
Products ==
    [p \in DOMAIN Crops \cup DOMAIN AnimalProduct |->
        IF p = "carrot" THEN Product("crop", 4, 2)
        ELSE Product(IF p \in DOMAIN Crops THEN "crop" ELSE "animal", 8, 4)]

(* What can be in an inventory, by the row that names it.                  *)
Kind(type, placeable, deliverable, asTool, maxStack) ==
    [type |-> type, placeable |-> placeable, deliverable |-> deliverable, asTool |-> asTool,
     maxStack |-> maxStack]
InventoryTypes ==
    [i \in DOMAIN SeedCrop    |-> Kind("seed", FALSE, FALSE, FALSE, 16)]
    @@ [i \in DOMAIN Crops    |-> Kind("product", FALSE, TRUE, FALSE, 16)]
    @@ [i \in DOMAIN AnimalProduct |-> Kind("product", TRUE, TRUE, FALSE, 1)]
    @@ [i \in DOMAIN Animals  |-> Kind("animal", TRUE, FALSE, FALSE, 1)]
    @@ [i \in DOMAIN Supplies |-> Kind("supply", FALSE, FALSE, TRUE, 16)]
    @@ [i \in DOMAIN Tiles    |-> Kind("tile", TRUE, FALSE, FALSE, 16)]

----------------------------------------------------------------------------
Day(day, golds, tokens, lastDay) ==
    [day |-> day, golds |-> golds, tokens |-> tokens, lastDay |-> lastDay]
DailyRewards ==
    [day1 |-> Day(1, 100, {}, FALSE), day2 |-> Day(2, 200, {}, FALSE),
     day3 |-> Day(3, 300, {}, FALSE), day4 |-> Day(4, 600, {}, FALSE),
     day5 |-> Day(5, 1000, {25}, TRUE)]
DailyRewardRows == Ids("daily_rewards", DOMAIN DailyRewards)

(* The prizes of each chance, named for what is won.                       *)
SeedPrize ==
    [carrot3 |-> "carrot", pineapple3 |-> "pineapple", cucumber3 |-> "cucumber",
     potato3 |-> "potato", watermelon3 |-> "watermelon", bellPepper3 |-> "bellPepper"]
SupplyPrize ==
    [fertilizer2 |-> "basicFertilizer", fertilizer3 |-> "basicFertilizer",
     fertilizer4 |-> "basicFertilizer", fertilizer5 |-> "basicFertilizer",
     feed2 |-> "animalFeed", feed3 |-> "animalFeed",
     feed4 |-> "animalFeed", feed5 |-> "animalFeed"]
Prizes ==
    [common   |-> {"golds100", "golds200", "golds300", "carrot3"},
     uncommon |-> {"golds500", "golds1000"}
                  \cup (DOMAIN SeedPrize \ {"carrot3"}) \cup DOMAIN SupplyPrize,
     rare     |-> {"golds2000"},
     veryRare |-> {"tokens5", "tokens10", "tokens15", "tokens20"}]
SpinPrizeRows ==
    LET others == UNION {Prizes[c] : c \in Chances} \ (DOMAIN SeedPrize \cup DOMAIN SupplyPrize)
    IN  Referring("spin_prizes", "crop_id", SeedPrize)
        \cup Referring("spin_prizes", "supply_id", SupplyPrize)
        \cup Ids("spin_prizes", others)

(* The slots of the wheel: of each chance as many prizes as the system     *)
(* says, whichever the database finds first; these are all that may be.    *)
SpinSlotRows ==
    Referring("spin_slots", "spin_prize_id", Named(UNION {Prizes[c] : c \in Chances}))

----------------------------------------------------------------------------
Reference ==
    UNION {SystemRows, TempRows, AnimalRows, CropRows, BuildingRows, ToolRows,
           TileRows, SupplyRows, DailyRewardRows, SpinPrizeRows, SpinSlotRows}

(* What the code asks of the data: ids are used once in a table, and every *)
(* key names a row; a harvest has a range; the thresholds of the spin      *)
(* share 0 to 100, and there are prizes for all slots; the upgrades of a   *)
(* building are numbered from one, each dearer and larger than the one     *)
(* before; the days of rewards follow each other and one is the last.      *)
ASSUME SeededDataIsSound ==
    /\ \A r, q \in Reference : SameRow(r, q) => r = q
    /\ Resolved(Reference)
    /\ \A c \in DOMAIN Crops :
          Crops[c].minHarvestQuantity <= Crops[c].maxHarvestQuantity
    /\ \A a \in DOMAIN Animals :
          Animals[a].minHarvestQuantity <= Animals[a].maxHarvestQuantity
    /\ HomePosition \notin TilePositions
    /\ Cardinality(TilePositions) <= Tiles.starterTile.maxOwnership
    /\ \A x \in 0 .. 99 : Cardinality({c \in Chances :
          /\ AppearanceChanceSlots[c].thresholdMin <= x
          /\ x < AppearanceChanceSlots[c].thresholdMax}) = 1
    /\ \A c \in Chances : AppearanceChanceSlots[c].count <= Cardinality(Prizes[c])
    /\ \A b \in DOMAIN Buildings :
          LET its == {u \in DOMAIN Upgrades : UpgradeBuilding[u] = b} IN
          /\ {Upgrades[u].upgradeLevel : u \in its}
                = (IF its = {} THEN {} ELSE 1 .. Buildings[b].maxUpgrade + 1)
          /\ \A u, v \in its : Upgrades[u].upgradeLevel < Upgrades[v].upgradeLevel =>
                /\ Upgrades[u].upgradePrice < Upgrades[v].upgradePrice
                /\ Upgrades[u].capacity < Upgrades[v].capacity
    /\ {DailyRewards[d].day : d \in DOMAIN DailyRewards} = 1 .. Cardinality(DOMAIN DailyRewards)
    /\ \A d \in DOMAIN DailyRewards :
          DailyRewards[d].lastDay <=> DailyRewards[d].day = Cardinality(DOMAIN DailyRewards)

(* The rows fit their columns, the code finds every row it looks up by an  *)
(* id of its own, pigs and sheep excepted, and what the shop sells can be  *)
(* used: every animal has a building of its type to live in, every product *)
(* and only a product can be delivered, and its type in the inventories    *)
(* bears its name.                                                         *)
AllIn(rows, entity) == \A i \in DOMAIN rows : rows[i] \in entity
IdsIn(table)        == {r.id : r \in {q \in Reference : q.table = table}}

ASSUME SeededDataFitsTheCode ==
    /\ AllIn(ActivityInfos, ActivityInfo) /\ AllIn(AppearanceChanceSlots, SlotInfo)
    /\ CropRandomness \in CropRandomnessEntity /\ AnimalRandomness \in AnimalRandomnessEntity
    /\ AllIn(Crops, CropEntity) /\ AllIn(Animals, AnimalEntity)
    /\ AllIn(Buildings, BuildingEntity) /\ AllIn(Upgrades, UpgradeEntity)
    /\ AllIn(Tiles, TileEntity) /\ AllIn(Supplies, SupplyEntity) /\ AllIn(Tools, ToolEntity)
    /\ AllIn(DailyRewards, DailyRewardEntity) /\ AllIn(Products, ProductEntity)
    /\ AllIn(InventoryTypes, InventoryTypeEntity)
    /\ IdsIn("system") = SystemId /\ IdsIn("temp") = TempId
    /\ IdsIn("crops") = CropId /\ IdsIn("animals") = AnimalId \ {"pig", "sheep"}
    /\ IdsIn("buildings") = BuildingId /\ IdsIn("upgrades") = UpgradeId
    /\ IdsIn("tiles") = TileId /\ IdsIn("supplies") = SupplyId /\ IdsIn("tools") = ToolId
    /\ IdsIn("daily_rewards") = DailyRewardId
    /\ IdsIn("products") = ProductId /\ DOMAIN Products = ProductId
    /\ IdsIn("placed_item_types") = PlacedItemTypeId \ {"pig", "sheep"}
    /\ IdsIn("inventory_types") = DOMAIN InventoryTypes
    /\ InventoryTypeId \subseteq DOMAIN InventoryTypes
    /\ Chances = AppearanceChance
    /\ \A a \in DOMAIN Animals : \E b \in DOMAIN Buildings :
          Animals[a].type \in Buildings[b].type /\ Buildings[b].availableInShop
    /\ {i \in DOMAIN InventoryTypes : InventoryTypes[i].deliverable} = ProductId
=============================================================================
