------------------------------ MODULE Entities ------------------------------
(***************************************************************************)
(* What the columns of the reference tables can hold, and the ids the code *)
(* knows rows by (databases/postgresql/gameplay).  The keys between the    *)
(* tables are in Schema.  Floats are in hundredths; a column rows leave    *)
(* empty holds a set of at most one value.                                 *)
(***************************************************************************)
EXTENDS Integers, FiniteSets

Int4  == (-2147483647 - 1) .. 2147483647
Float == Int
Nullable(values) == {v \in SUBSET values : Cardinality(v) <= 1}

----------------------------------------------------------------------------
AnimalId   == {"chicken", "cow", "pig", "sheep"}
BuildingId == {"coop", "pasture", "home"}
UpgradeId  == {"coopUpgrade1", "coopUpgrade2", "coopUpgrade3",
               "pastureUpgrade1", "pastureUpgrade2", "pastureUpgrade3"}
CropId == {"carrot", "potato", "pineapple", "watermelon", "cucumber", "bellPepper"}
DailyRewardId == {"day1", "day2", "day3", "day4", "day5"}
SupplyId  == {"basicFertilizer", "animalFeed"}
TileId    == {"starterTile", "basicTile1", "basicTile2", "basicTile3", "fertileTile"}
ToolId    == {"scythe", "steal", "watercan", "herbicide", "pesticide"}
ProductId == {"egg", "milk"} \cup CropId
SystemId  == {"activities", "cropRandomness", "animalRandomness", "starter", "spinInfo",
              "energyRegen"}
TempId    == {"cropGrowthLastSchedule", "animalGrowthLastSchedule",
              "energyRegenerationLastSchedule"}
InventoryTypeId  == {"carrotSeed", "potatoSeed", "pineappleSeed", "watermelonSeed",
                     "cucumberSeed", "bellPepperSeed"}
PlacedItemTypeId == AnimalId \cup BuildingId \cup TileId

ProductType     == {"animal", "crop"}
AnimalType      == {"poultry", "livestock"}
AvailableInType == {"home", "neighbor", "both"}
SupplyType      == {"fertilizer", "animalFeed"}
InventoryType   == {"seed", "tile", "animal", "product", "supply"}
AppearanceChance == {"common", "uncommon", "rare", "veryRare"}

----------------------------------------------------------------------------
ActivityInfo     == [experiencesGain : Int, energyConsume : Int]
Activities       == {"water", "feedAnimal", "usePesticide", "useFertilizer", "useHerbicide",
                     "helpUseHerbicide", "helpUsePesticide", "helpWater", "thiefCrop",
                     "thiefAnimalProduct", "cureAnimal", "helpCureAnimal", "harvestCrop"}
CropRandomnessEntity   == [thief3 : Float, thief2 : Float, needWater : Float,
                           isWeedyOrInfested : Float]
AnimalRandomnessEntity == [sickChance : Float, thief3 : Float, thief2 : Float]
SlotInfo               == [count : Int, thresholdMin : Float, thresholdMax : Float]

CropEntity ==
    [growthStageDuration : Int4, growthStages : Int4, price : Int4, premium : BOOLEAN,
     perennialCount : Int4, nextGrowthStageAfterHarvest : Int4, minHarvestQuantity : Int4,
     maxHarvestQuantity : Int4, basicHarvestExperiences : Int4,
     premiumHarvestExperiences : Int4, availableInShop : BOOLEAN, maxStack : Int4]

AnimalEntity ==
    [yieldTime : Int4, offspringPrice : Int4, isNFT : BOOLEAN, price : Int4,
     growthTime : Int4, availableInShop : BOOLEAN, hungerTime : Int4,
     minHarvestQuantity : Int4, maxHarvestQuantity : Int4, basicHarvestExperiences : Int4,
     premiumHarvestExperiences : Int4, type : AnimalType]

BuildingEntity ==
    [availableInShop : BOOLEAN, type : Nullable(AnimalType), maxUpgrade : Int4,
     price : Int4]

UpgradeEntity     == [upgradePrice : Int4, capacity : Int4, upgradeLevel : Int4]
TileEntity        == [price : Float, maxOwnership : Int4, isNFT : BOOLEAN,
                      availableInShop : BOOLEAN]
SupplyEntity      == [type : SupplyType, price : Float, availableInShop : BOOLEAN,
                      fertilizerEffectTimeReduce : Nullable(Int4)]
ToolEntity        == [availableIn : AvailableInType, index : Int4]
DailyRewardEntity == [golds : Int4, tokens : Nullable(Float), day : Int4,
                      lastDay : BOOLEAN]
ProductEntity     == [isPremium : BOOLEAN, goldAmount : Int4, tokenAmount : Float,
                      type : ProductType]

InventoryTypeEntity == [type : InventoryType, placeable : BOOLEAN, deliverable : BOOLEAN,
                        asTool : BOOLEAN, maxStack : Int4]
=============================================================================
