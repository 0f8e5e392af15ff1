---------------------------- MODULE GameplayApi ----------------------------
(***************************************************************************)
(* The API of gameplay-service, written down four times in the repository: *)
(* the request classes, the controllers that take them, the protobuf       *)
(* service that carries them and the routes of rest-api-gateway that make  *)
(* them.  The compiler holds the first two together; nothing holds them to *)
(* the protobuf files, which are read when the processes start.            *)
(*                                                                         *)
(* A request is the set of its fields.  gRPC method names are camel-cased, *)
(* as the client does with them.                                           *)
(***************************************************************************)

(***************************************************************************)
(* The request classes.                                                    *)
(***************************************************************************)
UserIdRequest            == {"userId"}
NeighborAndUserIdRequest == UserIdRequest \cup {"neighborUserId"}

RequestMessageRequest        == {}
GenerateSignatureRequest     == {"chainKey", "accountNumber", "network"}
VerifySignatureRequest       == {"deviceInfo", "message", "publicKey",
                                 "signature", "chainKey", "network",
                                 "accountAddress"}
RefreshRequest               == {"deviceInfo", "refreshToken"}
ClaimDailyRewardRequest      == UserIdRequest
SpinRequest                  == UserIdRequest
FollowRequest                == UserIdRequest \cup {"followedUserId"}
UnfollowRequest              == UserIdRequest \cup {"unfollowedUserId"}
HelpCureAnimalRequest        ==
    NeighborAndUserIdRequest \cup {"placedItemAnimalId"}
HelpWaterRequest             ==
    NeighborAndUserIdRequest \cup {"placedItemTileId"}
HelpUsePesticideRequest      ==
    NeighborAndUserIdRequest \cup {"placedItemTileId"}
HelpUseHerbicideRequest      ==
    NeighborAndUserIdRequest \cup {"placedItemTileId"}
ThiefCropRequest             ==
    NeighborAndUserIdRequest \cup {"placedItemTileId"}
ThiefAnimalProductRequest    ==
    NeighborAndUserIdRequest \cup {"placedItemAnimalId"}
DeliverProductRequest        ==
    UserIdRequest \cup {"index", "inventoryId", "quantity"}
RetainProductRequest         == UserIdRequest \cup {"deliveringProductId"}
SpeedUpRequest               == {"time"}
DeliverInstantlyRequest      == {}
CollectAnimalProductRequest  == UserIdRequest \cup {"placedItemAnimalId"}
CureAnimalRequest            == UserIdRequest \cup {"placedItemAnimalId"}
FeedAnimalRequest            == UserIdRequest \cup {"placedItemAnimalId"}
HarvestCropRequest           == UserIdRequest \cup {"placedItemTileId"}
PlantSeedRequest             ==
    UserIdRequest \cup {"inventorySeedId", "placedItemTileId"}
UseFertilizerRequest         == UserIdRequest \cup {"placedItemTileId"}
UseHerbicideRequest          == UserIdRequest \cup {"placedItemTileId"}
UsePesticideRequest          == UserIdRequest \cup {"placedItemTileId"}
WaterRequest                 == UserIdRequest \cup {"placedItemTileId"}
MoveRequest                  ==
    UserIdRequest \cup {"placedItemId", "position"}
PlaceTileRequest             ==
    UserIdRequest \cup {"inventoryTileId", "position"}
RecoverTileRequest           == UserIdRequest \cup {"placedItemTileId"}
UpdateTutorialRequest        ==
    UserIdRequest \cup {"tutorialIndex", "stepIndex"}
ConstructBuildingRequest     == UserIdRequest \cup {"buildingId", "position"}
BuySeedsRequest              == UserIdRequest \cup {"cropId", "quantity"}
BuySuppliesRequest           == UserIdRequest \cup {"supplyId", "quantity"}
BuyAnimalRequest             ==
    UserIdRequest \cup {"animalId", "placedItemBuildingId", "position"}
BuyTileRequest               == UserIdRequest \cup {"position"}
UpgradeBuildingRequest       == UserIdRequest \cup {"placedItemBuildingId"}

(***************************************************************************)
(* The controllers: the gRPC method each of them is registered for and the *)
(* request it hands to its service.                                        *)
(***************************************************************************)
Serves(method, request) == [method |-> method, request |-> request]

RequestMessageController       == Serves("requestMessage", RequestMessageRequest)
GenerateSignatureController    == Serves("generateSignature", GenerateSignatureRequest)
VerifySignatureController      == Serves("verifySignature", VerifySignatureRequest)
RefreshController              == Serves("refresh", RefreshRequest)
ClaimDailyRewardSpinController == Serves("claimDailyReward", ClaimDailyRewardRequest)
SpinController                 == Serves("spin", SpinRequest)
FollowController               == Serves("follow", FollowRequest)
UnfollowController             == Serves("unfollow", UnfollowRequest)
HelpCureAnimalController       == Serves("helpCureAnimal", HelpCureAnimalRequest)
HelpWaterController            == Serves("helpWater", HelpWaterRequest)
HelpUsePesticideController     == Serves("helpUsePesticide", HelpUsePesticideRequest)
HelpUseHerbicideController     == Serves("helpUseHerbicide", HelpUseHerbicideRequest)
ThiefCropController            == Serves("thiefCrop", ThiefCropRequest)
ThiefAnimalProductController   == Serves("thiefAnimalProduct", ThiefAnimalProductRequest)
DeliverProductController       == Serves("deliverProduct", DeliverProductRequest)
RetainProductController        == Serves("retainProduct", RetainProductRequest)
SpeedUpController              == Serves("speedUp", SpeedUpRequest)
DeliveryInstantlyController    == Serves("deliverInstantly", DeliverInstantlyRequest)
CollectAnimalProductController == Serves("collectAnimalProduct", CollectAnimalProductRequest)
CureAnimalController           == Serves("cureAnimal", CureAnimalRequest)
FeedAnimalController           == Serves("feedAnimal", FeedAnimalRequest)
HarvestCropController          == Serves("harvestCrop", HarvestCropRequest)
PlantSeedController            == Serves("plantSeed", PlantSeedRequest)
UseFertilizerController        == Serves("useFertilizer", UseFertilizerRequest)
UseHerbicideController         == Serves("useHerbicide", UseHerbicideRequest)
UsePesticideController         == Serves("usePesticide", UsePesticideRequest)
WaterController                == Serves("water", WaterRequest)
MoveController                 == Serves("move", MoveRequest)
PlaceTileController            == Serves("placeTile", PlaceTileRequest)
RecoverTileController          == Serves("recoverTile", RecoverTileRequest)
UpdateTutorialController       == Serves("updateTutorial", UpdateTutorialRequest)
ConstructBuildingController    == Serves("constructBuilding", ConstructBuildingRequest)
BuySeedsController             == Serves("buySeeds", BuySeedsRequest)
BuySuppliesController          == Serves("buySupplies", BuySuppliesRequest)
BuyAnimalController            == Serves("buyAnimal", BuyAnimalRequest)
BuyTileController              == Serves("buyTile", BuyTileRequest)
UpgradeBuildingController      == Serves("upgradeBuilding", UpgradeBuildingRequest)

RequestMessageModule       == {RequestMessageController}
GenerateSignatureModule    == {GenerateSignatureController}
VerifySignatureModule      == {VerifySignatureController}
RefreshModule              == {RefreshController}
ClaimDailyRewardModule     == {ClaimDailyRewardSpinController}
SpinModule                 == {SpinController}
FollowModule               == {FollowController}
UnfollowModule             == {UnfollowController}
HelpCureAnimalModule       == {HelpCureAnimalController}
HelpWaterModule            == {HelpWaterController}
HelpUsePesticideModule     == {HelpUsePesticideController}
HelpUseHerbicideModule     == {HelpUseHerbicideController}
ThiefCropModule            == {ThiefCropController}
ThiefAnimalProductModule   == {ThiefAnimalProductController}
DeliverProductModule       == {DeliverProductController}
RetainProductModule        == {RetainProductController}
SpeedUpModule              == {SpeedUpController}
DeliveryInstantlyModule    == {DeliveryInstantlyController}
CollectAnimalProductModule == {CollectAnimalProductController}
CureAnimalModule           == {CureAnimalController}
FeedAnimalModule           == {FeedAnimalController}
HarvestCropModule          == {HarvestCropController}
PlantSeedModule            == {PlantSeedController}
UseFertilizerModule        == {UseFertilizerController}
UseHerbicideModule         == {UseHerbicideController}
UsePesticideModule         == {UsePesticideController}
WaterModule                == {WaterController}
MoveModule                 == {MoveController}
PlaceTileModule            == {PlaceTileController}
RecoverTileModule          == {RecoverTileController}
UpdateTutorialModule       == {UpdateTutorialController}
ConstructBuildingModule    == {ConstructBuildingController}
BuySeedsModule             == {BuySeedsController}
BuySuppliesModule          == {BuySuppliesController}
BuyAnimalModule            == {BuyAnimalController}
BuyTileModule              == {BuyTileController}
UpgradeBuildingModule      == {UpgradeBuildingController}

AuthModule      == UNION {GenerateSignatureModule, RequestMessageModule,
                          VerifySignatureModule, RefreshModule}
ClaimModule     == UNION {SpinModule, ClaimDailyRewardModule}
CommunityModule == UNION {FollowModule, UnfollowModule, HelpCureAnimalModule,
                          HelpWaterModule, HelpUsePesticideModule,
                          HelpUseHerbicideModule, ThiefCropModule,
                          ThiefAnimalProductModule}
DeliveryModule  == UNION {DeliverProductModule, RetainProductModule}
DevModule       == UNION {SpeedUpModule, DeliveryInstantlyModule}
FarmingModule   == UNION {CollectAnimalProductModule, CureAnimalModule,
                          FeedAnimalModule, HarvestCropModule,
                          PlantSeedModule, UseFertilizerModule,
                          UseHerbicideModule, UsePesticideModule, WaterModule}
PlacementModule == UNION {MoveModule, PlaceTileModule, RecoverTileModule}
ProfileModule   == UNION {UpdateTutorialModule}
ShopModule      == UNION {ConstructBuildingModule, BuySeedsModule,
                          BuySuppliesModule, BuyAnimalModule, BuyTileModule}
UpgradeModule   == UNION {UpgradeBuildingModule}

AppModule == AuthModule \cup ClaimModule \cup CommunityModule \cup DeliveryModule
             \cup DevModule \cup FarmingModule \cup PlacementModule \cup ProfileModule
             \cup ShopModule \cup UpgradeModule

(***************************************************************************)
(* The methods of the protobuf service and the fields of their messages;   *)
(* no other method can be called and no other field is carried.            *)
(***************************************************************************)
GameplayService ==
    [requestMessage       |-> {},
     generateSignature    |-> {"chainKey", "accountNumber", "network"},
     verifySignature      |-> {"message", "publicKey", "signature", "chainKey", "network",
                               "accountAddress", "deviceInfo"},
     refresh              |-> {"refreshToken", "deviceInfo"},
     buySeeds             |-> {"userId", "cropId", "quantity"},
     buyAnimal            |-> {"userId", "animalId", "placedItemBuildingId", "position"},
     buySupplies          |-> {"supplyId", "userId", "quantity"},
     constructBuilding    |-> {"userId", "buildingId", "position"},
     buyTile              |-> {"userId", "position"},
     collectAnimalProduct |-> {"userId", "placedItemAnimalId"},
     cureAnimal           |-> {"userId", "placedItemAnimalId"},
     feedAnimal           |-> {"userId", "placedItemAnimalId"},
     harvestCrop          |-> {"userId", "placedItemTileId"},
     plantSeed            |-> {"userId", "inventorySeedId", "placedItemTileId"},
     useFertilizer        |-> {"userId", "placedItemTileId"},
     useHerbicide         |-> {"userId", "placedItemTileId"},
     usePesticide         |-> {"userId", "placedItemTileId"},
     water                |-> {"userId", "placedItemTileId"},
     deliverProduct       |-> {"userId", "index", "inventoryId", "quantity"},
     retainProduct        |-> {"userId", "deliveringProductId"},
     claimDailyReward     |-> {"userId"},
     spin                 |-> {"userId"},
     follow               |-> {"userId", "followedUserId"},
     unfollow             |-> {"userId", "unfollowedUserId"},
     helpUsePesticide     |-> {"userId", "neighborUserId"},
     helpWater            |-> {"userId", "neighborUserId"},
     helpCureAnimal       |-> {"userId", "neighborUserId"},
     thiefCrop            |-> {"userId", "neighborUserId"},
     thiefAnimalProduct   |-> {"userId", "neighborUserId", "placedItemAnimalId"},
     return               |-> {"userId"},
     speedUp              |-> {"time"},
     deliverInstantly     |-> {},
     move                 |-> {"userId", "placedItemId", "position"},
     placeTile            |-> {"userId", "inventoryTileId", "position"},
     recoverTile          |-> {"userId", "placedItemTileId"},
     upgradeBuilding      |-> {"userId", "placedItemId"}]

(***************************************************************************)
(* The routes of the gateway.  A guarded one needs an access token and     *)
(* overwrites the userId of the body with the token's; the logins add what *)
(* is known of the device.                                                 *)
(***************************************************************************)
Open(method, adds) == [method |-> method, guarded |-> FALSE, adds |-> adds]
Guarded(methods)   == {[method |-> m, guarded |-> TRUE, adds |-> {"userId"}] : m \in methods}

AuthRoutes      == {Open("requestMessage", {}), Open("generateSignature", {}),
                    Open("verifySignature", {"deviceInfo"}), Open("refresh", {"deviceInfo"})}
ClaimRoutes     == Guarded({"claimDailyReward", "spin"})
CommunityRoutes == Guarded({"follow", "unfollow", "helpCureAnimal", "helpUseHerbicide",
                            "helpUsePesticide", "helpWater", "thiefAnimalProduct", "thiefCrop"})
DeliveryRoutes  == Guarded({"deliverProduct", "retainProduct"})
FarmingRoutes   == Guarded({"collectAnimalProduct", "cureAnimal", "feedAnimal", "harvestCrop",
                            "plantSeed", "useFertilizer", "useHerbicide", "usePesticide",
                            "water"})
ShopRoutes      == Guarded({"buySeeds", "buyAnimal", "buySupplies", "buyTile",
                            "constructBuilding"})
PlacementRoutes == Guarded({"move", "placeTile", "recoverTile"})
ProfileRoutes   == Guarded({"updateTutorial"})
UpgradeRoutes   == Guarded({"upgradeBuilding"})

GameplayController == AuthRoutes \cup ClaimRoutes \cup CommunityRoutes \cup DeliveryRoutes
                      \cup FarmingRoutes \cup ShopRoutes \cup PlacementRoutes
                      \cup ProfileRoutes \cup UpgradeRoutes

(***************************************************************************)
(* What a request meets on its way.                                        *)
(***************************************************************************)
Controllers(m) == {h \in AppModule : h.method = m}
RequestOf(m)   == UNION {h.request : h \in Controllers(m)}
Callable(m)    == m \in DOMAIN GameplayService

(* The message that arrives: the fields given that the message type has.   *)
Carried(m, given) == given \cap GameplayService[m]

(* The methods the controllers serve that the protobuf service does not    *)
(* have, and those whose message has not all the fields of their request.  *)
Missing  == {h.method : h \in {g \in AppModule : ~Callable(g.method)}}
Crippled == {h.method : h \in {g \in AppModule :
                Callable(g.method) /\ Carried(g.method, g.request) # g.request}}
=============================================================================
