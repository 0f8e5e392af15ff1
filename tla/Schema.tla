------------------------------- MODULE Schema -------------------------------
(***************************************************************************)
(* The tables of the gameplay database that refer to each other, and what  *)
(* PostgreSQL does with their foreign keys when rows are deleted (the      *)
(* entities of src/databases/postgresql/gameplay; the keys of users are    *)
(* left out, no user is ever deleted).                                     *)
(*                                                                         *)
(* A definition marked (slip: ...) is a mistake a change of the code could *)
(* make in the definition that follows; no action uses it.                 *)
(***************************************************************************)
EXTENDS Naturals, FiniteSets

(* Rows of a column refer to rows of table `to`; onDelete is "cascade",    *)
(* "set null" or, where the entity names nothing, "no action".             *)
Key(from, column, to, onDelete) ==
    [from |-> from, column |-> column, to |-> to, onDelete |-> onDelete]

AnimalInfoKeys ==
    {Key("animal_infos", "animal_id", "animals", "cascade"),
     Key("animal_infos", "placed_item_id", "placed_items", "cascade")}
BuildingInfoKeys ==
    {Key("building_info", "building_id", "buildings", "cascade"),
     Key("building_info", "placed_item_id", "placed_items", "cascade")}
(* A crop that is planted cannot be deleted.                               *)
SeedGrowthInfoKeys ==
    {Key("seed_growth_info", "crop_id", "crops", "no action"),
     Key("seed_growth_info", "placed_item_id", "placed_items", "cascade")}
(* parent_id refers to nothing: the relation has a column of its own.      *)
PlacedItemKeys ==
    {Key("placed_items", "placed_item_type_id", "placed_item_types", "cascade")}
PlacedItemTypeKeys ==
    {Key("placed_item_types", "tile_id", "tiles", "cascade"),
     Key("placed_item_types", "building_id", "buildings", "cascade"),
     Key("placed_item_types", "animal_id", "animals", "cascade")}
InventoryKeys ==
    {Key("inventories", "inventory_type_id", "inventory_types", "set null")}
InventoryTypeKeys ==
    {Key("inventory_types", "crop_id", "crops", "cascade"),
     Key("inventory_types", "animal_id", "animals", "cascade"),
     Key("inventory_types", "supply_id", "supplies", "cascade"),
     Key("inventory_types", "product_id", "products", "cascade"),
     Key("inventory_types", "tile_id", "tiles", "cascade")}
ProductKeys ==
    {Key("products", "crop_id", "crops", "cascade"),
     Key("products", "animal_id", "animals", "cascade")}
DeliveringProductKeys ==
    {Key("delivering_products", "product_id", "products", "set null")}
SpinPrizeKeys ==
    {Key("spin_prizes", "crop_id", "crops", "no action"),
     Key("spin_prizes", "supply_id", "supplies", "no action")}
SpinSlotKeys ==
    {Key("spin_slots", "spin_prize_id", "spin_prizes", "cascade")}
UpgradeKeys ==
    {Key("upgrades", "building_id", "buildings", "no action")}

Keys ==
    UNION {AnimalInfoKeys, BuildingInfoKeys, SeedGrowthInfoKeys, PlacedItemKeys,
           PlacedItemTypeKeys, InventoryKeys, InventoryTypeKeys, ProductKeys,
           DeliveringProductKeys, SpinPrizeKeys, SpinSlotKeys, UpgradeKeys}

Tables == {k.from : k \in Keys} \cup {k.to : k \in Keys}
              \cup {"system", "temp", "tools", "daily_rewards"}

(* No chain of cascading keys has more than three.                         *)
Cascading(tables) == {k.from : k \in {l \in Keys : l.onDelete = "cascade" /\ l.to \in tables}}
ASSUME CascadesAreShort ==
    Cascading(Cascading(Cascading(Cascading(Tables)))) = {}

----------------------------------------------------------------------------
(* A row: its table, its id (copy tells rows with generated ids apart),    *)
(* and its keys that are not null: columns with the id and copy they name. *)
Row(table, id, refs) == [table |-> table, id |-> id, copy |-> 1, refs |-> refs]
To(column, id)       == [column |-> column, id |-> id, copy |-> 1]

SameRow(r, q) == r.table = q.table /\ r.id = q.id /\ r.copy = q.copy

(* Reference x of row r, by a key with this rule, is to row q.             *)
Refers(r, x, q, rules) ==
    /\ x.id = q.id /\ x.copy = q.copy
    /\ \E k \in Keys : /\ k.from = r.table /\ k.column = x.column
                       /\ k.to = q.table /\ k.onDelete \in rules

AnyRule == {"cascade", "set null", "no action"}
Resolved(db) == \A r \in db : \A x \in r.refs : \E q \in db : Refers(r, x, q, AnyRule)

(* The rows and those that a key that cascades ties to them.               *)
With(db, rows) ==
    {r \in db : r \in rows \/ \E x \in r.refs : \E q \in rows : Refers(r, x, q, {"cascade"})}

(* The rows a deletion takes along.                                        *)
Doomed(db, rows) == With(db, With(db, With(db, rows)))

Refused(db, rows) ==
    LET gone == Doomed(db, rows) IN
    \E r \in db \ gone : \E x \in r.refs, q \in gone : Refers(r, x, q, {"no action"})

(* (slip: a column without its rule)                                       *)
DeletedKeepingNulls(db, rows) == db \ Doomed(db, rows)

(* The database after a deletion that is not refused.                      *)
Deleted(db, rows) ==
    LET gone == Doomed(db, rows) IN
    {[r EXCEPT !.refs = {x \in @ : \A q \in gone : ~Refers(r, x, q, {"set null"})}] :
        r \in db \ gone}

InTable(db, table) == {r \in db : r.table = table}
=============================================================================
