--------------------------- MODULE Economy_proofs ---------------------------
(***************************************************************************)
(* For every number of requests in flight, whatever they overwrite of each *)
(* other: what a player owns stays within its bounds, and what is not      *)
(* written from an outdated read agrees with the bookkeeper's account.     *)
(*                                                                         *)
(* The induction is over what the transactions carry.  Each of them is     *)
(* sound by itself: the values it is about to write are within the bounds, *)
(* and its entry in the books is what it changes with respect to what its  *)
(* request has read.  That the row still is what was read is not part of   *)
(* it: where it is not, the commit writes bounded values all the same and  *)
(* the column becomes one of the conflicts.                                *)
(*                                                                         *)
(* For goods the change is a sum over the stacks read.  Sums are defined   *)
(* by counting, so that what they add up to follows by induction over      *)
(* finite sets: a well-founded order on subsets has a least one the sum    *)
(* is wrong for.                                                           *)
(***************************************************************************)
EXTENDS Economy, SequenceTheorems, FiniteSetTheorems, WellFoundedInduction, TLAPS

Fields == {"columns", "seen", "kind", "stacks", "saved", "updated", "removed",
           "opened", "laid", "recovered", "building", "found", "born", "account"}
Shaped(t) == t = [f \in Fields |-> t[f]]

(* What a transaction adds to an account, and what it changes of a column  *)
(* with respect to what was seen of it.                                    *)
Entry(account, b) == IF b \in DOMAIN account THEN account[b] ELSE 0
Change(columns, seen, c) == IF c \in DOMAIN columns THEN columns[c] - seen[c] ELSE 0

(* A value of a column of the users row, for a player who has reached a    *)
(* level.                                                                  *)
Fits(c, v, high) ==
    /\ v \in Int
    /\ c \in {"golds", "tokens", "energy"} => v >= 0
    /\ c = "energy" => v <= GetMaxEnergy(high)
    /\ c = "level" => v >= 1
    /\ c = "experiences" => v >= -ExperiencesGain /\ v < ComputeExperiencesQuota(high)

ColumnsFit(columns, seen, high, today) ==
    /\ DOMAIN columns \subseteq Columns
    /\ \A c \in DOMAIN columns : Fits(c, columns[c], high) /\ seen[c] \in Int
    /\ "level" \in DOMAIN columns => columns["level"] >= seen["level"]
    /\ "spinLastTime" \in DOMAIN columns => columns["spinLastTime"] <= today

Entered(columns, seen, account) ==
    /\ Entry(account, "golds") = Change(columns, seen, "golds")
    /\ Entry(account, "tokens") = Change(columns, seen, "tokens")
    /\ Entry(account, "energy") = Change(columns, seen, "energy") * RegenTime
                                  + Change(columns, seen, "energyRegenTime")
    /\ Entry(account, "spins") \in Int
    /\ Entry(account, "spins") <= Change(columns, seen, "spinLastTime")

(* What is in stacks, summed up; what a transaction makes of the stacks it *)
(* has read; and by how much that changes what there is of their kind.     *)
Sum(f, S) == Units([i \in S |-> f[i]])

After(t) ==
    [i \in DOMAIN t.stacks |-> IF i \in DOMAIN t.saved THEN t.saved[i]
                               ELSE IF i \in DOMAIN t.updated THEN t.updated[i]
                               ELSE IF i \in t.removed THEN 0 ELSE t.stacks[i]]
Whole(t) == \A i \in DOMAIN t.stacks : t.stacks[i] \in Int
Moved(t) == Sum(After(t), DOMAIN t.stacks) + Sum(t.opened, DOMAIN t.opened)
            - Sum(t.stacks, DOMAIN t.stacks)

GoodsEntered(t) ==
    /\ Whole(t)
    /\ \A k \in Kinds :
          Entry(t.account, k) = (IF k = t.kind THEN Moved(t) ELSE 0)
                                + (IF k = "tile" THEN t.laid - Cardinality(t.recovered) ELSE 0)

(* What there is of a kind of goods, in rows and in place.                 *)
InRows(inventories, k) ==
    {i \in RowIds : inventories[i] \notin {NoRow, Gone} /\ inventories[i].kind = k}
Quantities(inventories) == [i \in RowIds |-> inventories[i].quantity]
InPlace(tiles) == {p \in TileIds : tiles[p] = "placed"}
Stock(inventories, tiles, k) ==
    Sum(Quantities(inventories), InRows(inventories, k))
    + (IF k = "tile" THEN Cardinality(InPlace(tiles)) ELSE 0)

(* A stack a row of a kind may hold.                                       *)
Holds(kind, quantity) ==
    /\ quantity \in Int
    /\ quantity <= MaxStack
    /\ kind # "supply" => quantity >= 1

GoodsFit(kind, stacks, saved, updated, removed, opened) ==
    /\ kind \in Kinds \cup {"none"}
    /\ kind = "none" => DOMAIN stacks = {} /\ opened = <<>>
    /\ DOMAIN stacks \subseteq RowIds
    /\ DOMAIN saved \subseteq DOMAIN stacks
    /\ DOMAIN updated \subseteq DOMAIN stacks
    /\ removed \subseteq DOMAIN stacks
    /\ DOMAIN saved \cap DOMAIN updated = {}
    /\ removed \cap (DOMAIN saved \cup DOMAIN updated) = {}
    /\ \A i \in DOMAIN saved : Holds(kind, saved[i])
    /\ \A i \in DOMAIN updated : Holds(kind, updated[i])
    /\ opened \in Seq(Int)
    /\ \A k \in DOMAIN opened : Holds(kind, opened[k])

(* A building is new, or gets one animal its next upgrade has room for, or *)
(* that upgrade.                                                           *)
Built(new, found, born, upgrade) ==
    \/ /\ found = NoBuilding
       /\ new = [currentUpgrade |-> 1, occupancy |-> 0]
       /\ born = 0 /\ upgrade = 1
    \/ /\ found \in BuildingInfo
       /\ new.currentUpgrade = found.currentUpgrade + upgrade
       /\ new.occupancy = found.occupancy + born
       /\ \/ /\ born = 1 /\ upgrade = 0
             /\ found.currentUpgrade + 1 \in DOMAIN Capacities
             /\ found.occupancy < Capacities[found.currentUpgrade + 1]
          \/ born = 0 /\ upgrade = 1

BuildingFits(new, found, born, account) ==
    IF new = Idle THEN born = 0 /\ Entry(account, "upgrade") = 0
    ELSE new \in BuildingInfo /\ Built(new, found, born, Entry(account, "upgrade"))

Sound(t, seen, high, today) ==
    /\ Shaped(t)
    /\ ColumnsFit(t.columns, seen, high, today)
    /\ Entered(t.columns, seen, t.account)
    /\ GoodsFit(t.kind, t.stacks, t.saved, t.updated, t.removed, t.opened)
    /\ BuildingFits(t.building, t.found, t.born, t.account)
    /\ t.laid \in Nat /\ t.recovered \subseteq TileIds
    /\ GoodsEntered(t)

(* The rows a transaction is about are of its kind, or removed since.      *)
OfKind(r, kind) == r # NoRow /\ (r # Gone => r.kind = kind)
About(t, inventories) == \A i \in DOMAIN t.stacks : OfKind(inventories[i], t.kind)

(* Two transactions agree on the kind of a row.                            *)
Agree(s, t) == \A i \in DOMAIN s.stacks \cap DOMAIN t.stacks : s.kind = t.kind

UserFits(u, high) ==
    /\ u \in [Columns -> Int]
    /\ \A c \in Columns : Fits(c, u[c], high)
    /\ u["level"] <= high

RowFits(r) == r \in {NoRow, Gone} \/ (r \in Inventory /\ Holds(r.kind, r.quantity))

Books == {"golds", "tokens", "energy", "spins", "upgrade"} \cup Kinds

(* What the books say of what no outdated write has touched.               *)
Honest(house, born, entered, outdated) ==
    "building" \notin outdated =>
        IF house = NoBuilding THEN born = 0 /\ entered["upgrade"] = 0
        ELSE /\ house.occupancy = born
             /\ house.currentUpgrade = entered["upgrade"]
             /\ born > 0 => born <= Capacities[Least(house.currentUpgrade + 1, Len(Capacities))]

Spun(u, entered, outdated, today) ==
    /\ entered["spins"] \in Int
    /\ u["spinLastTime"] <= today
    /\ "spinLastTime" \notin outdated => entered["spins"] <= u["spinLastTime"] + 1

Booked(u, entered, outdated) ==
    /\ "golds" \notin outdated => u["golds"] = entered["golds"]
    /\ "tokens" \notin outdated => u["tokens"] = entered["tokens"]
    /\ "energy" \notin outdated /\ "energyRegenTime" \notin outdated
       => u["energy"] * RegenTime + u["energyRegenTime"] = entered["energy"]

Stocked(inventories, tiles, entered, outdated) ==
    \A k \in Kinds : k \notin outdated => Stock(inventories, tiles, k) = entered[k]

Typed ==
    /\ tile \in [TileIds -> {"new", "placed", "gone"}]
    /\ building \in BuildingInfo \cup {NoBuilding}
    /\ animals \in Nat
    /\ transaction = [a \in Actors |-> transaction[a]]
    /\ day \in Nat /\ started \in Nat /\ highest \in Nat \ {0}
    /\ DOMAIN books = Books
    /\ conflicts \subseteq Columns \cup Kinds \cup {"building"}

TransactionsFit ==
    \A a \in Actors : transaction[a] # Idle =>
        /\ Sound(transaction[a], transaction[a].seen, highest, day)
        /\ About(transaction[a], rows)
        /\ \A b \in Actors : transaction[b] # Idle => Agree(transaction[a], transaction[b])

EconomyInv ==
    /\ Typed
    /\ UserFits(user, highest)
    /\ rows = [i \in RowIds |-> rows[i]] /\ \A i \in RowIds : RowFits(rows[i])
    /\ Honest(building, animals, books, conflicts)
    /\ Spun(user, books, conflicts, day)
    /\ Booked(user, books, conflicts)
    /\ Stocked(rows, tile, books, conflicts)
    /\ TransactionsFit

----------------------------------------------------------------------------
(* What a level allows grows with the level.                               *)
LEMMA LevelsAllow ==
    ASSUME NEW low \in Nat \ {0}, NEW high \in Nat \ {0}, low <= high
    PROVE  /\ GetMaxEnergy(low) \in Nat /\ GetMaxEnergy(low) <= GetMaxEnergy(high)
           /\ ComputeExperiencesQuota(low) \in Nat
           /\ ComputeExperiencesQuota(low) <= ComputeExperiencesQuota(high)
<1>1. BaseEnergy \in Nat /\ EnergyPerLevel \in Nat /\ ExperiencesUnit \in Nat
  BY RulesAssumption
<1>2. /\ (low - 1) * EnergyPerLevel \in Nat
      /\ (low - 1) * EnergyPerLevel <= (high - 1) * EnergyPerLevel
  BY <1>1, SMT
<1>3. /\ (low - 1) * (low - 1) \in Nat
      /\ (low - 1) * (low - 1) <= (high - 1) * (high - 1)
  BY SMT
<1> DEFINE lower == 2 * low + (low - 1) * (low - 1)
           upper == 2 * high + (high - 1) * (high - 1)
<1>4. lower \in Nat /\ upper \in Nat /\ lower <= upper
  <2>1. (high - 1) * (high - 1) \in Nat
    BY SMT
  <2> QED BY <1>3, <2>1
<1>5. ExperiencesUnit * lower \in Nat /\ ExperiencesUnit * lower <= ExperiencesUnit * upper
  <2>. HIDE DEF lower, upper
  <2> QED BY <1>1, <1>4, SMT
<1>6. (high - 1) * EnergyPerLevel \in Nat
  BY <1>1, SMT
<1> QED BY <1>1, <1>2, <1>5, <1>6 DEF GetMaxEnergy, ComputeExperiencesQuota

LEMMA FitsGrow ==
    ASSUME NEW low \in Nat \ {0}, NEW high \in Nat \ {0}, low <= high,
           NEW c, NEW v, Fits(c, v, low)
    PROVE  Fits(c, v, high)
<1>1. /\ GetMaxEnergy(low) \in Nat /\ GetMaxEnergy(high) \in Nat
      /\ GetMaxEnergy(low) <= GetMaxEnergy(high)
      /\ ComputeExperiencesQuota(low) \in Nat /\ ComputeExperiencesQuota(high) \in Nat
      /\ ComputeExperiencesQuota(low) <= ComputeExperiencesQuota(high)
  BY LevelsAllow
<1> QED BY <1>1 DEF Fits

(* The marks for what is not there are no rows, buildings or transactions. *)
LEMMA MarksDiffer ==
    /\ NoRow # Gone
    /\ \A r \in Inventory : r # NoRow /\ r # Gone
    /\ \A b \in BuildingInfo : b # NoBuilding /\ b # Idle
<1>1. NoRow.none = "row" /\ Gone.none = "gone"
  BY DEF NoRow, Gone
<1>2. /\ DOMAIN NoRow = {"none"} /\ DOMAIN Gone = {"none"}
      /\ DOMAIN NoBuilding = {"none"} /\ DOMAIN Idle = {"none"}
  BY DEF NoRow, Gone, NoBuilding, Idle
<1>3. ASSUME NEW r \in Inventory
      PROVE  r # NoRow /\ r # Gone
  <2>1. "kind" \in DOMAIN r /\ "kind" \notin {"none"}
    BY DEF Inventory
  <2> QED BY <1>2, <2>1
<1>4. ASSUME NEW b \in BuildingInfo
      PROVE  b # NoBuilding /\ b # Idle
  <2>1. "occupancy" \in DOMAIN b /\ "occupancy" \notin {"none"}
    BY DEF BuildingInfo
  <2> QED BY <1>2, <2>1
<1> QED BY <1>1, <1>3, <1>4

LEMMA Merging ==
    ASSUME NEW columns, NEW more
    PROVE  /\ DOMAIN Merge(columns, more) = DOMAIN columns \cup DOMAIN more
           /\ \A c \in DOMAIN more : Merge(columns, more)[c] = more[c]
           /\ \A c \in DOMAIN columns : c \notin DOMAIN more => Merge(columns, more)[c] = columns[c]
BY DEF Merge

----------------------------------------------------------------------------
(***************************************************************************)
(* Sums.  Units counts what is in stacks; these lemmas make it the sum of  *)
(* their quantities.  Induction is over sets of ids: a set of subsets that *)
(* has the empty one and the larger ones with the smaller has them all.    *)
(***************************************************************************)
LEMMA SetsFromBelow ==
    ASSUME NEW S, IsFiniteSet(S), NEW C, {} \in C,
           \A T \in SUBSET S : \A x \in S \ T : T \in C => T \cup {x} \in C
    PROVE  S \in C
<1> SUFFICES ASSUME S \notin C PROVE FALSE
  OBVIOUS
<1> DEFINE Bad == {T \in SUBSET S : T \notin C}
<1>1. IsWellFoundedOn(StrictSubsetOrdering(S), FiniteSubsetsOf(S))
  BY FS_StrictSubsetOrderingWellFounded
<1>2. FiniteSubsetsOf(S) = SUBSET S
  BY FS_FiniteSubsetsOfFinite
<1>3. Bad \subseteq FiniteSubsetsOf(S) /\ Bad # {}
  BY <1>2
<1> HIDE DEF Bad
<1>4. PICK T \in Bad : \A U \in Bad : <<U, T>> \notin StrictSubsetOrdering(S)
  BY <1>1, <1>3, WFMin
<1> USE DEF Bad
<1>5. PICK x \in T : TRUE
  BY DEF Bad
<1>6. T \ {x} \in C
  <2>1. <<T \ {x}, T>> \in StrictSubsetOrdering(S)
    BY DEF StrictSubsetOrdering
  <2> QED BY <1>4, <2>1
<1>7. (T \ {x}) \cup {x} \in C
  BY <1>6
<1>8. (T \ {x}) \cup {x} = T
  OBVIOUS
<1> QED BY <1>7, <1>8

LEMMA NumbersFromBelow ==
    ASSUME NEW C, 0 \in C, \A n \in Nat : n \in C => n + 1 \in C, NEW m \in Nat
    PROVE  m \in C
<1> SUFFICES ASSUME m \notin C PROVE FALSE
  OBVIOUS
<1> DEFINE Below(n) == {k \in 0 .. m : k < n}
           Bad == {Below(n) : n \in {k \in 0 .. m : k \notin C}}
<1>1. IsFiniteSet(0 .. m)
  BY FS_Interval
<1>2. IsWellFoundedOn(StrictSubsetOrdering(0 .. m), FiniteSubsetsOf(0 .. m))
  BY FS_StrictSubsetOrderingWellFounded
<1>3. FiniteSubsetsOf(0 .. m) = SUBSET (0 .. m)
  BY <1>1, FS_FiniteSubsetsOfFinite
<1>4. Bad \subseteq FiniteSubsetsOf(0 .. m) /\ Bad # {}
  <2>1. Below(m) \in Bad
    OBVIOUS
  <2>2. Bad \subseteq SUBSET (0 .. m)
    OBVIOUS
  <2> HIDE DEF Bad
  <2> QED BY <1>3, <2>1, <2>2
<1> HIDE DEF Bad
<1>5. PICK B \in Bad : \A U \in Bad : <<U, B>> \notin StrictSubsetOrdering(0 .. m)
  BY <1>2, <1>4, WFMin
<1>6. PICK n \in 0 .. m : n \notin C /\ B = Below(n)
  BY <1>5 DEF Bad
<1>7. n # 0 /\ n - 1 \in 0 .. m /\ n - 1 \notin C
  BY <1>6
<1>8. Below(n - 1) \in Bad
  BY <1>7 DEF Bad
<1>9. Below(n - 1) \subseteq Below(n) /\ n - 1 \in Below(n) /\ n - 1 \notin Below(n - 1)
  BY <1>7
<1>10. <<Below(n - 1), Below(n)>> \in StrictSubsetOrdering(0 .. m)
  <2>1. Below(n) \subseteq 0 .. m
    OBVIOUS
  <2> HIDE DEF Below
  <2> QED BY <1>9, <2>1 DEF StrictSubsetOrdering
<1> QED BY <1>5, <1>6, <1>8, <1>10

(* The units of one row.                                                   *)
Cells(f, S) == UNION {{i} \X (1 .. f[i]) : i \in S}
Less(f, S)  == [i \in S |-> -f[i]]

LEMMA CellsCounted ==
    ASSUME NEW S, IsFiniteSet(S), NEW f, \A i \in S : f[i] \in Int
    PROVE  IsFiniteSet(Cells(f, S)) /\ Cardinality(Cells(f, S)) \in Nat
<1> DEFINE Room(i) == {i} \X (1 .. f[i])
           T == {Room(i) : i \in S}
           g == [i \in S |-> Room(i)]
<1>1. IsFiniteSet(T)
  <2>1. g \in Surjection(S, T)
    BY DEF Surjection
  <2> QED BY <2>1, FS_Surjection
<1>2. ASSUME NEW U \in T
      PROVE  IsFiniteSet(U)
  <2>1. PICK i \in S : U = Room(i)
    OBVIOUS
  <2>2. IsFiniteSet(1 .. f[i])
    BY FS_Interval
  <2>3. IsFiniteSet({i})
    BY FS_Singleton
  <2> QED BY <2>1, <2>2, <2>3, FS_Product
<1>3. IsFiniteSet(UNION T)
  <2> HIDE DEF T
  <2> QED BY <1>1, <1>2, FS_UNION
<1> QED BY <1>3, FS_CardinalityType DEF Cells

LEMMA OneMoreRow ==
    ASSUME NEW S, IsFiniteSet(S), NEW x, x \notin S, NEW f,
           \A i \in S \cup {x} : f[i] \in Int
    PROVE  Cardinality(Cells(f, S \cup {x})) = Cardinality(Cells(f, S)) + Positive(f[x])
<1> DEFINE Row == {x} \X (1 .. f[x])
<1>1. Cells(f, S \cup {x}) = Cells(f, S) \cup Row
  BY DEF Cells
<1>2. Cells(f, S) \cap Row = {}
  BY DEF Cells
<1>3. IsFiniteSet(1 .. f[x]) /\ Cardinality(1 .. f[x]) = IF 1 > f[x] THEN 0 ELSE f[x] - 1 + 1
  BY FS_Interval
<1>4. IsFiniteSet({x}) /\ Cardinality({x}) = 1
  BY FS_Singleton
<1>5. IsFiniteSet(Row) /\ Cardinality(Row) = 1 * Cardinality(1 .. f[x])
  BY <1>3, <1>4, FS_Product
<1>6. Cardinality(Row) = Positive(f[x])
  BY <1>3, <1>5 DEF Positive
<1>7. IsFiniteSet(Cells(f, S)) /\ Cardinality(Cells(f, S)) \in Nat
  BY CellsCounted
<1>8. Cardinality(Cells(f, S) \cup Row) = Cardinality(Cells(f, S)) + Cardinality(Row)
                                            - Cardinality({})
  BY <1>2, <1>5, <1>7, FS_Union
<1>9. Cardinality({}) = 0 /\ Positive(f[x]) \in Int
  BY FS_EmptySet DEF Positive
<1> HIDE DEF Row
<1>10. Cardinality(Cells(f, S) \cup Row) = Cardinality(Cells(f, S)) + Positive(f[x])
  BY <1>6, <1>7, <1>8, <1>9
<1> QED BY <1>1, <1>10, Zenon

LEMMA SumIsCells ==
    ASSUME NEW f, NEW S
    PROVE  Sum(f, S) = Cardinality(Cells(f, S)) - Cardinality(Cells(Less(f, S), S))
<1> DEFINE g == [i \in S |-> f[i]]
<1>1. {{i} \X (1 .. g[i]) : i \in DOMAIN g} = {{i} \X (1 .. f[i]) : i \in S}
  OBVIOUS
<1>2. {{i} \X (1 .. -g[i]) : i \in DOMAIN g} = {{i} \X (1 .. Less(f, S)[i]) : i \in S}
  BY DEF Less
<1> HIDE DEF g
<1>3. Units(g) = Cardinality(Cells(f, S)) - Cardinality(Cells(Less(f, S), S))
  BY <1>1, <1>2 DEF Units, Cells
<1> QED BY <1>3 DEF Sum, g

LEMMA SumEmpty == ASSUME NEW f PROVE Sum(f, {}) = 0
<1>1. \A h : Cells(h, {}) = {}
  BY DEF Cells
<1> QED BY <1>1, SumIsCells, FS_EmptySet

LEMMA SumStep ==
    ASSUME NEW S, IsFiniteSet(S), NEW x, x \notin S, NEW f,
           \A i \in S \cup {x} : f[i] \in Int
    PROVE  Sum(f, S) \in Int /\ Sum(f, S \cup {x}) = Sum(f, S) + f[x]
<1> DEFINE g == Less(f, S \cup {x})
<1>1. \A i \in S \cup {x} : g[i] = -f[i] /\ g[i] \in Int
  BY DEF Less
<1>2. Cells(Less(f, S), S) = Cells(g, S)
  <2>1. \A i \in S : Less(f, S)[i] = g[i]
    BY DEF Less
  <2> QED BY <2>1 DEF Cells
<1> HIDE DEF g
<1>3. Cardinality(Cells(g, S \cup {x})) = Cardinality(Cells(g, S)) + Positive(g[x])
  BY <1>1, OneMoreRow
<1>4. Cardinality(Cells(f, S \cup {x})) = Cardinality(Cells(f, S)) + Positive(f[x])
  BY OneMoreRow
<1>5. Cardinality(Cells(f, S)) \in Nat /\ Cardinality(Cells(g, S)) \in Nat
  BY <1>1, CellsCounted
<1>6. Sum(f, S) = Cardinality(Cells(f, S)) - Cardinality(Cells(g, S))
  BY <1>2, SumIsCells
<1>7. Sum(f, S \cup {x}) = Cardinality(Cells(f, S \cup {x})) - Cardinality(Cells(g, S \cup {x}))
  BY SumIsCells DEF g
<1>8. Positive(f[x]) - Positive(g[x]) = f[x] /\ Positive(f[x]) \in Int /\ Positive(g[x]) \in Int
  <2>1. f[x] \in Int /\ g[x] = -f[x]
    BY <1>1
  <2> QED BY <2>1 DEF Positive
<1> QED BY <1>3, <1>4, <1>5, <1>6, <1>7, <1>8

----------------------------------------------------------------------------
(* Stacks.                                                                 *)
LEMMA SpaceCounted ==
    ASSUME NEW S \in SUBSET RowIds, NEW stacks, \A i \in S : stacks[i] \in Int
    PROVE  SpaceIn(stacks, S) \in Nat
<1> DEFINE f == [i \in S |-> Space(stacks, i)]
<1>1. IsFiniteSet(S)
  BY EconomyAssumption, FS_Subset
<1>2. \A i \in S : f[i] = Space(stacks, i) /\ Space(stacks, i) \in Int
  BY RulesAssumption DEF Space, Positive
<1>3. Cells(f, S) = UNION {{i} \X (1 .. Space(stacks, i)) : i \in S}
  BY <1>2 DEF Cells
<1>4. Cardinality(Cells(f, S)) \in Nat
  BY <1>1, <1>2, CellsCounted
<1> QED BY <1>3, <1>4 DEF SpaceIn

(* No stack that is topped up outgrows its limit or shrinks, and no stack  *)
(* is opened for nothing.                                                  *)
LEMMA ToppedUpHolds ==
    ASSUME NEW stacks, DOMAIN stacks \subseteq RowIds, NEW kind,
           \A i \in DOMAIN stacks : Holds(kind, stacks[i]),
           NEW quantity \in Nat
    PROVE  /\ DOMAIN ToppedUp(stacks, quantity) = DOMAIN stacks
           /\ \A i \in DOMAIN stacks : Holds(kind, ToppedUp(stacks, quantity)[i])
<1>1. ASSUME NEW i \in DOMAIN stacks
      PROVE  Holds(kind, ToppedUp(stacks, quantity)[i])
  <2> DEFINE before == {j \in DOMAIN stacks : j < i}
             space  == Space(stacks, i)
             rest   == Positive(quantity - SpaceIn(stacks, before))
  <2>1. SpaceIn(stacks, before) \in Nat
    BY SpaceCounted DEF Holds
  <2>2. rest \in Nat
    BY <2>1 DEF Positive
  <2>3. MaxStack \in Nat /\ stacks[i] \in Int /\ stacks[i] <= MaxStack
    BY RulesAssumption DEF Holds
  <2>4. space = MaxStack - stacks[i]
    BY <2>3 DEF Space, Positive
  <2>5. ToppedUp(stacks, quantity)[i] = stacks[i] + Least(space, rest)
    BY DEF ToppedUp
  <2>. HIDE DEF space, rest
  <2>6. Least(space, rest) \in Nat /\ Least(space, rest) <= space
    BY <2>2, <2>3, <2>4 DEF Least
  <2>7. kind # "supply" => stacks[i] >= 1
    BY DEF Holds
  <2> QED BY <2>3, <2>4, <2>5, <2>6, <2>7 DEF Holds
<1> QED BY <1>1 DEF ToppedUp

LEMMA OpenedHolds ==
    ASSUME NEW stacks, DOMAIN stacks \subseteq RowIds,
           \A i \in DOMAIN stacks : stacks[i] \in Int,
           NEW kind, NEW quantity \in Nat
    PROVE  /\ Opened(stacks, quantity) \in Seq(Int)
           /\ \A k \in DOMAIN Opened(stacks, quantity) : Holds(kind, Opened(stacks, quantity)[k])
<1> DEFINE rest == Positive(quantity - SpaceIn(stacks, DOMAIN stacks))
           m    == rest + MaxStack - 1
           n    == m \div MaxStack
<1>1. rest \in Nat /\ MaxStack \in Nat \ {0}
  BY SpaceCounted, RulesAssumption DEF Positive
<1>2. n \in Nat /\ n * MaxStack <= m
  <2>1. m \in Nat
    <3>. HIDE DEF rest
    <3> QED BY <1>1
  <2>. HIDE DEF m
  <2>2. m = MaxStack * n + (m % MaxStack) /\ (m % MaxStack) \in 0 .. MaxStack - 1
    BY <1>1, <2>1, SMT
  <2>3. n \in Nat
    BY <1>1, <2>1, SMT
  <2>. HIDE DEF n
  <2>4. MaxStack * n = n * MaxStack /\ n * MaxStack \in Nat
    BY <1>1, <2>3, SMT
  <2> QED BY <1>1, <2>1, <2>2, <2>3, <2>4, SMT
<1>3. Opened(stacks, quantity) = [k \in 1 .. n |-> Least(MaxStack, rest - (k - 1) * MaxStack)]
  BY DEF Opened
<1>. HIDE DEF n, rest
<1>4. ASSUME NEW k \in 1 .. n
      PROVE  Holds(kind, Least(MaxStack, rest - (k - 1) * MaxStack))
  <2> DEFINE before == (k - 1) * MaxStack
  <2>1. k * MaxStack <= n * MaxStack /\ before = k * MaxStack - MaxStack
        /\ k * MaxStack \in Int /\ n * MaxStack \in Int
    BY <1>1, <1>2, <1>4, SMT
  <2>. HIDE DEF before
  <2>2. before \in Int /\ before <= rest - 1
    BY <1>1, <1>2, <2>1
  <2>3. Holds(kind, Least(MaxStack, rest - before))
    BY <1>1, <2>2 DEF Least, Holds
  <2> QED BY <2>3 DEF before
<1>5. Opened(stacks, quantity) \in [1 .. n -> Int]
  BY <1>3, <1>4 DEF Holds
<1>6. Opened(stacks, quantity) \in Seq(Int)
  BY <1>2, <1>5, SeqDef
<1> QED BY <1>3, <1>4, <1>6

(* Sums are integers; equal rows have equal sums.                          *)
LEMMA SumType ==
    ASSUME NEW S, IsFiniteSet(S), NEW f, \A i \in S : f[i] \in Int
    PROVE  Sum(f, S) \in Int
<1>1. /\ Cardinality(Cells(f, S)) \in Nat
      /\ Cardinality(Cells(Less(f, S), S)) \in Nat
  BY CellsCounted DEF Less
<1> QED BY <1>1, SumIsCells

LEMMA SumSame ==
    ASSUME NEW S, NEW f, NEW g, \A i \in S : f[i] = g[i]
    PROVE  Sum(f, S) = Sum(g, S)
<1>1. [i \in S |-> f[i]] = [i \in S |-> g[i]]
  OBVIOUS
<1> QED BY <1>1 DEF Sum

(* Sums of sums.                                                           *)
LEMMA SumAdds ==
    ASSUME NEW S, IsFiniteSet(S), NEW f, NEW g, NEW h,
           \A i \in S : f[i] \in Int /\ g[i] \in Int /\ h[i] = f[i] + g[i]
    PROVE  Sum(h, S) = Sum(f, S) + Sum(g, S)
<1> DEFINE C == {T \in SUBSET S : Sum(h, T) = Sum(f, T) + Sum(g, T)}
<1>1. {} \in C
  BY SumEmpty
<1>2. ASSUME NEW T \in SUBSET S, NEW x \in S \ T, T \in C
      PROVE  T \cup {x} \in C
  <2>1. IsFiniteSet(T)
    BY FS_Subset
  <2>2. /\ Sum(f, T) \in Int /\ Sum(f, T \cup {x}) = Sum(f, T) + f[x]
        /\ Sum(g, T) \in Int /\ Sum(g, T \cup {x}) = Sum(g, T) + g[x]
    BY <2>1, SumStep
  <2>3. \A i \in T \cup {x} : h[i] \in Int
    OBVIOUS
  <2>4. Sum(h, T \cup {x}) = Sum(h, T) + h[x]
    BY <2>1, <2>3, SumStep
  <2>5. Sum(h, T) = Sum(f, T) + Sum(g, T) /\ h[x] = f[x] + g[x] /\ f[x] \in Int /\ g[x] \in Int
    BY <1>2
  <2>6. Sum(h, T \cup {x}) = Sum(f, T \cup {x}) + Sum(g, T \cup {x})
    BY <2>2, <2>4, <2>5
  <2> QED BY <2>6
<1> HIDE DEF C
<1>3. S \in C
  BY <1>1, <1>2, SetsFromBelow
<1> QED BY <1>3 DEF C

(* A sum over two parts.                                                   *)
LEMMA SumParts ==
    ASSUME NEW S, IsFiniteSet(S), NEW R, IsFiniteSet(R), R \cap S = {}, NEW f,
           \A i \in R \cup S : f[i] \in Int
    PROVE  Sum(f, R \cup S) = Sum(f, R) + Sum(f, S)
<1> DEFINE C == {T \in SUBSET S : Sum(f, R \cup T) = Sum(f, R) + Sum(f, T)}
<1>0. Sum(f, R) \in Int
  BY SumType
<1>1. {} \in C
  BY <1>0, SumEmpty
<1>2. ASSUME NEW T \in SUBSET S, NEW x \in S \ T, T \in C
      PROVE  T \cup {x} \in C
  <2>1. IsFiniteSet(T) /\ IsFiniteSet(R \cup T) /\ x \notin R \cup T
    BY FS_Subset, FS_Union
  <2>2. Sum(f, T) \in Int /\ Sum(f, T \cup {x}) = Sum(f, T) + f[x]
    BY <2>1, SumStep
  <2>3. Sum(f, (R \cup T) \cup {x}) = Sum(f, R \cup T) + f[x]
    BY <2>1, SumStep
  <2>4. (R \cup T) \cup {x} = R \cup (T \cup {x})
    OBVIOUS
  <2>5. Sum(f, R \cup T) = Sum(f, R) + Sum(f, T) /\ f[x] \in Int
    BY <1>2
  <2>6. Sum(f, R \cup (T \cup {x})) = Sum(f, R) + Sum(f, T \cup {x})
    <3>1. Sum(f, R \cup T) + f[x] = Sum(f, R) + (Sum(f, T) + f[x])
      BY <1>0, <2>2, <2>5
    <3> QED BY <2>2, <2>3, <2>4, <3>1, Zenon
  <2> QED BY <2>6
<1> HIDE DEF C
<1>3. S \in C
  BY <1>1, <1>2, SetsFromBelow
<1> QED BY <1>3 DEF C

LEMMA SumOne ==
    ASSUME NEW x, NEW f, f[x] \in Int
    PROVE  Sum(f, {x}) = f[x]
<1>1. Sum(f, {}) \in Int /\ Sum(f, {} \cup {x}) = Sum(f, {}) + f[x]
  BY SumStep, FS_EmptySet
<1>2. {} \cup {x} = {x} /\ Sum(f, {}) = 0
  BY SumEmpty
<1> QED BY <1>1, <1>2

LEMMA SumZero ==
    ASSUME NEW S, IsFiniteSet(S), NEW f, \A i \in S : f[i] = 0
    PROVE  Sum(f, S) = 0
<1>1. \A i \in S : f[i] \in Int /\ f[i] = f[i] + f[i]
  OBVIOUS
<1>2. Sum(f, S) = Sum(f, S) + Sum(f, S)
  BY <1>1, SumAdds
<1>3. Sum(f, S) \in Int
  BY <1>1, SumType
<1> DEFINE total == Sum(f, S)
<1> HIDE DEF total
<1>4. total \in Int /\ total = total + total
  BY <1>2, <1>3 DEF total
<1>5. total = 0
  BY <1>4
<1> QED BY <1>5 DEF total

(* Ids in their order.                                                     *)
LEMMA IdsBelow ==
    ASSUME NEW D \in SUBSET Nat
    PROVE  /\ {j \in D : j < 0} = {}
           /\ \A n \in Nat :
               /\ n \notin {j \in D : j < n}
               /\ n \in D => {j \in D : j < n + 1} = {j \in D : j < n} \cup {n}
               /\ n \notin D => {j \in D : j < n + 1} = {j \in D : j < n}
               /\ {j \in D : j <= n} = {j \in D : j < n + 1}
<1>1. \A j \in D : ~(j < 0)
  OBVIOUS
<1>2. {j \in D : j < 0} = {}
  BY <1>1
<1>3. ASSUME NEW n \in Nat
      PROVE  /\ n \notin {j \in D : j < n}
             /\ n \in D => {j \in D : j < n + 1} = {j \in D : j < n} \cup {n}
             /\ n \notin D => {j \in D : j < n + 1} = {j \in D : j < n}
             /\ {j \in D : j <= n} = {j \in D : j < n + 1}
  <2>1. \A j \in D : (j < n + 1 <=> j < n \/ j = n) /\ (j <= n <=> j < n + 1)
    OBVIOUS
  <2>2. ~(n < n)
    OBVIOUS
  <2> QED BY <2>1, <2>2
<1> QED BY <1>2, <1>3

LEMMA IdsBounded ==
    ASSUME NEW D \in SUBSET Nat, IsFiniteSet(D)
    PROVE  \E m \in Nat : \A i \in D : i < m
<1> DEFINE B == {S \in SUBSET D : \E m \in Nat : \A i \in S : i < m}
<1>1. {} \in B
  OBVIOUS
<1>2. ASSUME NEW S \in SUBSET D, NEW x \in D \ S, S \in B
      PROVE  S \cup {x} \in B
  <2>1. PICK m \in Nat : \A i \in S : i < m
    BY <1>2
  <2>2. PICK k \in Nat : k > m /\ k > x
    <3>1. x \in Nat /\ m + x + 1 \in Nat /\ m + x + 1 > m /\ m + x + 1 > x
      OBVIOUS
    <3> QED BY <3>1
  <2>3. \A i \in S \cup {x} : i < k
    BY <2>1, <2>2
  <2> QED BY <2>3
<1> HIDE DEF B
<1>3. D \in B
  BY <1>1, <1>2, SetsFromBelow
<1> QED BY <1>3 DEF B

----------------------------------------------------------------------------
(* What inventoryService.add does to the stacks it finds, summed up: rows  *)
(* are topped up in their order, each with what is left of the quantity.   *)
SpaceOf(stacks) == [i \in DOMAIN stacks |-> Space(stacks, i)]
Extra(stacks, quantity) ==
    [i \in DOMAIN stacks |->
        Least(Space(stacks, i), Positive(quantity - SpaceIn(stacks, {j \in DOMAIN stacks : j < i})))]

LEMMA SpaceIsSum ==
    ASSUME NEW stacks, DOMAIN stacks \subseteq RowIds, \A i \in DOMAIN stacks : stacks[i] \in Int,
           NEW S \in SUBSET (DOMAIN stacks)
    PROVE  SpaceIn(stacks, S) = Sum(SpaceOf(stacks), S)
<1> DEFINE f == SpaceOf(stacks)
<1>1. \A i \in S : f[i] = Space(stacks, i) /\ Space(stacks, i) \in Nat
  BY RulesAssumption DEF SpaceOf, Space, Positive
<1>2. Cells(f, S) = UNION {{i} \X (1 .. Space(stacks, i)) : i \in S}
  BY <1>1 DEF Cells
<1>3. \A i \in S : Less(f, S)[i] = -Space(stacks, i)
  BY <1>1 DEF Less
<1>4. \A i \in S : 1 .. Less(f, S)[i] = {}
  BY <1>1, <1>3
<1>5. Cells(Less(f, S), S) = {}
  BY <1>4 DEF Cells
<1>6. IsFiniteSet(S)
  BY EconomyAssumption, FS_Subset
<1>7. Cardinality(Cells(f, S)) \in Nat
  BY <1>1, <1>6, CellsCounted
<1>8. Sum(f, S) = Cardinality(Cells(f, S)) - Cardinality({})
  BY <1>5, SumIsCells, Zenon
<1>9. Cardinality({}) = 0
  BY FS_EmptySet
<1> QED BY <1>2, <1>7, <1>8, <1>9 DEF SpaceIn

(* What is left of the quantity is what no row has had space for.          *)
LEMMA ExtraSum ==
    ASSUME NEW stacks, DOMAIN stacks \subseteq RowIds, \A i \in DOMAIN stacks : stacks[i] \in Int,
           NEW quantity \in Nat
    PROVE  /\ \A i \in DOMAIN stacks : Extra(stacks, quantity)[i] \in Nat
           /\ SpaceIn(stacks, DOMAIN stacks) \in Nat
           /\ Sum(Extra(stacks, quantity), DOMAIN stacks)
              = Least(quantity, SpaceIn(stacks, DOMAIN stacks))
<1> DEFINE D == DOMAIN stacks
           Below(n) == {j \in D : j < n}
           f == SpaceOf(stacks)
           e == Extra(stacks, quantity)
           C == {n \in Nat : Sum(e, Below(n)) = Least(quantity, SpaceIn(stacks, Below(n)))}
<1>0. D \subseteq Nat
  BY EconomyAssumption
<1>1. IsFiniteSet(D) /\ \A S \in SUBSET D : IsFiniteSet(S)
  BY EconomyAssumption, FS_Subset
<1>2. \A i \in D : f[i] = Space(stacks, i) /\ f[i] \in Nat
  BY RulesAssumption DEF SpaceOf, Space, Positive
<1>3. \A S \in SUBSET D : SpaceIn(stacks, S) \in Nat /\ SpaceIn(stacks, S) = Sum(f, S)
  BY SpaceCounted, SpaceIsSum
<1>4. \A i \in D : e[i] = Least(f[i], Positive(quantity - SpaceIn(stacks, Below(i))))
  BY <1>2 DEF Extra
<1>5. \A i \in D : e[i] \in Nat
  <2> TAKE i \in D
  <2>1. SpaceIn(stacks, Below(i)) \in Nat
    BY <1>3
  <2> HIDE DEF Below, f, e
  <2> QED BY <1>2, <1>4, <2>1 DEF Least, Positive
<1> HIDE DEF f, e, D
<1>6. 0 \in C
  <2>1. Below(0) = {}
    BY <1>0, IdsBelow
  <2>2. SpaceIn(stacks, {}) = 0
    BY <1>3, SumEmpty
  <2>3. Sum(e, {}) = Least(quantity, SpaceIn(stacks, {}))
    BY <2>2, SumEmpty DEF Least
  <2> QED BY <2>1, <2>3
<1>7. ASSUME NEW n \in Nat, n \in C
      PROVE  n + 1 \in C
  <2>1. CASE n \notin D
    <3>1. Below(n + 1) = Below(n)
      BY <1>0, <2>1, IdsBelow
    <3> HIDE DEF Below
    <3> QED BY <1>7, <3>1
  <2>2. CASE n \in D
    <3>1. Below(n + 1) = Below(n) \cup {n} /\ n \notin Below(n) /\ Below(n) \in SUBSET D
          /\ Below(n + 1) \in SUBSET D
      BY <1>0, <2>2, IdsBelow
    <3>a. /\ \A i \in Below(n) \cup {n} : e[i] \in Int /\ f[i] \in Int
          /\ IsFiniteSet(Below(n))
      BY <1>1, <1>2, <1>5, <2>2, <3>1
    <3>2. e[n] = Least(f[n], Positive(quantity - SpaceIn(stacks, Below(n))))
      BY <1>4, <2>2
    <3>3. Sum(e, Below(n)) = Least(quantity, SpaceIn(stacks, Below(n)))
      BY <1>7
    <3> HIDE DEF Below, C
    <3>4. Sum(e, Below(n) \cup {n}) = Sum(e, Below(n)) + e[n]
      BY <3>1, <3>a, SumStep
    <3>5. Sum(f, Below(n) \cup {n}) = Sum(f, Below(n)) + f[n]
      BY <3>1, <3>a, SumStep
    <3>6. SpaceIn(stacks, Below(n + 1)) = SpaceIn(stacks, Below(n)) + f[n]
      BY <1>3, <3>1, <3>5
    <3>7. Least(quantity, SpaceIn(stacks, Below(n)) + f[n]) = Sum(e, Below(n)) + e[n]
      <4>1. SpaceIn(stacks, Below(n)) \in Nat /\ f[n] \in Nat
        BY <1>2, <1>3, <2>2, <3>1
      <4> QED BY <3>2, <3>3, <4>1 DEF Least, Positive
    <3>8. Sum(e, Below(n + 1)) = Least(quantity, SpaceIn(stacks, Below(n + 1)))
      BY <3>1, <3>4, <3>6, <3>7, Zenon
    <3> QED BY <3>8 DEF C
  <2> QED BY <2>1, <2>2
<1>8. PICK m \in Nat : \A i \in D : i < m
  BY <1>0, <1>1, IdsBounded
<1>b. Below(m) = D
  BY <1>8
<1> HIDE DEF C
<1>9. m \in C
  BY <1>6, <1>7, NumbersFromBelow
<1>10. Sum(e, D) = Least(quantity, SpaceIn(stacks, D))
  BY <1>b, <1>9 DEF C
<1> QED BY <1>3, <1>5, <1>10 DEF D, e

(* What is left opens new stacks, all but the last one full.               *)
LEMMA OpenedSum ==
    ASSUME NEW stacks, DOMAIN stacks \subseteq RowIds, \A i \in DOMAIN stacks : stacks[i] \in Int,
           NEW quantity \in Nat
    PROVE  Sum(Opened(stacks, quantity), DOMAIN Opened(stacks, quantity))
           = Positive(quantity - SpaceIn(stacks, DOMAIN stacks))
<1> DEFINE rest == Positive(quantity - SpaceIn(stacks, DOMAIN stacks))
           m    == rest + MaxStack - 1
           n    == m \div MaxStack
           o    == Opened(stacks, quantity)
           C    == {k \in Nat : k <= n => Sum(o, 1 .. k) = Least(rest, k * MaxStack)}
<1>1. rest \in Nat /\ MaxStack \in Nat \ {0}
  BY SpaceCounted, RulesAssumption DEF Positive
<1>2. n \in Nat /\ n * MaxStack \in Nat /\ n * MaxStack <= rest + MaxStack - 1
      /\ n * MaxStack >= rest
  <2>1. m \in Nat
    <3>. HIDE DEF rest
    <3> QED BY <1>1
  <2>. HIDE DEF m
  <2>2. m = MaxStack * n + (m % MaxStack) /\ (m % MaxStack) \in 0 .. MaxStack - 1
    BY <1>1, <2>1, SMT
  <2>3. n \in Nat
    BY <1>1, <2>1, SMT
  <2>. HIDE DEF n
  <2>4. MaxStack * n = n * MaxStack /\ n * MaxStack \in Nat
    BY <1>1, <2>3, SMT
  <2>5. m % MaxStack \in Int /\ m = n * MaxStack + (m % MaxStack)
        /\ 0 <= m % MaxStack /\ m % MaxStack <= MaxStack - 1
    BY <2>2, <2>4
  <2>6. m = rest + MaxStack - 1
    BY DEF m
  <2>. HIDE DEF rest
  <2>7. \A q, r \in Int : m = q + r /\ 0 <= r /\ r <= MaxStack - 1
                          => q <= m /\ q >= rest
    BY <1>1, <2>6
  <2>8. n * MaxStack <= m /\ n * MaxStack >= rest
    BY <2>4, <2>5, <2>7
  <2> QED BY <2>3, <2>4, <2>6, <2>8
<1>3. o = [k \in 1 .. n |-> Least(MaxStack, rest - (k - 1) * MaxStack)]
  BY DEF Opened
<1>. HIDE DEF n, m, rest, o
<1>4. 0 \in C
  <2>1. 1 .. 0 = {} /\ 0 * MaxStack = 0
    BY <1>1
  <2>2. Least(rest, 0) = 0
    BY <1>1 DEF Least
  <2>3. Sum(o, {}) = 0
    BY SumEmpty
  <2> QED BY <2>1, <2>2, <2>3
<1>5. ASSUME NEW k \in Nat, k \in C, k + 1 <= n
      PROVE  Sum(o, 1 .. k + 1) = Least(rest, (k + 1) * MaxStack)
  <2> DEFINE full == k * MaxStack
  <2>1. k <= n /\ Sum(o, 1 .. k) = Least(rest, full)
    BY <1>2, <1>5
  <2>2. full \in Nat /\ (k + 1) * MaxStack = full + MaxStack
    BY <1>1
  <2>3. full < rest
    <3>1. (k + 1) * MaxStack <= n * MaxStack
      BY <1>1, <1>2, <1>5, SMT
    <3> HIDE DEF full
    <3> QED BY <1>1, <1>2, <2>2, <3>1
  <2>4. \A j \in 1 .. k + 1 : o[j] \in Int
    <3> TAKE j \in 1 .. k + 1
    <3>1. j \in 1 .. n /\ (j - 1) * MaxStack \in Int
      BY <1>1, <1>2, <1>5
    <3>2. o[j] = Least(MaxStack, rest - (j - 1) * MaxStack)
      BY <1>3, <3>1
    <3> QED BY <1>1, <3>1, <3>2 DEF Least
  <2>5. o[k + 1] = Least(MaxStack, rest - full)
    <3>1. k + 1 \in 1 .. n /\ (k + 1) - 1 = k
      BY <1>2, <1>5
    <3> QED BY <1>3, <3>1
  <2>6. 1 .. k + 1 = (1 .. k) \cup {k + 1} /\ k + 1 \notin 1 .. k /\ IsFiniteSet(1 .. k)
    BY FS_Interval
  <2> HIDE DEF full
  <2>7. Sum(o, (1 .. k) \cup {k + 1}) = Sum(o, 1 .. k) + o[k + 1]
    <3> DEFINE before == 1 .. k
               next   == k + 1
    <3>1. IsFiniteSet(before) /\ next \notin before
      BY <2>6
    <3>2. \A j \in before \cup {next} : o[j] \in Int
      BY <2>4, <2>6
    <3> HIDE DEF before, next, C
    <3>3. Sum(o, before \cup {next}) = Sum(o, before) + o[next]
      BY <3>1, <3>2, SumStep
    <3> QED BY <3>3 DEF before, next
  <2>8. Least(rest, full) + Least(MaxStack, rest - full) = Least(rest, full + MaxStack)
    BY <1>1, <2>2, <2>3 DEF Least
  <2> QED BY <2>1, <2>2, <2>5, <2>6, <2>7, <2>8, Zenon
<1>6. \A k \in Nat : k \in C => k + 1 \in C
  <2> TAKE k \in Nat
  <2> HAVE k \in C
  <2>1. k + 1 \in Nat
    OBVIOUS
  <2> QED BY <1>5, <2>1
<1>7. n \in C
  <2> HIDE DEF C
  <2> QED BY <1>2, <1>4, <1>6, NumbersFromBelow
<1>8. Sum(o, 1 .. n) = Least(rest, n * MaxStack)
  <2>1. n <= n
    BY <1>2
  <2> QED BY <1>7, <2>1
<1>9. Least(rest, n * MaxStack) = rest
  BY <1>1, <1>2 DEF Least
<1>10. DOMAIN o = 1 .. n
  BY <1>3
<1> QED BY <1>8, <1>9, <1>10 DEF o, rest

(* A quantity added to the stacks of a kind is what they grow by, however  *)
(* inventoryService.add splits it over rows topped up and rows opened.     *)
THEOREM AddedSum ==
    ASSUME NEW stacks, DOMAIN stacks \subseteq RowIds, \A i \in DOMAIN stacks : stacks[i] \in Int,
           NEW quantity \in Nat
    PROVE  /\ Sum(stacks, DOMAIN stacks) \in Int
           /\ Sum(ToppedUp(stacks, quantity), DOMAIN stacks)
              + Sum(Opened(stacks, quantity), DOMAIN Opened(stacks, quantity))
              = Sum(stacks, DOMAIN stacks) + quantity
<1> DEFINE D == DOMAIN stacks
           e == Extra(stacks, quantity)
           u == ToppedUp(stacks, quantity)
           space == SpaceIn(stacks, D)
<1>1. IsFiniteSet(D)
  BY EconomyAssumption, FS_Subset
<1>2. /\ \A i \in D : e[i] \in Nat
      /\ space \in Nat
      /\ Sum(e, D) = Least(quantity, space)
  BY ExtraSum
<1>3. \A i \in D : u[i] = stacks[i] + e[i]
  BY DEF ToppedUp, Extra
<1>4. Sum(Opened(stacks, quantity), DOMAIN Opened(stacks, quantity)) = Positive(quantity - space)
  BY OpenedSum
<1> HIDE DEF e, u, space
<1>5. \A i \in D : stacks[i] \in Int /\ e[i] \in Int /\ u[i] = stacks[i] + e[i]
  BY <1>2, <1>3
<1>6. Sum(u, D) = Sum(stacks, D) + Sum(e, D)
  BY <1>1, <1>5, SumAdds
<1>7. Sum(stacks, D) \in Int
  BY <1>1, SumType
<1>8. Least(quantity, space) + Positive(quantity - space) = quantity
      /\ Least(quantity, space) \in Int /\ Positive(quantity - space) \in Int
  BY <1>2 DEF Least, Positive
<1>9. Sum(u, D) + Positive(quantity - space) = Sum(stacks, D) + quantity
  BY <1>2, <1>6, <1>7, <1>8
<1> QED BY <1>4, <1>7, <1>9, Zenon DEF u

LEMMA IntervalStep ==
    \A k \in Nat : 1 .. k + 1 = (1 .. k) \cup {k + 1} /\ k + 1 \notin 1 .. k
                   /\ IsFiniteSet(1 .. k)
<1> TAKE k \in Nat
<1> QED BY FS_Interval

(* The stacks opened are the rows inserted, in the order of their ids.     *)
LEMMA RankedSum ==
    ASSUME NEW new \in SUBSET RowIds, NEW opened \in Seq(Int), Cardinality(new) = Len(opened),
           NEW g, \A i \in new : g[i] = opened[Cardinality({j \in new : j <= i})]
    PROVE  /\ \A i \in new : g[i] \in Int
           /\ Sum(g, new) = Sum(opened, DOMAIN opened)
<1> DEFINE Below(n) == {j \in new : j < n}
           size(n) == Cardinality(Below(n))
           C == {n \in Nat : Sum(g, Below(n)) = Sum(opened, 1 .. size(n))}
<1>1. new \in SUBSET Nat /\ IsFiniteSet(new) /\ \A S \in SUBSET new : IsFiniteSet(S)
  BY EconomyAssumption, FS_Subset
<1>2. \A S \in SUBSET new : Cardinality(S) \in Nat /\ Cardinality(S) <= Len(opened)
  BY <1>1, FS_Subset, FS_CardinalityType
<1>3. ASSUME NEW n \in new
      PROVE  /\ n \in Nat /\ Below(n + 1) = Below(n) \cup {n} /\ n \notin Below(n)
             /\ size(n) \in Nat /\ size(n) + 1 \in 1 .. Len(opened)
             /\ g[n] = opened[size(n) + 1] /\ g[n] \in Int
  <2>1. n \in Nat
    BY <1>1
  <2>2. /\ n \notin Below(n) /\ Below(n + 1) = Below(n) \cup {n}
        /\ {j \in new : j <= n} = Below(n + 1)
    BY <1>1, <2>1, IdsBelow
  <2>3. Below(n) \in SUBSET new /\ Below(n + 1) \in SUBSET new
    OBVIOUS
  <2> HIDE DEF Below
  <2>4. Cardinality(Below(n + 1)) = size(n) + 1
    BY <1>1, <2>2, <2>3, FS_AddElement
  <2>5. size(n) \in Nat /\ size(n) + 1 <= Len(opened)
    BY <1>2, <2>3, <2>4
  <2>6. size(n) + 1 \in 1 .. Len(opened)
    BY <2>5
  <2>7. g[n] = opened[size(n) + 1]
    BY <2>2, <2>4
  <2>8. opened[size(n) + 1] \in Int
    BY <2>6
  <2> QED BY <2>1, <2>2, <2>5, <2>6, <2>7, <2>8
<1>4. 0 \in C
  <2>1. Below(0) = {} /\ size(0) = 0
    BY <1>1, IdsBelow, FS_EmptySet
  <2>2. 1 .. 0 = {}
    OBVIOUS
  <2>3. Sum(g, {}) = 0 /\ Sum(opened, {}) = 0
    BY SumEmpty
  <2>4. Sum(g, Below(0)) = Sum(opened, 1 .. size(0))
    BY <2>1, <2>2, <2>3, Zenon
  <2> QED BY <2>4
<1>5. ASSUME NEW n \in Nat, n \in C
      PROVE  n + 1 \in C
  <2>1. CASE n \notin new
    <3>1. Below(n + 1) = Below(n)
      BY <1>1, <2>1, IdsBelow
    <3> HIDE DEF Below
    <3> QED BY <1>5, <3>1
  <2>2. CASE n \in new
    <3> DEFINE k == size(n)
    <3>1. /\ Below(n + 1) = Below(n) \cup {n} /\ n \notin Below(n)
          /\ k \in Nat /\ k + 1 \in 1 .. Len(opened)
          /\ g[n] = opened[k + 1] /\ g[n] \in Int
      BY <1>3, <2>2
    <3>2. IsFiniteSet(Below(n)) /\ \A i \in Below(n) \cup {n} : g[i] \in Int
      BY <1>1, <1>3, <2>2
    <3>3. Sum(g, Below(n)) = Sum(opened, 1 .. k)
      BY <1>5
    <3> HIDE DEF Below, C
    <3>4. size(n + 1) = k + 1
      BY <3>1, <3>2, FS_AddElement
    <3>5. Sum(g, Below(n) \cup {n}) = Sum(g, Below(n)) + g[n]
      BY <3>1, <3>2, SumStep
    <3> HIDE DEF k
    <3>6. /\ 1 .. k + 1 = (1 .. k) \cup {k + 1} /\ k + 1 \notin 1 .. k /\ IsFiniteSet(1 .. k)
      BY <3>1, IntervalStep
    <3>b. \A j \in (1 .. k) \cup {k + 1} : opened[j] \in Int
      BY <3>1
    <3>7. Sum(opened, (1 .. k) \cup {k + 1}) = Sum(opened, 1 .. k) + opened[k + 1]
      <4> DEFINE S == 1 .. k
                 z == k + 1
      <4>1. IsFiniteSet(S) /\ z \notin S /\ \A j \in S \cup {z} : opened[j] \in Int
        BY <3>6, <3>b
      <4> HIDE DEF S, z
      <4>2. Sum(opened, S \cup {z}) = Sum(opened, S) + opened[z]
        BY <4>1, SumStep
      <4> QED BY <4>2 DEF S, z
    <3>8. Sum(g, Below(n + 1)) = Sum(opened, 1 .. size(n + 1))
      BY <3>1, <3>3, <3>4, <3>5, <3>6, <3>7, Zenon
    <3> QED BY <3>8 DEF C
  <2> QED BY <2>1, <2>2
<1>6. PICK m \in Nat : \A i \in new : i < m
  BY <1>1, IdsBounded
<1>7. Below(m) = new
  BY <1>6
<1>8. m \in C
  <2> HIDE DEF C
  <2> QED BY <1>4, <1>5, NumbersFromBelow
<1>9. Sum(g, new) = Sum(opened, 1 .. Len(opened))
  <2> HIDE DEF Below
  <2> QED BY <1>7, <1>8
<1>10. DOMAIN opened = 1 .. Len(opened)
  OBVIOUS
<1> QED BY <1>3, <1>9, <1>10

----------------------------------------------------------------------------
(* The steps of a transaction.                                             *)

(* What a request has composed from the rows as they are.                  *)
Composed(t) ==
    /\ Sound(t, user, highest, day)
    /\ \A i \in DOMAIN t.stacks : IsRow(i) /\ rows[i].kind = t.kind

LEMMA BeginKeeps ==
    ASSUME EconomyInv, NEW a \in Actors, NEW t, Begin(a, t), Composed(t)
    PROVE  EconomyInv'
<1> DEFINE seen == [c \in DOMAIN t.columns |-> user[c]]
           n == [t EXCEPT !.seen = seen]
<1>1. /\ UNCHANGED <<estate, day, history>>
      /\ started' \in Nat
      /\ transaction' = [transaction EXCEPT ![a] = n]
  BY DEF Begin, EconomyInv, Typed
<1>2. /\ Shaped(n)
      /\ \A f \in Fields \ {"seen"} : n[f] = t[f]
      /\ n.seen = seen
  <2>1. t = [f \in Fields |-> t[f]]
    BY DEF Composed, Sound, Shaped
  <2>. HIDE DEF seen
  <2> QED BY <2>1 DEF Shaped, Fields
<1>3. /\ n.columns = t.columns /\ n.account = t.account /\ n.kind = t.kind
      /\ n.stacks = t.stacks /\ n.saved = t.saved /\ n.updated = t.updated
      /\ n.removed = t.removed /\ n.opened = t.opened /\ n.building = t.building
      /\ n.found = t.found /\ n.born = t.born /\ n.laid = t.laid
      /\ n.recovered = t.recovered
  BY <1>2 DEF Fields
<1>. HIDE DEF n
<1>4. Sound(n, n.seen, highest, day)
  <2>1. ColumnsFit(n.columns, n.seen, highest, day)
    BY <1>2, <1>3 DEF Composed, Sound, ColumnsFit
  <2>2. \A c : Change(n.columns, n.seen, c) = Change(t.columns, user, c)
    BY <1>2, <1>3 DEF Change
  <2>3. Entered(n.columns, n.seen, n.account)
    BY <1>3, <2>2 DEF Composed, Sound, Entered
  <2>4. After(n) = After(t) /\ Whole(t) /\ Whole(n) /\ Moved(n) = Moved(t)
    BY <1>3 DEF After, Whole, Moved, Composed, Sound, GoodsEntered
  <2>5. GoodsEntered(n)
    BY <1>3, <2>4 DEF Composed, Sound, GoodsEntered
  <2> QED BY <1>2, <1>3, <2>1, <2>3, <2>5 DEF Composed, Sound
<1>5. About(n, rows)
  BY <1>3 DEF Composed, About, OfKind, IsRow
<1>6. ASSUME NEW b \in Actors, transaction[b] # Idle
      PROVE  Agree(n, transaction[b]) /\ Agree(transaction[b], n)
  <2>1. About(transaction[b], rows)
    BY <1>6 DEF EconomyInv, TransactionsFit
  <2>2. \A i \in DOMAIN t.stacks : IsRow(i) /\ rows[i].kind = t.kind
    BY DEF Composed
  <2> QED BY <1>3, <2>1, <2>2 DEF About, OfKind, IsRow, Agree
<1>7. /\ transaction'[a] = n
      /\ \A b \in Actors \ {a} : transaction'[b] = transaction[b]
      /\ transaction' = [b \in Actors |-> transaction'[b]]
  BY <1>1 DEF EconomyInv, Typed
<1>8. TransactionsFit'
  <2>1. rows' = rows /\ highest' = highest /\ day' = day
    BY <1>1 DEF estate, history
  <2>2. ASSUME NEW b \in Actors, transaction'[b] # Idle
        PROVE  /\ Sound(transaction'[b], transaction'[b].seen, highest, day)
               /\ About(transaction'[b], rows)
               /\ \A c \in Actors : transaction'[c] # Idle => Agree(transaction'[b], transaction'[c])
    <3>1. ASSUME NEW c \in Actors, transaction'[c] # Idle
          PROVE  Agree(transaction'[b], transaction'[c])
      <4>1. CASE b = a /\ c = a
        BY <1>7, <4>1 DEF Agree
      <4>2. CASE b = a /\ c # a
        BY <1>6, <1>7, <3>1, <4>2
      <4>3. CASE b # a /\ c = a
        BY <1>6, <1>7, <2>2, <4>3
      <4>4. CASE b # a /\ c # a
        BY <1>7, <2>2, <3>1, <4>4 DEF EconomyInv, TransactionsFit
      <4> QED BY <4>1, <4>2, <4>3, <4>4
    <3>2. CASE b = a
      BY <1>4, <1>5, <1>7, <3>1, <3>2
    <3>3. CASE b # a
      BY <1>7, <2>2, <3>1, <3>3 DEF EconomyInv, TransactionsFit
    <3> QED BY <3>2, <3>3
  <2> QED BY <2>1, <2>2 DEF TransactionsFit
<1>9. Typed'
  BY <1>1, <1>7 DEF EconomyInv, Typed, estate, history
<1> QED BY <1>1, <1>8, <1>9 DEF EconomyInv, estate, history

(* The columns of a transaction fit for whoever has got further.           *)
LEMMA SoundLater ==
    ASSUME NEW t, NEW seen, NEW low \in Nat \ {0}, NEW high \in Nat \ {0}, low <= high,
           NEW today \in Nat, NEW later \in Nat, today <= later,
           Sound(t, seen, low, today)
    PROVE  Sound(t, seen, high, later)
<1>1. \A c \in DOMAIN t.columns : Fits(c, t.columns[c], high)
  BY FitsGrow DEF Sound, ColumnsFit
<1>2. "spinLastTime" \in DOMAIN t.columns => t.columns["spinLastTime"] <= later
  BY <1>1 DEF Sound, ColumnsFit, Fits
<1> QED BY <1>1, <1>2 DEF Sound, ColumnsFit

(* The users row after a commit.                                           *)
LEMMA CommitUser ==
    ASSUME EconomyInv, NEW a \in Actors, Commit(a)
    PROVE  /\ highest' \in Nat \ {0} /\ highest <= highest'
           /\ UserFits(user', highest')
           /\ \A c \in Columns :
                 user'[c] = IF c \in DOMAIN transaction[a].columns
                            THEN transaction[a].columns[c] ELSE user[c]
<1> DEFINE t == transaction[a]
<1>1. /\ user' = Merge(user, t.columns)
      /\ highest' = IF user'["level"] > highest THEN user'["level"] ELSE highest
  BY DEF Commit
<1>2. /\ user \in [Columns -> Int] /\ highest \in Nat \ {0}
      /\ \A c \in Columns : Fits(c, user[c], highest)
  BY DEF EconomyInv, UserFits, Typed
<1>3. /\ DOMAIN t.columns \subseteq Columns
      /\ \A c \in DOMAIN t.columns : Fits(c, t.columns[c], highest)
  BY DEF Commit, EconomyInv, TransactionsFit, Sound, ColumnsFit
<1>4. /\ user' = [c \in Columns |-> IF c \in DOMAIN t.columns THEN t.columns[c] ELSE user[c]]
  BY <1>1, <1>2, <1>3 DEF Merge
<1>. HIDE DEF t
<1>5. \A c \in Columns : Fits(c, user'[c], highest)
  BY <1>2, <1>3, <1>4
<1>6. user'["level"] \in Int
  BY <1>5 DEF Fits, Columns
<1>7. /\ highest' \in Nat \ {0} /\ highest <= highest' /\ user'["level"] <= highest'
  BY <1>1, <1>2, <1>6
<1>8. \A c \in Columns : Fits(c, user'[c], highest')
  BY <1>2, <1>5, <1>7, FitsGrow
<1>9. user' \in [Columns -> Int]
  BY <1>4, <1>5 DEF Fits
<1> QED BY <1>4, <1>7, <1>8, <1>9 DEF UserFits, t

(* The inventories after a commit: bounded stacks, each of the kind the    *)
(* other transactions take it for.                                         *)
LEMMA CommitRows ==
    ASSUME EconomyInv, NEW a \in Actors, Commit(a), NEW i \in RowIds
    PROVE  /\ RowFits(rows'[i])
           /\ \A b \in Actors : transaction[b] # Idle /\ i \in DOMAIN transaction[b].stacks
                                => OfKind(rows'[i], transaction[b].kind)
<1> DEFINE t == transaction[a]
           new == Fresh(Len(t.opened))
           nth == Cardinality({j \in new : j <= i})
<1>1. /\ rows'[i] = Written(t, i)
      /\ Cardinality(new) = Len(t.opened)
      /\ t # Idle
  BY DEF Commit
<1>2. GoodsFit(t.kind, t.stacks, t.saved, t.updated, t.removed, t.opened)
  BY <1>1 DEF EconomyInv, TransactionsFit, Sound
<1>3. RowFits(rows[i])
  BY DEF EconomyInv
<1>4. ASSUME NEW b \in Actors, transaction[b] # Idle, i \in DOMAIN transaction[b].stacks
      PROVE  /\ OfKind(rows[i], transaction[b].kind)
             /\ i \in DOMAIN t.stacks => transaction[b].kind = t.kind
  BY <1>1, <1>4 DEF EconomyInv, TransactionsFit, About, Agree
<1>5. ASSUME t.kind \in Kinds, NEW q, Holds(t.kind, q)
      PROVE  LET r == [kind |-> t.kind, quantity |-> q]
             IN  RowFits(r) /\ \A k : k = t.kind => OfKind(r, k)
  <2> DEFINE r == [kind |-> t.kind, quantity |-> q]
  <2>1. r \in Inventory
    BY <1>5 DEF Inventory, Holds
  <2>2. r.kind = t.kind /\ r.quantity = q
    OBVIOUS
  <2>. HIDE DEF r
  <2>3. RowFits(r) /\ r # NoRow
    BY <1>5, <2>1, <2>2, MarksDiffer DEF RowFits
  <2>4. \A k : k = t.kind => OfKind(r, k)
    BY <2>2, <2>3 DEF OfKind
  <2> QED BY <2>3, <2>4 DEF r
<1>t. i \in DOMAIN t.stacks => i \notin new
  BY <1>1, <1>4 DEF Fresh, OfKind
<1>s. /\ i \in t.removed => /\ i \in DOMAIN t.stacks
                            /\ i \notin DOMAIN t.saved /\ i \notin DOMAIN t.updated
      /\ i \in DOMAIN t.saved => i \in DOMAIN t.stacks /\ i \notin DOMAIN t.updated
      /\ i \in DOMAIN t.updated => i \in DOMAIN t.stacks
  BY <1>2 DEF GoodsFit
<1>6. CASE i \in t.removed
  <2>1. rows'[i] = IF IsRow(i) THEN Gone ELSE rows[i]
    BY <1>1, <1>s, <1>t, <1>6 DEF Written
  <2> QED BY <1>3, <1>4, <2>1, MarksDiffer DEF RowFits, OfKind
<1>7. CASE i \notin t.removed /\ i \in DOMAIN t.saved
  <2>1. rows'[i] = [kind |-> t.kind, quantity |-> t.saved[i]]
    BY <1>1, <1>s, <1>t, <1>7 DEF Written
  <2>2. i \in DOMAIN t.stacks /\ t.kind \in Kinds /\ Holds(t.kind, t.saved[i])
    BY <1>2, <1>7 DEF GoodsFit
  <2> QED BY <1>4, <1>5, <2>1, <2>2
<1>8. CASE /\ i \notin t.removed /\ i \notin DOMAIN t.saved
           /\ i \in DOMAIN t.updated /\ IsRow(i)
  <2>1. rows'[i] = [rows[i] EXCEPT !.quantity = t.updated[i]]
    BY <1>1, <1>s, <1>t, <1>8 DEF Written
  <2>2. i \in DOMAIN t.stacks /\ t.kind \in Kinds /\ Holds(t.kind, t.updated[i])
    BY <1>2, <1>8 DEF GoodsFit
  <2>3. rows[i] \in Inventory
    BY <1>3, <1>8 DEF RowFits, IsRow
  <2>4. rows[i].kind = t.kind
    BY <1>1, <1>8, <2>2 DEF EconomyInv, TransactionsFit, About, OfKind, IsRow
  <2>5. rows'[i] = [kind |-> t.kind, quantity |-> t.updated[i]]
    BY <2>1, <2>3, <2>4 DEF Inventory
  <2> QED BY <1>4, <1>5, <2>2, <2>5
<1>9. CASE /\ i \notin t.removed /\ i \notin DOMAIN t.saved
           /\ ~(i \in DOMAIN t.updated /\ IsRow(i)) /\ i \in new
  <2>1. rows'[i] = [kind |-> t.kind, quantity |-> t.opened[nth]]
    BY <1>1, <1>9 DEF Written
  <2>2. nth \in 1 .. Len(t.opened)
    <3> DEFINE upto == {j \in new : j <= i}
    <3>1. IsFiniteSet(new)
      BY EconomyAssumption, FS_Subset DEF Fresh
    <3>2. IsFiniteSet(upto) /\ Cardinality(upto) \in Nat /\ Cardinality(upto) <= Cardinality(new)
      <4>1. upto \subseteq new
        OBVIOUS
      <4> QED BY <3>1, <4>1, FS_Subset, FS_CardinalityType
    <3>3. i \in upto
      BY <1>9, EconomyAssumption
    <3>4. Cardinality(upto) # 0
      BY <3>2, <3>3, FS_EmptySet
    <3>5. Len(t.opened) \in Nat
      BY <1>2 DEF GoodsFit
    <3> QED BY <1>1, <3>2, <3>4, <3>5
  <2>3. nth \in DOMAIN t.opened
    BY <1>2, <2>2 DEF GoodsFit
  <2>4. t.kind \in Kinds /\ Holds(t.kind, t.opened[nth])
    <3>1. t.opened # <<>>
      BY <2>3
    <3> QED BY <1>2, <2>3, <3>1 DEF GoodsFit
  <2>5. rows[i] = NoRow
    BY <1>9 DEF Fresh
  <2>6. ~\E b \in Actors : transaction[b] # Idle /\ i \in DOMAIN transaction[b].stacks
    BY <1>4, <2>5 DEF OfKind
  <2> QED BY <1>5, <2>1, <2>4, <2>6
<1>10. CASE /\ i \notin t.removed /\ i \notin DOMAIN t.saved
            /\ ~(i \in DOMAIN t.updated /\ IsRow(i)) /\ i \notin new
  BY <1>1, <1>3, <1>4, <1>10 DEF Written
<1> QED BY <1>6, <1>7, <1>8, <1>9, <1>10

(* The building after a commit.                                            *)
LEMMA CommitBuilding ==
    ASSUME EconomyInv, NEW a \in Actors, Commit(a)
    PROVE  /\ building' \in BuildingInfo \cup {NoBuilding}
           /\ animals' \in Nat
           /\ Honest(building', animals', books', conflicts')
<1> DEFINE t == transaction[a]
           upgrade == Entry(t.account, "upgrade")
<1>1. /\ t # Idle
      /\ building' = IF t.building = Idle THEN building ELSE t.building
      /\ animals' = animals + t.born
      /\ conflicts' = conflicts \cup Outdated(t)
      /\ books' = [b \in DOMAIN books |-> books[b] + Entry(t.account, b)]
  BY DEF Commit, Entry
<1>2. BuildingFits(t.building, t.found, t.born, t.account)
  BY <1>1 DEF EconomyInv, TransactionsFit, Sound
<1>3. /\ building \in BuildingInfo \cup {NoBuilding} /\ animals \in Nat
      /\ Honest(building, animals, books, conflicts)
      /\ books'["upgrade"] = books["upgrade"] + upgrade
  BY <1>1 DEF EconomyInv, Typed, Books
<1>4. conflicts \subseteq conflicts' /\
      (t.building # Idle /\ building # t.found => "building" \in conflicts')
  BY <1>1 DEF Outdated
<1>5. building' \in BuildingInfo \cup {NoBuilding} /\ animals' \in Nat
  BY <1>1, <1>2, <1>3 DEF BuildingFits, Built
<1>6. ASSUME "building" \notin conflicts', t.building = Idle
      PROVE  Honest(building', animals', books', conflicts')
  <2>1. building' = building /\ t.born = 0 /\ upgrade = 0 /\ "building" \notin conflicts
    BY <1>1, <1>2, <1>4, <1>6 DEF BuildingFits
  <2>2. books["upgrade"] \in Int
    BY <1>3, <2>1, MarksDiffer DEF Honest, BuildingInfo
  <2>3. books'["upgrade"] = books["upgrade"] /\ animals' = animals
    BY <1>1, <1>3, <2>1, <2>2
  <2> QED BY <1>3, <2>1, <2>3 DEF Honest
<1>7. ASSUME "building" \notin conflicts', t.building # Idle
      PROVE  Honest(building', animals', books', conflicts')
  <2>1. /\ building' = t.building /\ building = t.found /\ "building" \notin conflicts
        /\ t.building \in BuildingInfo /\ t.building # NoBuilding
        /\ Built(t.building, building, t.born, upgrade)
    BY <1>1, <1>2, <1>4, <1>7, MarksDiffer DEF BuildingFits
  <2>2. /\ Len(Capacities) \in Nat \ {0}
        /\ DOMAIN Capacities = 1 .. Len(Capacities)
        /\ \A i \in DOMAIN Capacities : Capacities[i] \in Nat
        /\ \A i, j \in DOMAIN Capacities : i <= j => Capacities[i] <= Capacities[j]
    BY EconomyAssumption
  <2>3. CASE building = NoBuilding
    <3>1. t.building = [currentUpgrade |-> 1, occupancy |-> 0] /\ t.born = 0 /\ upgrade = 1
      BY <2>1, <2>3, MarksDiffer DEF Built
    <3>2. animals = 0 /\ books["upgrade"] = 0
      BY <1>3, <2>1, <2>3 DEF Honest
    <3>3. animals' = 0 /\ books'["upgrade"] = 1
      BY <1>1, <1>3, <3>1, <3>2
    <3> QED BY <2>1, <3>1, <3>3 DEF Honest
  <2>4. CASE building # NoBuilding
    <3> DEFINE level == building.currentUpgrade
    <3>1. /\ building \in BuildingInfo /\ level \in 1 .. Len(Capacities)
          /\ building.occupancy \in Nat
      BY <1>3, <2>4 DEF BuildingInfo
    <3>2. /\ building.occupancy = animals /\ level = books["upgrade"]
          /\ animals > 0 => animals <= Capacities[Least(level + 1, Len(Capacities))]
      BY <1>3, <2>1, <2>4 DEF Honest
    <3>3. /\ t.building.currentUpgrade = level + upgrade
          /\ t.building.occupancy = animals + t.born
          /\ \/ /\ t.born = 1 /\ upgrade = 0
                /\ level + 1 \in DOMAIN Capacities
                /\ animals < Capacities[level + 1]
             \/ t.born = 0 /\ upgrade = 1
      BY <2>1, <2>4, <3>2 DEF Built
    <3>4. t.building.currentUpgrade \in 1 .. Len(Capacities)
      BY <2>1 DEF BuildingInfo
    <3>. HIDE DEF level, upgrade
    <3>5. CASE t.born = 1 /\ upgrade = 0
      <4>1. /\ level + 1 \in DOMAIN Capacities /\ animals < Capacities[level + 1]
            /\ t.building.currentUpgrade = level
            /\ Least(level + 1, Len(Capacities)) = level + 1
        BY <2>2, <3>1, <3>3, <3>5 DEF Least
      <4>2. animals' = animals + 1 /\ Capacities[level + 1] \in Nat
        BY <1>1, <2>2, <3>5, <4>1
      <4>3. animals' <= Capacities[Least(level + 1, Len(Capacities))]
        BY <1>3, <4>1, <4>2
      <4>4. t.building.occupancy = animals' /\ books'["upgrade"] = level
        BY <1>1, <1>3, <3>1, <3>2, <3>3, <3>5
      <4> QED BY <2>1, <4>1, <4>3, <4>4 DEF Honest
    <3>6. CASE t.born = 0 /\ upgrade = 1
      <4>1. /\ t.building.currentUpgrade = level + 1
            /\ animals' = animals /\ t.building.occupancy = animals'
            /\ books'["upgrade"] = level + 1
        BY <1>1, <1>3, <3>1, <3>2, <3>3, <3>6
      <4>2. /\ Least(level + 1, Len(Capacities)) \in DOMAIN Capacities
            /\ Least((level + 1) + 1, Len(Capacities)) \in DOMAIN Capacities
            /\ Least(level + 1, Len(Capacities)) <= Least((level + 1) + 1, Len(Capacities))
        BY <2>2, <3>1, <3>4, <4>1 DEF Least
      <4> DEFINE room == Capacities[Least(level + 1, Len(Capacities))]
                 next == Capacities[Least((level + 1) + 1, Len(Capacities))]
      <4>3. room \in Nat /\ next \in Nat /\ room <= next
        BY <2>2, <4>2
      <4>4. animals > 0 => animals <= room
        BY <3>2
      <4>5. animals' > 0 => animals' <= next
        <5>. HIDE DEF room, next
        <5> QED BY <1>3, <4>1, <4>3, <4>4
      <4> QED BY <2>1, <4>1, <4>5 DEF Honest
    <3> QED BY <3>3, <3>5, <3>6
  <2> QED BY <2>3, <2>4
<1>8. "building" \in conflicts' => Honest(building', animals', books', conflicts')
  BY DEF Honest
<1> QED BY <1>5, <1>6, <1>7, <1>8

(* The books after a commit.                                               *)
LEMMA CommitBooks ==
    ASSUME EconomyInv, NEW a \in Actors, Commit(a)
    PROVE  /\ DOMAIN books' = Books
           /\ Spun(user', books', conflicts', day')
           /\ Booked(user', books', conflicts')
<1> DEFINE t == transaction[a]
           change(c) == Change(t.columns, t.seen, c)
           entry(b)  == Entry(t.account, b)
<1>1. /\ t # Idle /\ day' = day
      /\ conflicts' = conflicts \cup Outdated(t)
      /\ books' = [b \in DOMAIN books |-> books[b] + entry(b)]
  BY DEF Commit, Entry
<1>2. /\ ColumnsFit(t.columns, t.seen, highest, day)
      /\ Entered(t.columns, t.seen, t.account)
  BY <1>1 DEF EconomyInv, TransactionsFit, Sound
<1>3. /\ user \in [Columns -> Int] /\ DOMAIN books = Books
      /\ Spun(user, books, conflicts, day) /\ Booked(user, books, conflicts)
  BY DEF EconomyInv, UserFits, Typed
<1>4. DOMAIN books' = Books /\ \A b \in Books : books'[b] = books[b] + entry(b)
  BY <1>1, <1>3
<1>5. ASSUME NEW c \in Columns
      PROVE  /\ user[c] \in Int /\ user'[c] \in Int /\ change(c) \in Int
             /\ c \notin conflicts' => c \notin conflicts /\ user'[c] = user[c] + change(c)
  <2>1. user'[c] = IF c \in DOMAIN t.columns THEN t.columns[c] ELSE user[c]
    BY CommitUser
  <2>2. c \in DOMAIN t.columns => t.columns[c] \in Int /\ t.seen[c] \in Int
    BY <1>2 DEF ColumnsFit, Fits
  <2>3. c \notin conflicts' => c \notin conflicts /\ (c \in DOMAIN t.columns => user[c] = t.seen[c])
    BY <1>1 DEF Outdated
  <2>4. user[c] \in Int
    BY <1>3
  <2>5. user'[c] \in Int /\ change(c) \in Int
    BY <2>1, <2>2, <2>4 DEF Change
  <2>6. CASE c \in DOMAIN t.columns
    <3>1. change(c) = t.columns[c] - t.seen[c] /\ user'[c] = t.columns[c]
      BY <2>1, <2>6 DEF Change
    <3>. HIDE DEF t, change
    <3> QED BY <2>2, <2>3, <2>4, <2>5, <2>6, <3>1
  <2>7. CASE c \notin DOMAIN t.columns
    <3>1. change(c) = 0 /\ user'[c] = user[c]
      BY <2>1, <2>7 DEF Change
    <3>. HIDE DEF t, change
    <3> QED BY <2>3, <2>4, <2>5, <3>1
  <2> QED BY <2>6, <2>7
<1>6. /\ entry("golds") = change("golds") /\ entry("tokens") = change("tokens")
      /\ entry("energy") = change("energy") * RegenTime + change("energyRegenTime")
      /\ entry("spins") \in Int /\ entry("spins") <= change("spinLastTime")
  BY <1>2 DEF Entered
<1>7. {"golds", "tokens", "energy", "energyRegenTime", "spinLastTime"} \subseteq Columns
      /\ {"golds", "tokens", "energy", "spins"} \subseteq Books
  BY DEF Columns, Books
<1>8. user'["spinLastTime"] <= day
  <2>1. user'["spinLastTime"] = IF "spinLastTime" \in DOMAIN t.columns
                                THEN t.columns["spinLastTime"] ELSE user["spinLastTime"]
    BY <1>7, CommitUser
  <2> QED BY <1>2, <1>3, <2>1 DEF ColumnsFit, Spun
<1>. HIDE DEF t, change, entry
<1>9. Spun(user', books', conflicts', day')
  <2>1. books["spins"] \in Int /\ books'["spins"] = books["spins"] + entry("spins")
    BY <1>3, <1>4, <1>7 DEF Spun
  <2>2. "spinLastTime" \notin conflicts' => books["spins"] <= user["spinLastTime"] + 1
    BY <1>3, <1>5, <1>7 DEF Spun
  <2>3. "spinLastTime" \notin conflicts' => books'["spins"] <= user'["spinLastTime"] + 1
    <3>1. "spinLastTime" \in Columns
      BY <1>7
    <3> QED BY <1>5, <1>6, <2>1, <2>2, <3>1
  <2>4. books'["spins"] \in Int
    BY <1>6, <2>1
  <2> QED BY <1>1, <1>8, <2>3, <2>4 DEF Spun
<1>10. Booked(user', books', conflicts')
  <2>1. ASSUME NEW b \in {"golds", "tokens"}, b \notin conflicts'
        PROVE  user'[b] = books'[b]
    <3>1. user[b] = books[b]
      BY <1>3, <1>5, <1>7, <2>1 DEF Booked
    <3>2. user'[b] = user[b] + change(b) /\ books'[b] = books[b] + entry(b) /\ entry(b) = change(b)
      BY <1>4, <1>5, <1>6, <1>7, <2>1
    <3> QED BY <3>1, <3>2
  <2>2. ASSUME "energy" \notin conflicts', "energyRegenTime" \notin conflicts'
        PROVE  user'["energy"] * RegenTime + user'["energyRegenTime"] = books'["energy"]
    <3>1. user["energy"] * RegenTime + user["energyRegenTime"] = books["energy"]
      BY <1>3, <1>5, <1>7, <2>2 DEF Booked
    <3>2. /\ user'["energy"] = user["energy"] + change("energy")
          /\ user'["energyRegenTime"] = user["energyRegenTime"] + change("energyRegenTime")
          /\ user["energy"] \in Int /\ change("energy") \in Int
          /\ user["energyRegenTime"] \in Int /\ change("energyRegenTime") \in Int
      BY <1>5, <1>7, <2>2
    <3>3. books'["energy"] = books["energy"]
                             + (change("energy") * RegenTime + change("energyRegenTime"))
      BY <1>4, <1>6, <1>7
    <3>4. RegenTime \in Nat
      BY RulesAssumption
    <3>5. (user["energy"] + change("energy")) * RegenTime
          = user["energy"] * RegenTime + change("energy") * RegenTime
      BY <3>2, <3>4, SMT
    <3>6. user["energy"] * RegenTime \in Int /\ change("energy") * RegenTime \in Int
      BY <3>2, <3>4, SMT
    <3> QED BY <3>1, <3>2, <3>3, <3>5, <3>6
  <2> QED BY <2>1, <2>2 DEF Booked
<1> QED BY <1>4, <1>9, <1>10

(* Sums of rows, and what a transaction moves, are integers.               *)
LEMMA StockType ==
    ASSUME NEW inventories, \A i \in RowIds : RowFits(inventories[i]), NEW k
    PROVE  Sum(Quantities(inventories), InRows(inventories, k)) \in Int
<1> DEFINE K == InRows(inventories, k)
           q == Quantities(inventories)
<1>1. \A i \in K : q[i] \in Int
  BY DEF RowFits, InRows, Inventory, Quantities
<1>2. IsFiniteSet(K)
  BY EconomyAssumption, FS_Subset DEF InRows
<1>. HIDE DEF K, q
<1>3. Sum(q, K) \in Int
  BY <1>1, <1>2, SumType
<1> QED BY <1>3 DEF K, q

LEMMA MovedType ==
    ASSUME NEW t, GoodsFit(t.kind, t.stacks, t.saved, t.updated, t.removed, t.opened),
           Whole(t)
    PROVE  Moved(t) \in Int
<1> DEFINE D == DOMAIN t.stacks
           O == DOMAIN t.opened
<1>1. IsFiniteSet(D)
  BY EconomyAssumption, FS_Subset DEF GoodsFit
<1>2. t.opened \in Seq(Int)
  BY DEF GoodsFit
<1>3. O = 1 .. Len(t.opened) /\ \A k \in O : t.opened[k] \in Int
  BY <1>2
<1>4. IsFiniteSet(O)
  BY <1>3, FS_Interval
<1>5. \A i \in D : After(t)[i] \in Int
  BY DEF After, GoodsFit, Holds, Whole
<1>6. \A i \in D : t.stacks[i] \in Int
  BY DEF Whole
<1>. HIDE DEF D, O
<1>7. Sum(After(t), D) \in Int
  BY <1>1, <1>5, SumType
<1>8. Sum(t.stacks, D) \in Int
  BY <1>1, <1>6, SumType
<1>9. Sum(t.opened, O) \in Int
  BY <1>3, <1>4, SumType
<1> QED BY <1>7, <1>8, <1>9 DEF Moved, D, O

(* The inventories after a commit, summed up: of the other kinds nothing   *)
(* has changed, and of its own, unless its reads were outdated, what the   *)
(* transaction moves.                                                      *)
LEMMA CommitOtherKinds ==
    ASSUME EconomyInv, NEW a \in Actors, Commit(a), NEW k, k # transaction[a].kind
    PROVE  /\ InRows(rows', k) = InRows(rows, k)
           /\ Sum(Quantities(rows'), InRows(rows', k)) = Sum(Quantities(rows), InRows(rows, k))
<1> DEFINE t == transaction[a]
           new == Fresh(Len(t.opened))
<1>1. /\ rows' = [i \in RowIds |-> Written(t, i)] /\ t # Idle
  BY DEF Commit
<1>2. GoodsFit(t.kind, t.stacks, t.saved, t.updated, t.removed, t.opened) /\ About(t, rows)
  BY <1>1 DEF EconomyInv, TransactionsFit, Sound
<1>3. ASSUME NEW i \in RowIds
      PROVE  \/ rows'[i] = rows[i]
             \/ /\ i \notin InRows(rows, k)
                /\ \/ rows'[i] = Gone
                   \/ rows'[i].kind = t.kind
  <2>1. rows'[i] = Written(t, i)
    BY <1>1
  <2>2. i \in DOMAIN t.stacks => OfKind(rows[i], t.kind)
    BY <1>2 DEF About
  <2>3. i \in t.removed \cup DOMAIN t.saved \cup DOMAIN t.updated => i \in DOMAIN t.stacks
    BY <1>2 DEF GoodsFit
  <2>4. i \in DOMAIN t.stacks \/ i \in new => i \notin InRows(rows, k)
    BY <2>2 DEF OfKind, InRows, Fresh
  <2>. HIDE DEF t, new
  <2>5. \/ rows'[i] = rows[i]
        \/ i \in DOMAIN t.stacks /\ rows'[i] = Gone
        \/ i \in DOMAIN t.stacks /\ rows'[i].kind = t.kind
        \/ i \in new /\ rows'[i].kind = t.kind
    <3>1. CASE i \in t.removed
      <4>1. i \notin DOMAIN t.saved /\ i \notin DOMAIN t.updated /\ i \notin new
        BY <1>2, <2>2, <2>3, <3>1 DEF GoodsFit, OfKind, Fresh, new
      <4> QED BY <2>1, <2>3, <3>1, <4>1 DEF Written, new
    <3>2. CASE i \notin t.removed /\ i \in DOMAIN t.saved
      <4>1. rows'[i] = [kind |-> t.kind, quantity |-> t.saved[i]]
        BY <1>2, <2>1, <3>2, <2>2, <2>3 DEF Written, GoodsFit, Fresh, OfKind
      <4> QED BY <2>3, <3>2, <4>1
    <3>3. CASE /\ i \notin t.removed /\ i \notin DOMAIN t.saved
               /\ i \in DOMAIN t.updated /\ IsRow(i)
      <4>1. rows'[i] = [rows[i] EXCEPT !.quantity = t.updated[i]]
        BY <2>1, <3>3, <2>2, <2>3 DEF Written, Fresh, OfKind
      <4>2. rows[i] \in Inventory
        BY <3>3 DEF EconomyInv, RowFits, IsRow
      <4>3. rows'[i].kind = rows[i].kind
        BY <4>1, <4>2 DEF Inventory
      <4>4. rows[i].kind = t.kind
        BY <2>2, <2>3, <3>3 DEF OfKind, IsRow
      <4> QED BY <2>3, <3>3, <4>3, <4>4
    <3>4. CASE /\ i \notin t.removed /\ i \notin DOMAIN t.saved
               /\ ~(i \in DOMAIN t.updated /\ IsRow(i)) /\ i \in new
      <4>1. rows'[i].kind = t.kind
        BY <2>1, <3>4 DEF Written, new
      <4> QED BY <3>4, <4>1
    <3>5. CASE /\ i \notin t.removed /\ i \notin DOMAIN t.saved
               /\ ~(i \in DOMAIN t.updated /\ IsRow(i)) /\ i \notin new
      BY <2>1, <3>5 DEF Written, new
    <3> QED BY <3>1, <3>2, <3>3, <3>4, <3>5
  <2> QED BY <2>4, <2>5
<1>4. InRows(rows', k) = InRows(rows, k)
  <2>1. \A i \in RowIds : i \in InRows(rows', k) <=> i \in InRows(rows, k)
    BY <1>3 DEF InRows
  <2> QED BY <2>1 DEF InRows
<1>5. \A i \in InRows(rows, k) : Quantities(rows')[i] = Quantities(rows)[i]
  BY <1>3 DEF InRows, Quantities
<1> QED BY <1>4, <1>5, SumSame

LEMMA CommitItsKind ==
    ASSUME EconomyInv, NEW a \in Actors, Commit(a), transaction[a].kind \notin conflicts',
           transaction[a].kind \in Kinds
    PROVE  Sum(Quantities(rows'), InRows(rows', transaction[a].kind))
           = Sum(Quantities(rows), InRows(rows, transaction[a].kind)) + Moved(transaction[a])
<1> DEFINE t   == transaction[a]
           k   == t.kind
           D   == DOMAIN t.stacks
           new == Fresh(Len(t.opened))
           K   == InRows(rows, k)
           L   == InRows(rows', k)
           q   == Quantities(rows)
           p   == Quantities(rows')
           kept == D \ t.removed
<1>1. /\ rows' = [i \in RowIds |-> Written(t, i)] /\ t # Idle
      /\ Cardinality(new) = Len(t.opened)
      /\ conflicts' = conflicts \cup Outdated(t)
  BY DEF Commit
<1>2. /\ GoodsFit(t.kind, t.stacks, t.saved, t.updated, t.removed, t.opened)
      /\ Whole(t)
  BY <1>1 DEF EconomyInv, TransactionsFit, Sound, GoodsEntered
<1>3. \A i \in D : rows[i] = [kind |-> k, quantity |-> t.stacks[i]]
  <2>1. k \notin Outdated(t)
    BY <1>1
  <2> QED BY <2>1 DEF Outdated
<1>4. D \subseteq RowIds /\ new \subseteq RowIds /\ K \subseteq RowIds
  BY <1>2 DEF GoodsFit, Fresh, InRows
<1>5. /\ DOMAIN t.saved \subseteq D /\ DOMAIN t.updated \subseteq D /\ t.removed \subseteq D
      /\ DOMAIN t.saved \cap DOMAIN t.updated = {}
      /\ t.removed \cap (DOMAIN t.saved \cup DOMAIN t.updated) = {}
      /\ t.opened \in Seq(Int)
      /\ \A i \in DOMAIN t.saved : t.saved[i] \in Int
      /\ \A i \in DOMAIN t.updated : t.updated[i] \in Int
  BY <1>2 DEF GoodsFit, Holds
<1>6. ASSUME NEW i \in D
      PROVE  /\ t.stacks[i] \in Int /\ rows[i] \in Inventory /\ IsRow(i)
             /\ i \in K /\ q[i] = t.stacks[i] /\ i \notin new
  <2>1. t.stacks[i] \in Int
    BY <1>2 DEF Whole
  <2>a. rows[i] = [kind |-> t.kind, quantity |-> t.stacks[i]] /\ t.kind \in Kinds
    BY <1>3
  <2>2. rows[i].kind = k /\ rows[i].quantity = t.stacks[i]
    BY <2>a
  <2>3. rows[i] \in Inventory
    BY <2>1, <2>a DEF Inventory
  <2>4. rows[i] # NoRow /\ rows[i] # Gone
    BY <2>3, MarksDiffer
  <2> QED BY <1>4, <2>1, <2>2, <2>3, <2>4 DEF IsRow, InRows, Quantities, Fresh
<1>7. ASSUME NEW i \in RowIds
      PROVE  /\ i \in t.removed => rows'[i] = Gone
             /\ i \in kept => /\ rows'[i] = [kind |-> k, quantity |-> After(t)[i]]
                              /\ After(t)[i] \in Int
             /\ i \in new => rows'[i] = [kind |-> k,
                                 quantity |-> t.opened[Cardinality({j \in new : j <= i})]]
             /\ i \notin D \cup new => rows'[i] = rows[i]
  <2>1. rows'[i] = Written(t, i)
    BY <1>1
  <2>2. i \in t.removed => rows'[i] = Gone
    <3> HAVE i \in t.removed
    <3>1. i \in D /\ i \notin new /\ IsRow(i) /\ i \notin DOMAIN t.saved /\ i \notin DOMAIN t.updated
      BY <1>5, <1>6
    <3> QED BY <2>1, <3>1 DEF Written
  <2>3. ASSUME i \in kept
        PROVE  rows'[i] = [kind |-> k, quantity |-> After(t)[i]] /\ After(t)[i] \in Int
    <3>1. i \in D /\ i \notin t.removed /\ i \notin new /\ IsRow(i) /\ t.stacks[i] \in Int
          /\ rows[i] = [kind |-> k, quantity |-> t.stacks[i]]
      BY <1>3, <1>6, <2>3
    <3>2. CASE i \in DOMAIN t.saved
      <4>1. i \notin DOMAIN t.updated /\ t.saved[i] \in Int
        BY <1>5, <3>2
      <4>2. After(t)[i] = t.saved[i]
        BY <3>1, <3>2 DEF After
      <4>3. rows'[i] = [kind |-> k, quantity |-> t.saved[i]]
        BY <2>1, <3>1, <3>2, <4>1 DEF Written
      <4> QED BY <4>1, <4>2, <4>3
    <3>3. CASE i \notin DOMAIN t.saved /\ i \in DOMAIN t.updated
      <4>1. After(t)[i] = t.updated[i] /\ t.updated[i] \in Int
        BY <1>5, <3>1, <3>3 DEF After
      <4>2. rows'[i] = [rows[i] EXCEPT !.quantity = t.updated[i]]
        BY <2>1, <3>1, <3>3 DEF Written
      <4>3. rows'[i] = [kind |-> k, quantity |-> t.updated[i]]
        BY <3>1, <4>2
      <4> QED BY <4>1, <4>3
    <3>4. CASE i \notin DOMAIN t.saved /\ i \notin DOMAIN t.updated
      <4>1. After(t)[i] = t.stacks[i]
        BY <3>1, <3>4 DEF After
      <4>2. rows'[i] = rows[i]
        BY <2>1, <3>1, <3>4 DEF Written
      <4> QED BY <3>1, <4>1, <4>2
    <3> QED BY <3>2, <3>3, <3>4
  <2>4. ASSUME i \in new
        PROVE  rows'[i] = [kind |-> k, quantity |-> t.opened[Cardinality({j \in new : j <= i})]]
    <3>1. i \notin D
      BY <1>6, <2>4
    <3>2. i \notin t.removed /\ i \notin DOMAIN t.saved /\ i \notin DOMAIN t.updated
      BY <1>5, <3>1
    <3> QED BY <2>1, <2>4, <3>2 DEF Written
  <2>5. ASSUME i \notin D \cup new
        PROVE  rows'[i] = rows[i]
    <3>1. i \notin t.removed /\ i \notin DOMAIN t.saved /\ i \notin DOMAIN t.updated
      BY <1>5, <2>5
    <3> QED BY <2>1, <2>5, <3>1 DEF Written
  <2> QED BY <2>2, <2>3, <2>4, <2>5
<1>. HIDE DEF t, new
<1>8. /\ IsFiniteSet(D) /\ IsFiniteSet(new) /\ IsFiniteSet(K) /\ IsFiniteSet(K \ D)
      /\ IsFiniteSet(kept) /\ IsFiniteSet(t.removed)
  BY <1>4, <1>5, EconomyAssumption, FS_Subset
<1>9. /\ \A i \in new : p[i] = t.opened[Cardinality({j \in new : j <= i})]
      /\ \A i \in kept : p[i] = After(t)[i] /\ p[i] \in Int
      /\ \A i \in K \ D : i \notin new /\ p[i] = q[i]
      /\ \A i \in K : q[i] \in Int
  <2>a. \A i \in RowIds : p[i] = rows'[i].quantity
    BY DEF Quantities
  <2>1. \A i \in new : p[i] = t.opened[Cardinality({j \in new : j <= i})]
    <3> TAKE i \in new
    <3>1. i \in RowIds
      BY <1>4
    <3>2. rows'[i] = [kind |-> k, quantity |-> t.opened[Cardinality({j \in new : j <= i})]]
      BY <1>7, <3>1
    <3> HIDE DEF p
    <3> QED BY <2>a, <3>1, <3>2
  <2>2. \A i \in kept : p[i] = After(t)[i] /\ p[i] \in Int
    <3> TAKE i \in kept
    <3>1. i \in RowIds
      BY <1>4
    <3>2. rows'[i] = [kind |-> k, quantity |-> After(t)[i]] /\ After(t)[i] \in Int
      BY <1>7, <3>1
    <3> HIDE DEF p
    <3> QED BY <2>a, <3>1, <3>2
  <2>3. \A i \in K : i \notin new
    BY DEF InRows, new, Fresh
  <2>4. \A i \in K \ D : p[i] = q[i]
    BY <1>4, <1>7, <2>3 DEF Quantities
  <2>5. \A i \in K : q[i] \in Int
    <3> TAKE i \in K
    <3>1. rows[i] \in Inventory /\ i \in RowIds
      BY DEF EconomyInv, RowFits, InRows
    <3> QED BY <3>1 DEF Inventory, Quantities
  <2> QED BY <2>1, <2>2, <2>3, <2>4, <2>5
<1>10. new \in SUBSET RowIds /\ t.opened \in Seq(Int) /\ Cardinality(new) = Len(t.opened)
  BY <1>1, <1>4, <1>5
<1>11. /\ \A i \in new : p[i] \in Int
       /\ Sum(p, new) = Sum(t.opened, DOMAIN t.opened)
  <2>1. \A i \in new : p[i] = t.opened[Cardinality({j \in new : j <= i})]
    BY <1>9
  <2>. HIDE DEF p
  <2> QED BY <1>10, <2>1, RankedSum
<1>12. L = ((K \ D) \cup kept) \cup new
  <2> SUFFICES ASSUME NEW i \in RowIds
               PROVE  i \in L <=> i \in K \ D \/ i \in kept \/ i \in new
    BY <1>4 DEF InRows
  <2>1. CASE i \in t.removed
    <3>1. rows'[i] = Gone /\ i \in D /\ i \notin new
      BY <1>5, <1>6, <1>7, <2>1
    <3> QED BY <2>1, <3>1 DEF InRows
  <2>2. CASE i \in kept
    <3>1. rows'[i] = [kind |-> k, quantity |-> After(t)[i]] /\ After(t)[i] \in Int
      BY <1>7, <2>2
    <3>2. rows'[i] \in Inventory
      BY <3>1 DEF Inventory, k, t
    <3>3. rows'[i] # NoRow /\ rows'[i] # Gone /\ rows'[i].kind = k
      BY <3>1, <3>2, MarksDiffer
    <3> QED BY <2>2, <3>3 DEF InRows
  <2>3. CASE i \in new
    <3>1. rows'[i] = [kind |-> k, quantity |-> p[i]] /\ p[i] \in Int
      BY <1>7, <1>9, <1>11, <2>3
    <3>2. rows'[i] \in Inventory
      BY <3>1 DEF Inventory, k, t
    <3>3. rows'[i] # NoRow /\ rows'[i] # Gone /\ rows'[i].kind = k
      BY <3>1, <3>2, MarksDiffer
    <3> QED BY <2>3, <3>3 DEF InRows
  <2>4. CASE i \notin D \cup new
    BY <1>7, <2>4 DEF InRows
  <2> QED BY <2>1, <2>2, <2>3, <2>4
<1>13. /\ D \subseteq K /\ kept \cap (K \ D) = {} /\ new \cap ((K \ D) \cup kept) = {}
       /\ t.removed \cap kept = {}
  BY <1>6, <1>9
<1>14. \A i \in D : After(t)[i] \in Int /\ q[i] \in Int /\ q[i] = t.stacks[i]
  <2> TAKE i \in D
  <2>1. i \in RowIds /\ q[i] = t.stacks[i] /\ t.stacks[i] \in Int
    BY <1>4, <1>6
  <2>2. CASE i \in t.removed
    <3>1. After(t)[i] = 0
      BY <1>5, <2>2 DEF After
    <3> QED BY <2>1, <3>1
  <2>3. CASE i \notin t.removed
    <3>1. i \in kept
      BY <2>3
    <3>2. After(t)[i] \in Int
      BY <1>7, <2>1, <3>1
    <3> QED BY <2>1, <3>2
  <2> QED BY <2>2, <2>3
<1>15. \A i \in t.removed : After(t)[i] = 0
  BY <1>5 DEF After
<1>16. D = t.removed \cup kept /\ K = (K \ D) \cup D
  BY <1>5, <1>13
<1>. HIDE DEF K, L, p, q, D, kept
<1>17. Sum(p, ((K \ D) \cup kept) \cup new) = Sum(p, K \ D) + Sum(p, kept) + Sum(p, new)
  <2>1. \A i \in ((K \ D) \cup kept) \cup new : p[i] \in Int
    BY <1>9, <1>11
  <2>2. Sum(p, (K \ D) \cup kept) = Sum(p, K \ D) + Sum(p, kept)
    BY <1>8, <1>13, <2>1, SumParts
  <2>3. IsFiniteSet((K \ D) \cup kept)
    BY <1>8, FS_Union
  <2>4. Sum(p, ((K \ D) \cup kept) \cup new) = Sum(p, (K \ D) \cup kept) + Sum(p, new)
    BY <1>8, <1>13, <2>1, <2>3, SumParts
  <2> QED BY <2>2, <2>4, Zenon
<1>18. Sum(p, K \ D) = Sum(q, K \ D) /\ Sum(p, kept) = Sum(After(t), kept)
  BY <1>9, SumSame
<1>19. Sum(After(t), D) = Sum(After(t), kept)
  <2>1. Sum(After(t), t.removed \cup kept) = Sum(After(t), t.removed) + Sum(After(t), kept)
    BY <1>8, <1>13, <1>14, <1>16, SumParts
  <2>2. Sum(After(t), t.removed) = 0
    BY <1>8, <1>15, SumZero
  <2>3. Sum(After(t), kept) \in Int
    BY <1>8, <1>14, <1>16, SumType
  <2> QED BY <1>16, <2>1, <2>2, <2>3
<1>20. Sum(q, K) = Sum(q, K \ D) + Sum(t.stacks, D)
  <2>1. Sum(q, (K \ D) \cup D) = Sum(q, K \ D) + Sum(q, D)
    BY <1>8, <1>9, <1>16, SumParts
  <2>2. Sum(q, D) = Sum(t.stacks, D)
    BY <1>14, SumSame
  <2> QED BY <1>16, <2>1, <2>2
<1>21. /\ Sum(q, K \ D) \in Int /\ Sum(t.stacks, D) \in Int
       /\ Sum(After(t), D) \in Int /\ Sum(p, new) \in Int
  <2>1. Sum(q, K \ D) \in Int
    BY <1>8, <1>9, SumType
  <2>2. Sum(t.stacks, D) \in Int
    BY <1>8, <1>14, SumType
  <2>3. Sum(After(t), D) \in Int
    BY <1>8, <1>14, SumType
  <2>4. Sum(p, new) \in Int
    BY <1>8, <1>11, SumType
  <2> QED BY <2>1, <2>2, <2>3, <2>4
<1>22. Sum(p, L) = Sum(q, K \ D) + Sum(After(t), D) + Sum(p, new)
  BY <1>12, <1>17, <1>18, <1>19, Zenon
<1>23. Moved(t) = Sum(After(t), D) + Sum(p, new) - Sum(t.stacks, D)
  BY <1>11 DEF Moved, D
<1>24. Sum(p, L) = Sum(q, K) + Moved(t)
  BY <1>20, <1>21, <1>22, <1>23
<1> QED BY <1>24 DEF p, q, L, K, t

(* The tiles in place after a commit.                                      *)
LEMMA CommitTiles ==
    ASSUME EconomyInv, NEW a \in Actors, Commit(a), "tile" \notin conflicts'
    PROVE  Cardinality(InPlace(tile')) = Cardinality(InPlace(tile))
               + (transaction[a].laid - Cardinality(transaction[a].recovered))
<1> DEFINE t == transaction[a]
           P == InPlace(tile)
<1>1. /\ t # Idle /\ conflicts' = conflicts \cup Outdated(t)
  BY DEF Commit
<1>2. t.laid \in Nat /\ tile \in [TileIds -> {"new", "placed", "gone"}]
  BY <1>1 DEF EconomyInv, TransactionsFit, Sound, Typed
<1>3. PICK laid \in SUBSET TileIds :
        /\ Cardinality(laid) = t.laid
        /\ \A p \in laid : tile[p] = "new"
        /\ tile' = [p \in TileIds |-> IF p \in laid THEN "placed"
                                      ELSE IF p \in t.recovered THEN "gone" ELSE tile[p]]
  BY DEF Commit
<1>4. t.recovered \subseteq P
  <2>1. "tile" \notin Outdated(t)
    BY <1>1
  <2> QED BY <2>1 DEF Outdated, Placed, InPlace
<1>. HIDE DEF t
<1>5. InPlace(tile') = (P \ t.recovered) \cup laid
  <2>1. \A p \in TileIds : tile'[p] = "placed" <=> p \in laid \/ (p \in P /\ p \notin t.recovered)
    BY <1>3 DEF InPlace
  <2>2. (P \ t.recovered) \cup laid \subseteq TileIds
    BY <1>3 DEF InPlace
  <2>3. InPlace(tile') = {p \in TileIds : tile'[p] = "placed"} /\ P \subseteq TileIds
    BY DEF InPlace
  <2>. HIDE DEF P
  <2> QED BY <2>1, <2>2, <2>3
<1>6. (P \ t.recovered) \cap laid = {}
  BY <1>3 DEF InPlace
<1>7. P \subseteq TileIds
  BY DEF InPlace
<1>. HIDE DEF P
<1>8. /\ IsFiniteSet(P) /\ IsFiniteSet(laid) /\ IsFiniteSet(t.recovered)
      /\ IsFiniteSet(P \ t.recovered)
  BY <1>4, <1>7, EconomyAssumption, FS_Subset
<1>9. /\ Cardinality(P) \in Nat /\ Cardinality(t.recovered) \in Nat
      /\ Cardinality(P \ t.recovered) \in Nat
  BY <1>8, FS_CardinalityType
<1>10. Cardinality((P \ t.recovered) \cup laid) = Cardinality(P \ t.recovered) + t.laid
  <2>1. Cardinality((P \ t.recovered) \cup laid)
        = Cardinality(P \ t.recovered) + Cardinality(laid)
          - Cardinality((P \ t.recovered) \cap laid)
    BY <1>8, FS_Union
  <2>2. Cardinality((P \ t.recovered) \cap laid) = 0
    BY <1>6, FS_EmptySet
  <2> QED BY <1>2, <1>3, <1>9, <2>1, <2>2
<1>11. Cardinality(P \ t.recovered) = Cardinality(P) - Cardinality(t.recovered)
  <2>1. Cardinality(P \ t.recovered) = Cardinality(P) - Cardinality(P \cap t.recovered)
    BY <1>8, FS_Difference
  <2>2. P \cap t.recovered = t.recovered
    BY <1>4
  <2> QED BY <2>1, <2>2
<1>12. Cardinality(InPlace(tile')) = Cardinality(P) + (t.laid - Cardinality(t.recovered))
  BY <1>2, <1>5, <1>9, <1>10, <1>11
<1> QED BY <1>12 DEF P, t

(* The books of goods after a commit.                                      *)
LEMMA CommitGoods ==
    ASSUME EconomyInv, NEW a \in Actors, Commit(a)
    PROVE  Stocked(rows', tile', books', conflicts')
<1> DEFINE t == transaction[a]
<1>1. /\ t # Idle /\ conflicts \subseteq conflicts'
      /\ books' = [b \in DOMAIN books |-> books[b] + Entry(t.account, b)]
  BY DEF Commit, Entry
<1>2. GoodsEntered(t) /\ DOMAIN books = Books /\ Stocked(rows, tile, books, conflicts)
  BY <1>1 DEF EconomyInv, TransactionsFit, Sound, Typed
<1>3. t.laid \in Nat /\ IsFiniteSet(t.recovered)
  <2>1. t.laid \in Nat /\ t.recovered \subseteq TileIds
    BY <1>1 DEF EconomyInv, TransactionsFit, Sound
  <2> QED BY <2>1, EconomyAssumption, FS_Subset
<1>. HIDE DEF t
<1>4. ASSUME NEW k \in Kinds, k \notin conflicts'
      PROVE  Stock(rows', tile', k) = books'[k]
  <2> DEFINE before == Sum(Quantities(rows), InRows(rows, k))
             after  == Sum(Quantities(rows'), InRows(rows', k))
             moved  == IF k = t.kind THEN Moved(t) ELSE 0
             placed == IF k = "tile" THEN Cardinality(InPlace(tile)) ELSE 0
             now    == IF k = "tile" THEN Cardinality(InPlace(tile')) ELSE 0
             net    == IF k = "tile" THEN t.laid - Cardinality(t.recovered) ELSE 0
  <2>1. before + placed = books[k]
    BY <1>1, <1>2, <1>4 DEF Stocked, Stock
  <2>2. books'[k] = books[k] + (moved + net)
    BY <1>1, <1>2 DEF Books, GoodsEntered
  <2>3. before \in Int /\ after \in Int
    <3>1. \A i \in RowIds : RowFits(rows[i]) /\ RowFits(rows'[i])
      BY CommitRows DEF EconomyInv
    <3> QED BY <3>1, StockType
  <2>4. after = before + moved
    <3>1. CASE k = t.kind
      BY <1>4, <3>1, CommitItsKind DEF t
    <3>2. CASE k # t.kind
      <4>1. after = before /\ moved = 0
        BY <3>2, CommitOtherKinds DEF t
      <4>. HIDE DEF before, after, moved
      <4> QED BY <2>3, <4>1
    <3> QED BY <3>1, <3>2
  <2>5. now = placed + net /\ placed \in Int /\ net \in Int
    <3>1. CASE k = "tile"
      <4>1. Cardinality(InPlace(tile')) = Cardinality(InPlace(tile))
                                          + (t.laid - Cardinality(t.recovered))
        BY <1>4, <3>1, CommitTiles DEF t
      <4>2. Cardinality(t.recovered) \in Int /\ Cardinality(InPlace(tile)) \in Int
        <5>1. IsFiniteSet(InPlace(tile))
          BY EconomyAssumption, FS_Subset DEF InPlace
        <5> QED BY <1>3, <5>1, FS_CardinalityType
      <4> QED BY <1>3, <3>1, <4>1, <4>2
    <3>2. CASE k # "tile"
      BY <3>2
    <3> QED BY <3>1, <3>2
  <2>6. moved \in Int
    <3>1. CASE k = t.kind
      <4>1. GoodsFit(t.kind, t.stacks, t.saved, t.updated, t.removed, t.opened) /\ Whole(t)
        BY <1>1, <1>2 DEF EconomyInv, TransactionsFit, Sound, GoodsEntered, t
      <4> QED BY <3>1, <4>1, MovedType
    <3> QED BY <3>1
  <2>7. Stock(rows', tile', k) = after + now
    BY DEF Stock
  <2>. HIDE DEF before, after, moved, placed, now, net
  <2> QED BY <2>1, <2>2, <2>3, <2>4, <2>5, <2>6, <2>7
<1> QED BY <1>4 DEF Stocked

LEMMA CommitKeeps ==
    ASSUME EconomyInv, NEW a \in Actors, Commit(a)
    PROVE  EconomyInv'
<1> DEFINE t == transaction[a]
<1>1. /\ t # Idle /\ UNCHANGED <<day, started>>
      /\ transaction' = [transaction EXCEPT ![a] = Idle]
      /\ rows' = [i \in RowIds |-> Written(t, i)]
      /\ conflicts' = conflicts \cup Outdated(t)
  BY DEF Commit
<1>2. /\ Sound(t, t.seen, highest, day)
      /\ conflicts \subseteq Columns \cup Kinds \cup {"building"}
  BY <1>1 DEF EconomyInv, TransactionsFit, Typed
<1>3. Outdated(t) \subseteq Columns \cup Kinds \cup {"building"}
  <2>1. DOMAIN t.columns \subseteq Columns
    BY <1>2 DEF Sound, ColumnsFit
  <2>2. t.kind \in Kinds \/ DOMAIN t.stacks = {}
    BY <1>2 DEF Sound, GoodsFit
  <2> QED BY <2>1, <2>2 DEF Outdated, Kinds
<1>4. tile' \in [TileIds -> {"new", "placed", "gone"}]
  <2>1. PICK laid \in SUBSET TileIds :
          tile' = [p \in TileIds |-> IF p \in laid THEN "placed"
                                     ELSE IF p \in t.recovered THEN "gone" ELSE tile[p]]
    BY DEF Commit
  <2>2. tile \in [TileIds -> {"new", "placed", "gone"}]
    BY DEF EconomyInv, Typed
  <2> QED BY <2>1, <2>2
<1>5. /\ transaction'[a] = Idle
      /\ \A b \in Actors \ {a} : transaction'[b] = transaction[b]
      /\ transaction' = [b \in Actors |-> transaction'[b]]
  BY <1>1 DEF EconomyInv, Typed
<1>6. highest \in Nat \ {0} /\ highest' \in Nat \ {0} /\ highest <= highest' /\ day \in Nat
  BY CommitUser DEF EconomyInv, Typed
<1>7. TransactionsFit'
  <2>1. ASSUME NEW b \in Actors, transaction'[b] # Idle
        PROVE  /\ Sound(transaction'[b], transaction'[b].seen, highest', day')
               /\ About(transaction'[b], rows')
               /\ \A c \in Actors : transaction'[c] # Idle => Agree(transaction'[b], transaction'[c])
    <3>1. b # a /\ transaction'[b] = transaction[b]
      BY <1>5, <2>1
    <3>2. /\ Sound(transaction[b], transaction[b].seen, highest, day)
          /\ \A c \in Actors : transaction[c] # Idle => Agree(transaction[b], transaction[c])
      BY <2>1, <3>1 DEF EconomyInv, TransactionsFit
    <3>3. Sound(transaction[b], transaction[b].seen, highest', day')
      BY <1>1, <1>6, <3>2, SoundLater
    <3>4. DOMAIN transaction[b].stacks \subseteq RowIds
      BY <3>2 DEF Sound, GoodsFit
    <3>5. About(transaction[b], rows')
      BY <2>1, <3>1, <3>4, CommitRows DEF About
    <3>6. \A c \in Actors : transaction'[c] # Idle => Agree(transaction[b], transaction'[c])
      BY <1>5, <3>2
    <3> QED BY <3>1, <3>3, <3>5, <3>6
  <2> QED BY <2>1 DEF TransactionsFit
<1>8. Typed'
  BY <1>1, <1>2, <1>3, <1>4, <1>5, <1>6, CommitBuilding, CommitBooks DEF EconomyInv, Typed
<1>9. rows' = [i \in RowIds |-> rows'[i]] /\ \A i \in RowIds : RowFits(rows'[i])
  BY <1>1, CommitRows
<1> QED BY <1>7, <1>8, <1>9, CommitUser, CommitBuilding, CommitBooks, CommitGoods DEF EconomyInv

LEMMA RollbackKeeps ==
    ASSUME EconomyInv, NEW a \in Actors, Rollback(a)
    PROVE  EconomyInv'
<1>1. /\ UNCHANGED <<estate, day, started, history>>
      /\ transaction' = [transaction EXCEPT ![a] = Idle]
  BY DEF Rollback
<1>2. /\ transaction' = [b \in Actors |-> transaction'[b]]
      /\ \A b \in Actors : transaction'[b] # Idle => transaction'[b] = transaction[b]
  BY <1>1 DEF EconomyInv, Typed
<1>3. Typed'
  BY <1>1, <1>2 DEF EconomyInv, Typed, estate, history
<1>4. TransactionsFit'
  BY <1>1, <1>2 DEF EconomyInv, TransactionsFit, estate, history
<1> QED BY <1>1, <1>3, <1>4 DEF EconomyInv, estate, history

LEMMA NextDayKeeps ==
    ASSUME EconomyInv, NextDay
    PROVE  EconomyInv'
<1>1. /\ UNCHANGED <<estate, transaction, started, history>>
      /\ day \in Nat /\ day' = day + 1 /\ highest \in Nat \ {0}
  BY DEF NextDay, EconomyInv, Typed
<1>2. TransactionsFit'
  <2>1. ASSUME NEW b \in Actors, transaction[b] # Idle
        PROVE  Sound(transaction[b], transaction[b].seen, highest, day + 1)
    BY <1>1, <2>1, SoundLater DEF EconomyInv, TransactionsFit
  <2> QED BY <1>1, <2>1 DEF EconomyInv, TransactionsFit, estate, history
<1>3. Spun(user, books, conflicts, day + 1)
  <2>1. user["spinLastTime"] \in Int
    BY DEF EconomyInv, UserFits, Columns
  <2> QED BY <1>1, <2>1 DEF EconomyInv, Spun
<1>4. Typed'
  BY <1>1 DEF EconomyInv, Typed, estate, history
<1> QED BY <1>1, <1>2, <1>3, <1>4 DEF EconomyInv, estate, history
----------------------------------------------------------------------------
(* What the helpers of the requests leave of a transaction as it was.      *)
LEMMA BlankFields ==
    /\ Shaped(Blank)
    /\ Blank.columns = Nothing /\ Blank.account = Nothing /\ Blank.kind = "none"
    /\ Blank.stacks = Nothing /\ Blank.saved = Nothing /\ Blank.updated = Nothing
    /\ Blank.removed = {} /\ Blank.opened = <<>> /\ Blank.laid = 0
    /\ Blank.recovered = {} /\ Blank.building = Idle /\ Blank.born = 0
BY DEF Blank, Shaped, Fields

LEMMA SpendingFields ==
    ASSUME NEW t, Shaped(t), NEW cost
    PROVE  LET s == Spending(t, cost)
           IN  /\ Shaped(s)
               /\ s.columns = Merge(t.columns, SubtractGolds(user, cost))
               /\ \A f \in Fields \ {"columns"} : s[f] = t[f]
BY DEF Spending, Shaped, Fields

LEMMA LabourFields ==
    ASSUME NEW t, Shaped(t)
    PROVE  LET s == Labour(t)
           IN  /\ Shaped(s)
               /\ s.columns = Merge(SubstractEnergy(user, EnergyConsume),
                                    AddExperiences(user, ExperiencesGain))
               /\ s.account = Merge([energy |-> -EnergyConsume * RegenTime], t.account)
               /\ \A f \in Fields \ {"columns", "account"} : s[f] = t[f]
BY DEF Labour, Shaped, Fields

LEMMA AddingFields ==
    ASSUME NEW t, Shaped(t), NEW kind, NEW quantity
    PROVE  LET s == Adding(t, kind, quantity)
           IN  /\ Shaped(s)
               /\ s.kind = kind /\ s.stacks = StacksOf(kind)
               /\ s.saved = ToppedUp(StacksOf(kind), quantity)
               /\ s.opened = Opened(StacksOf(kind), quantity)
               /\ \A f \in Fields \ {"kind", "stacks", "saved", "opened"} : s[f] = t[f]
BY DEF Adding, Shaped, Fields

LEMMA TakingFields ==
    ASSUME NEW t, Shaped(t), NEW i
    PROVE  LET s    == TakingOne(t, i)
               left == rows[i].quantity - 1
           IN  /\ Shaped(s)
               /\ s.kind = rows[i].kind /\ s.stacks = [j \in {i} |-> rows[j].quantity]
               /\ s.updated = [j \in {i} \ {k \in {i} : left = 0} |-> left]
               /\ s.removed = {k \in {i} : left = 0}
               /\ \A f \in Fields \ {"kind", "stacks", "updated", "removed"} : s[f] = t[f]
BY DEF TakingOne, Shaped, Fields

(* What they make of the rows.                                             *)
Untouched(t) ==
    /\ t.kind = "none" /\ t.stacks = Nothing /\ t.saved = Nothing
    /\ t.updated = Nothing /\ t.removed = {} /\ t.opened = <<>>

Handled(t) ==
    /\ GoodsFit(t.kind, t.stacks, t.saved, t.updated, t.removed, t.opened)
    /\ \A i \in DOMAIN t.stacks : IsRow(i) /\ rows[i].kind = t.kind

LEMMA UntouchedHandled == ASSUME NEW t, Untouched(t) PROVE Handled(t)
<1>1. DOMAIN Nothing = {}
  BY DEF Nothing
<1> QED BY <1>1 DEF Untouched, Handled, GoodsFit

LEMMA RowsFound ==
    ASSUME EconomyInv, NEW kind, NEW i \in RowsOf(kind)
    PROVE  /\ i \in RowIds /\ IsRow(i) /\ rows[i].kind = kind /\ kind \in Kinds
           /\ Holds(kind, rows[i].quantity)
BY DEF EconomyInv, RowFits, RowsOf, IsRow, Inventory

LEMMA AddedHandled ==
    ASSUME EconomyInv, NEW kind \in Kinds, NEW quantity \in Nat, NEW t,
           t.kind = kind, t.stacks = StacksOf(kind),
           t.saved = ToppedUp(StacksOf(kind), quantity),
           t.opened = Opened(StacksOf(kind), quantity),
           t.updated = Nothing, t.removed = {}
    PROVE  Handled(t)
<1> DEFINE stacks == StacksOf(kind)
<1>1. /\ DOMAIN stacks = RowsOf(kind) /\ DOMAIN stacks \subseteq RowIds
      /\ \A i \in DOMAIN stacks : Holds(kind, stacks[i])
      /\ \A i \in DOMAIN stacks : IsRow(i) /\ rows[i].kind = kind
  <2>1. DOMAIN stacks = RowsOf(kind) /\ \A i \in DOMAIN stacks : stacks[i] = rows[i].quantity
    BY DEF StacksOf
  <2> QED BY <2>1, RowsFound
<1>. HIDE DEF stacks
<1>2. /\ DOMAIN ToppedUp(stacks, quantity) = DOMAIN stacks
      /\ \A i \in DOMAIN stacks : Holds(kind, ToppedUp(stacks, quantity)[i])
  BY <1>1, ToppedUpHolds
<1>3. /\ Opened(stacks, quantity) \in Seq(Int)
      /\ \A k \in DOMAIN Opened(stacks, quantity) : Holds(kind, Opened(stacks, quantity)[k])
  BY <1>1, OpenedHolds DEF Holds
<1>4. kind # "none" /\ DOMAIN Nothing = {}
  BY DEF Kinds, Nothing
<1>5. /\ t.stacks = stacks /\ t.saved = ToppedUp(stacks, quantity)
      /\ t.opened = Opened(stacks, quantity)
  BY DEF stacks
<1> QED BY <1>1, <1>2, <1>3, <1>4, <1>5 DEF Handled, GoodsFit

LEMMA TakenHandled ==
    ASSUME EconomyInv, NEW kind \in Kinds \ {"supply"}, NEW i \in RowsOf(kind), NEW t,
           t.kind = rows[i].kind, t.stacks = [j \in {i} |-> rows[j].quantity],
           t.updated = [j \in {i} \ {k \in {i} : rows[i].quantity - 1 = 0} |->
                           rows[i].quantity - 1],
           t.removed = {k \in {i} : rows[i].quantity - 1 = 0},
           t.saved = Nothing, t.opened = <<>>
    PROVE  Handled(t)
<1> DEFINE left == rows[i].quantity - 1
<1>1. /\ i \in RowIds /\ IsRow(i) /\ rows[i].kind = kind /\ kind # "none"
      /\ rows[i].quantity \in Int /\ rows[i].quantity >= 1 /\ rows[i].quantity <= MaxStack
  BY RowsFound DEF Holds, Kinds
<1>2. DOMAIN Nothing = {} /\ DOMAIN t.stacks = {i}
  BY DEF Nothing
<1>3. left # 0 => Holds(kind, left)
  BY <1>1, RulesAssumption DEF Holds
<1>4. DOMAIN t.updated = {i} \ t.removed /\ \A j \in DOMAIN t.updated : t.updated[j] = left
  OBVIOUS
<1>5. t.removed \subseteq {i} /\ (left = 0 => t.removed = {i})
  OBVIOUS
<1>6. <<>> \in Seq(Int) /\ DOMAIN (<<>>) = {}
  OBVIOUS
<1>. HIDE DEF left
<1>7. \A j \in DOMAIN t.updated : Holds(t.kind, t.updated[j])
  BY <1>1, <1>3, <1>4, <1>5
<1> QED BY <1>1, <1>2, <1>4, <1>5, <1>6, <1>7 DEF Handled, GoodsFit

(* What the helpers of the requests move of the goods.                     *)
LEMMA NothingMoves ==
    ASSUME NEW t, t.stacks = Nothing, t.opened = <<>>
    PROVE  Whole(t) /\ Moved(t) = 0
<1>1. DOMAIN t.stacks = {} /\ DOMAIN t.opened = {}
  BY DEF Nothing
<1>2. \A f : Sum(f, {}) = 0
  BY SumEmpty
<1> QED BY <1>1, <1>2 DEF Whole, Moved

LEMMA AddingMoves ==
    ASSUME EconomyInv, NEW kind, NEW quantity \in Nat, NEW t,
           t.stacks = StacksOf(kind), t.saved = ToppedUp(StacksOf(kind), quantity),
           t.opened = Opened(StacksOf(kind), quantity)
    PROVE  Whole(t) /\ Moved(t) = quantity
<1> DEFINE stacks == StacksOf(kind)
           saved  == ToppedUp(stacks, quantity)
           opened == Opened(stacks, quantity)
           D      == DOMAIN stacks
<1>1. D \subseteq RowIds /\ \A i \in D : stacks[i] \in Int
  <2>1. DOMAIN stacks = RowsOf(kind) /\ \A i \in DOMAIN stacks : stacks[i] = rows[i].quantity
    BY DEF StacksOf
  <2> QED BY <2>1, RowsFound DEF Holds
<1>. HIDE DEF stacks
<1>2. /\ Sum(stacks, D) \in Int
      /\ Sum(saved, D) + Sum(opened, DOMAIN opened) = Sum(stacks, D) + quantity
  BY <1>1, AddedSum
<1>3. \A i \in D : After(t)[i] = saved[i]
  <2>1. DOMAIN saved = D
    BY DEF ToppedUp
  <2>2. t.stacks = stacks /\ t.saved = saved
    BY DEF stacks
  <2>. HIDE DEF saved
  <2> QED BY <2>1, <2>2 DEF After
<1>4. t.stacks = stacks /\ t.opened = opened
  BY DEF stacks
<1>5. \A i \in D : saved[i] \in Int
  <2> SUFFICES ASSUME NEW i \in D PROVE saved[i] \in Int
    OBVIOUS
  <2>1. saved[i] = stacks[i] + Extra(stacks, quantity)[i]
    BY DEF ToppedUp, Extra
  <2>2. Extra(stacks, quantity)[i] \in Nat
    BY <1>1, ExtraSum
  <2>. HIDE DEF saved
  <2> QED BY <1>1, <2>1, <2>2
<1>a. Sum(opened, DOMAIN opened) \in Int
  <2>1. Sum(opened, DOMAIN opened) = Positive(quantity - SpaceIn(stacks, D))
    BY <1>1, OpenedSum
  <2>2. SpaceIn(stacks, D) \in Nat
    BY <1>1, ExtraSum
  <2>. HIDE DEF opened
  <2> QED BY <2>1, <2>2 DEF Positive
<1>. HIDE DEF saved, opened
<1>6. Sum(After(t), D) = Sum(saved, D)
  BY <1>3, SumSame
<1>7. Sum(saved, D) \in Int
  <2>1. IsFiniteSet(D)
    BY <1>1, EconomyAssumption, FS_Subset
  <2> QED BY <1>5, <2>1, SumType
<1>8. Moved(t) = Sum(saved, D) + Sum(opened, DOMAIN opened) - Sum(stacks, D)
  BY <1>4, <1>6 DEF Moved
<1>. HIDE DEF D
<1>10. Moved(t) = quantity
  BY <1>2, <1>7, <1>8, <1>a
<1> QED BY <1>1, <1>4, <1>10 DEF Whole, D

(* One unit of a row.                                                      *)
LEMMA TakingMoves ==
    ASSUME NEW i, NEW t, rows[i].quantity \in Int,
           t.stacks = [j \in {i} |-> rows[j].quantity], t.opened = <<>>,
           After(t)[i] = rows[i].quantity - 1
    PROVE  Whole(t) /\ Moved(t) = -1
<1>1. DOMAIN t.stacks = {i} /\ t.stacks[i] = rows[i].quantity /\ DOMAIN t.opened = {}
  OBVIOUS
<1>2. Sum(t.stacks, {i}) = rows[i].quantity /\ Sum(t.opened, {}) = 0
  BY <1>1, SumOne, SumEmpty
<1>3. Sum(After(t), {i}) = rows[i].quantity - 1
  <2>1. After(t)[i] \in Int
    OBVIOUS
  <2> QED BY <2>1, SumOne
<1>4. Moved(t) = (rows[i].quantity - 1) + 0 - rows[i].quantity
  BY <1>1, <1>2, <1>3 DEF Moved
<1> QED BY <1>1, <1>4 DEF Whole

LEMMA TakenRow ==
    ASSUME NEW i, NEW t, rows[i].quantity \in Int,
           t.stacks = [j \in {i} |-> rows[j].quantity],
           t.updated = [j \in {i} \ {k \in {i} : rows[i].quantity - 1 = 0} |->
                           rows[i].quantity - 1],
           t.removed = {k \in {i} : rows[i].quantity - 1 = 0},
           t.saved = Nothing
    PROVE  After(t)[i] = rows[i].quantity - 1
<1> DEFINE left == rows[i].quantity - 1
<1>1. DOMAIN t.stacks = {i} /\ DOMAIN t.saved = {}
  BY DEF Nothing
<1>2. CASE left = 0
  <2>1. i \in t.removed /\ i \notin DOMAIN t.updated
    BY <1>2
  <2>. HIDE DEF left
  <2>2. After(t)[i] = 0
    BY <1>1, <2>1 DEF After
  <2> QED BY <1>2, <2>2 DEF left
<1>3. CASE left # 0
  <2>1. i \in DOMAIN t.updated /\ t.updated[i] = left
    BY <1>3
  <2>. HIDE DEF left
  <2>2. After(t)[i] = left
    BY <1>1, <2>1 DEF After
  <2> QED BY <2>2 DEF left
<1> QED BY <1>2, <1>3

(* What they make of the users row.                                        *)
Without(account, names) == DOMAIN account \cap names = {}

Cashed(t) ==
    /\ ColumnsFit(t.columns, user, highest, day)
    /\ Entered(t.columns, user, t.account)

LEMMA UserRow ==
    ASSUME EconomyInv
    PROVE  /\ DOMAIN user = Columns
           /\ \A c \in Columns : user[c] \in Int /\ Fits(c, user[c], highest)
           /\ user["level"] \in Nat \ {0} /\ user["level"] <= highest
           /\ highest \in Nat \ {0} /\ day \in Nat
           /\ user["spinLastTime"] <= day
BY DEF EconomyInv, UserFits, Typed, Spun, Fits, Columns

LEMMA NothingCashed ==
    ASSUME EconomyInv, NEW t, t.columns = Nothing,
           Without(t.account, {"golds", "tokens", "energy", "spins"})
    PROVE  Cashed(t)
<1>1. DOMAIN t.columns = {}
  BY DEF Nothing
<1>2. \A c : Change(t.columns, user, c) = 0
  BY <1>1 DEF Change
<1>3. \A b \in {"golds", "tokens", "energy", "spins"} : Entry(t.account, b) = 0
  BY DEF Entry, Without
<1>4. 0 * RegenTime + 0 = 0
  BY RulesAssumption
<1> QED BY <1>1, <1>2, <1>3, <1>4 DEF Cashed, ColumnsFit, Entered

LEMMA SpendingCashed ==
    ASSUME EconomyInv, NEW cost \in Nat, user["golds"] >= cost, NEW t,
           t.columns = Merge(Nothing, SubtractGolds(user, cost)),
           Without(t.account, {"tokens", "energy", "spins"}),
           "golds" \in DOMAIN t.account, t.account["golds"] = -cost
    PROVE  Cashed(t)
<1>1. DOMAIN t.columns = {"golds"} /\ t.columns["golds"] = user["golds"] - cost
  <2> DEFINE none == Nothing
             more == SubtractGolds(user, cost)
  <2>1. DOMAIN none = {}
    BY DEF Nothing
  <2>2. DOMAIN more = {"golds"} /\ more["golds"] = user["golds"] - cost
    BY DEF SubtractGolds
  <2>3. t.columns = Merge(none, more)
    OBVIOUS
  <2>. HIDE DEF none, more
  <2>4. DOMAIN Merge(none, more) = DOMAIN none \cup DOMAIN more
    BY Merging
  <2>5. \A c \in DOMAIN more : Merge(none, more)[c] = more[c]
    BY DEF Merge
  <2> QED BY <2>1, <2>2, <2>3, <2>4, <2>5
<1>2. user["golds"] \in Int
  BY UserRow DEF Columns
<1>3. ColumnsFit(t.columns, user, highest, day)
  BY <1>1, <1>2 DEF ColumnsFit, Fits, Columns
<1>4. /\ Change(t.columns, user, "golds") = -cost
      /\ \A c : c # "golds" => Change(t.columns, user, c) = 0
  BY <1>1, <1>2 DEF Change
<1>5. /\ Entry(t.account, "golds") = -cost
      /\ \A b \in {"tokens", "energy", "spins"} : Entry(t.account, b) = 0
  BY DEF Entry, Without
<1>6. 0 * RegenTime + 0 = 0
  BY RulesAssumption
<1> QED BY <1>3, <1>4, <1>5, <1>6 DEF Cashed, Entered

(* One gain opens at most one level and takes its quota off: the debt it   *)
(* may leave is less than the gain.                                        *)
LEMMA LabourCashed ==
    ASSUME EconomyInv, CanLabour, NEW t, NEW account,
           t.columns = Merge(SubstractEnergy(user, EnergyConsume),
                             AddExperiences(user, ExperiencesGain)),
           t.account = Merge([energy |-> -EnergyConsume * RegenTime], account),
           Without(account, {"golds", "tokens", "energy", "spins"})
    PROVE  Cashed(t)
<1> DEFINE quota == ComputeExperiencesQuota(user["level"])
           more  == AddExperiences(user, ExperiencesGain)
<1>1. /\ user["energy"] \in Int /\ user["experiences"] \in Int
      /\ user["energy"] >= EnergyConsume /\ user["energy"] <= GetMaxEnergy(highest)
      /\ user["experiences"] >= -ExperiencesGain
      /\ user["experiences"] < ComputeExperiencesQuota(highest)
      /\ user["level"] \in Nat \ {0} /\ user["level"] <= highest /\ highest \in Nat \ {0}
  BY UserRow DEF CanLabour, Fits, Columns
<1>2. /\ EnergyConsume \in Nat /\ ExperiencesGain \in Nat \ {0} /\ RegenTime \in Nat
  BY EconomyAssumption, RulesAssumption
<1>3. /\ quota \in Nat /\ ComputeExperiencesQuota(highest) \in Nat
      /\ quota <= ComputeExperiencesQuota(highest)
      /\ GetMaxEnergy(highest) \in Nat
  BY <1>1, LevelsAllow
<1>. HIDE DEF quota
<1>4. \/ /\ user["experiences"] + ExperiencesGain >= quota
         /\ DOMAIN more = {"level", "experiences"}
         /\ more["level"] = user["level"] + 1
         /\ more["experiences"] = user["experiences"] - quota
      \/ /\ user["experiences"] + ExperiencesGain < quota
         /\ DOMAIN more = {"experiences"}
         /\ more["experiences"] = user["experiences"] + ExperiencesGain
  BY <1>1, <1>2, <1>3 DEF AddExperiences, LevelsUp, quota
<1>. HIDE DEF more
<1>5. /\ DOMAIN t.columns = {"energy"} \cup DOMAIN more
      /\ t.columns["energy"] = user["energy"] - EnergyConsume
      /\ \A c \in DOMAIN more : t.columns[c] = more[c]
  <2> DEFINE less == SubstractEnergy(user, EnergyConsume)
  <2>1. t.columns = Merge(less, more)
    BY DEF more
  <2>2. DOMAIN less = {"energy"} /\ less["energy"] = user["energy"] - EnergyConsume
    BY DEF SubstractEnergy
  <2>3. "energy" \notin DOMAIN more
    BY <1>4
  <2>. HIDE DEF less
  <2>4. DOMAIN Merge(less, more) = DOMAIN less \cup DOMAIN more
    BY DEF Merge
  <2>5. \A c \in DOMAIN more : Merge(less, more)[c] = more[c]
    BY DEF Merge
  <2>6. "energy" \in DOMAIN less /\ "energy" \notin DOMAIN more
    BY <2>2, <2>3
  <2>7. Merge(less, more)["energy"] = less["energy"]
    BY <2>6 DEF Merge
  <2> QED BY <2>1, <2>2, <2>4, <2>5, <2>7
<1>6. Fits("energy", t.columns["energy"], highest)
  BY <1>1, <1>2, <1>3, <1>5 DEF Fits
<1>7. Fits("experiences", t.columns["experiences"], highest)
  BY <1>1, <1>2, <1>3, <1>4, <1>5 DEF Fits
<1>8. "level" \in DOMAIN t.columns =>
        Fits("level", t.columns["level"], highest) /\ t.columns["level"] >= user["level"]
  BY <1>1, <1>4, <1>5 DEF Fits
<1>9. DOMAIN t.columns \subseteq {"energy", "experiences", "level"}
  BY <1>4, <1>5
<1>10. ColumnsFit(t.columns, user, highest, day)
  BY <1>6, <1>7, <1>8, <1>9, UserRow DEF ColumnsFit, Columns
<1>11. /\ Change(t.columns, user, "energy") = -EnergyConsume
       /\ \A c \in {"golds", "tokens", "energyRegenTime", "spinLastTime"} :
              Change(t.columns, user, c) = 0
  BY <1>1, <1>2, <1>5, <1>9 DEF Change
<1>12. /\ Entry(t.account, "energy") = -(EnergyConsume * RegenTime)
       /\ \A b \in {"golds", "tokens", "spins"} : Entry(t.account, b) = 0
  <2> DEFINE cost == [energy |-> -EnergyConsume * RegenTime]
  <2>1. DOMAIN cost = {"energy"} /\ cost["energy"] = -(EnergyConsume * RegenTime)
    BY <1>2
  <2>2. t.account = Merge(cost, account)
    OBVIOUS
  <2>. HIDE DEF cost
  <2>3. DOMAIN Merge(cost, account) = DOMAIN cost \cup DOMAIN account
    BY DEF Merge
  <2>4. "energy" \in DOMAIN cost /\ "energy" \notin DOMAIN account
    BY <2>1 DEF Without
  <2>5. Merge(cost, account)["energy"] = cost["energy"]
    BY <2>4 DEF Merge
  <2> QED BY <2>1, <2>2, <2>3, <2>4, <2>5 DEF Entry, Without
<1>13. (-EnergyConsume) * RegenTime + 0 = -(EnergyConsume * RegenTime)
  BY <1>2, SMT
<1> QED BY <1>10, <1>11, <1>12, <1>13 DEF Cashed, Entered

(* Energy is not among the goods.                                          *)
LEMMA LabourEntry ==
    ASSUME NEW cost, NEW account, NEW k \in Kinds
    PROVE  Entry(Merge([energy |-> cost], account), k) = Entry(account, k)
<1> DEFINE more == [energy |-> cost]
<1>1. DOMAIN more = {"energy"} /\ k \notin {"energy"}
  BY DEF Kinds
<1>. HIDE DEF more
<1>2. /\ DOMAIN Merge(more, account) = DOMAIN more \cup DOMAIN account
      /\ \A c \in DOMAIN account : Merge(more, account)[c] = account[c]
  BY Merging
<1>3. Entry(Merge(more, account), k) = Entry(account, k)
  BY <1>1, <1>2 DEF Entry
<1> QED BY <1>3 DEF more

(* No goods at all.                                                        *)
LEMMA NoGoodsEntered ==
    ASSUME NEW t, Untouched(t), t.laid = 0, t.recovered = {},
           \A k \in Kinds : Entry(t.account, k) = 0
    PROVE  GoodsEntered(t)
<1>1. Whole(t) /\ Moved(t) = 0
  BY NothingMoves DEF Untouched
<1>2. Cardinality({}) = 0
  BY FS_EmptySet
<1> QED BY <1>1, <1>2 DEF GoodsEntered

(* Goods of one kind, and no tiles placed or recovered.                    *)
LEMMA OneKindEntered ==
    ASSUME NEW t, Whole(t), NEW n \in Int, Moved(t) = n, t.laid = 0, t.recovered = {},
           \A k \in Kinds : Entry(t.account, k) = IF k = t.kind THEN n ELSE 0
    PROVE  GoodsEntered(t)
<1>1. Cardinality({}) = 0
  BY FS_EmptySet
<1> QED BY <1>1 DEF GoodsEntered

(* The parts make a transaction.                                           *)
LEMMA PartsCompose ==
    ASSUME NEW t, Shaped(t), Cashed(t), Handled(t),
           BuildingFits(t.building, t.found, t.born, t.account),
           t.laid \in Nat, t.recovered \subseteq TileIds, GoodsEntered(t)
    PROVE  Composed(t)
BY DEF Composed, Sound, Cashed, Handled

(* Transactions that leave the building alone.                             *)
Quiet(t) == t.building = Idle /\ t.born = 0 /\ Without(t.account, {"upgrade"})

LEMMA QuietFits ==
    ASSUME NEW t, Quiet(t)
    PROVE  BuildingFits(t.building, t.found, t.born, t.account)
BY DEF Quiet, BuildingFits, Entry, Without

LEMMA LabourQuiet ==
    ASSUME NEW cost, NEW account, Without(account, {"upgrade"})
    PROVE  Without(Merge([energy |-> cost], account), {"upgrade"})
<1>1. DOMAIN Merge([energy |-> cost], account) = {"energy"} \cup DOMAIN account
  BY DEF Merge
<1> QED BY <1>1 DEF Without

----------------------------------------------------------------------------
(* The requests.                                                           *)
LEMMA BuyKeeps ==
    ASSUME EconomyInv, NEW a \in Actors, NEW kind \in {"seed", "supply"}, Buy(a, kind)
    PROVE  EconomyInv'
<1>1. PICK n \in 0 .. MaxQuantity :
        /\ user["golds"] >= Price * n
        /\ Begin(a, Adding(Spending([Blank EXCEPT
               !.account = [b \in {"golds", kind} |-> IF b = "golds" THEN -Price * n ELSE n]],
               Price * n), kind, n))
  BY DEF Buy
<1> DEFINE entry == [b \in {"golds", kind} |-> IF b = "golds" THEN -Price * n ELSE n]
           paid  == [Blank EXCEPT !.account = entry]
           spent == Spending(paid, Price * n)
           t     == Adding(spent, kind, n)
<1>2. n \in Nat /\ Price * n \in Nat
  <2>1. n \in Nat /\ Price \in Nat
    BY EconomyAssumption
  <2> QED BY <2>1, SMT
<1>3. /\ DOMAIN entry = {"golds", kind} /\ entry["golds"] = -(Price * n) /\ entry[kind] = n
  BY <1>2
<1>4. Begin(a, t)
  BY <1>1
<1>. HIDE DEF entry
<1>5. /\ Shaped(paid) /\ paid.account = entry
      /\ \A f \in Fields \ {"account"} : paid[f] = Blank[f]
  BY BlankFields DEF Shaped, Fields
<1>. HIDE DEF paid
<1>6. /\ Shaped(spent)
      /\ spent.columns = Merge(paid.columns, SubtractGolds(user, Price * n))
      /\ \A f \in Fields \ {"columns"} : spent[f] = paid[f]
  BY <1>5, SpendingFields
<1>. HIDE DEF spent
<1>7. /\ Shaped(t) /\ t.kind = kind /\ t.stacks = StacksOf(kind)
      /\ t.saved = ToppedUp(StacksOf(kind), n) /\ t.opened = Opened(StacksOf(kind), n)
      /\ \A f \in Fields \ {"kind", "stacks", "saved", "opened"} : t[f] = spent[f]
  BY <1>6, AddingFields
<1>. HIDE DEF t
<1>8. /\ t.columns = Merge(Nothing, SubtractGolds(user, Price * n)) /\ t.account = entry
      /\ t.updated = Nothing /\ t.removed = {} /\ t.building = Idle /\ t.born = 0
      /\ t.laid = 0 /\ t.recovered = {}
  BY <1>5, <1>6, <1>7, BlankFields DEF Fields
<1>9. Cashed(t)
  BY <1>1, <1>2, <1>3, <1>8, SpendingCashed DEF Without
<1>10. Handled(t)
  BY <1>2, <1>7, <1>8, AddedHandled DEF Kinds
<1>11. Quiet(t)
  BY <1>3, <1>8 DEF Quiet, Without
<1>g. GoodsEntered(t)
  <2>1. Whole(t) /\ Moved(t) = n
    BY <1>2, <1>7, AddingMoves
  <2>2. \A k \in Kinds : Entry(t.account, k) = IF k = t.kind THEN n ELSE 0
    BY <1>3, <1>7, <1>8 DEF Entry, Kinds
  <2> QED BY <1>2, <1>8, <2>1, <2>2, OneKindEntered
<1>12. Composed(t)
  BY <1>7, <1>8, <1>9, <1>10, <1>11, <1>g, QuietFits, PartsCompose
<1> QED BY <1>4, <1>12, BeginKeeps

LEMMA BuyTileKeeps ==
    ASSUME EconomyInv, NEW a \in Actors, BuyTile(a)
    PROVE  EconomyInv'
<1> DEFINE entry == [golds |-> -Price, tile |-> 1]
           paid  == [Blank EXCEPT !.laid = 1, !.account = entry]
           t     == Spending(paid, Price)
<1>1. user["golds"] >= Price /\ Begin(a, t) /\ Price \in Nat
  BY EconomyAssumption DEF BuyTile
<1>2. DOMAIN entry = {"golds", "tile"} /\ entry["golds"] = -Price /\ entry["tile"] = 1
  OBVIOUS
<1>. HIDE DEF entry
<1>3. /\ Shaped(paid) /\ paid.account = entry /\ paid.laid = 1
      /\ \A f \in Fields \ {"account", "laid"} : paid[f] = Blank[f]
  BY BlankFields DEF Shaped, Fields
<1>. HIDE DEF paid
<1>4. /\ Shaped(t)
      /\ t.columns = Merge(paid.columns, SubtractGolds(user, Price))
      /\ \A f \in Fields \ {"columns"} : t[f] = paid[f]
  BY <1>3, SpendingFields
<1>. HIDE DEF t
<1>5. /\ t.columns = Merge(Nothing, SubtractGolds(user, Price)) /\ t.account = entry
      /\ t.kind = "none" /\ t.stacks = Nothing /\ t.saved = Nothing /\ t.opened = <<>>
      /\ t.updated = Nothing /\ t.removed = {} /\ t.building = Idle /\ t.born = 0
      /\ t.laid = 1 /\ t.recovered = {}
  BY <1>3, <1>4, BlankFields DEF Fields
<1>6. Cashed(t)
  BY <1>1, <1>2, <1>5, SpendingCashed DEF Without
<1>7. Handled(t)
  BY <1>5, UntouchedHandled DEF Untouched
<1>8. Quiet(t)
  BY <1>2, <1>5 DEF Quiet, Without
<1>g. GoodsEntered(t)
  <2>1. Whole(t) /\ Moved(t) = 0 /\ Cardinality({}) = 0
    BY <1>5, NothingMoves, FS_EmptySet
  <2>2. \A k \in Kinds : Entry(t.account, k) = IF k = "tile" THEN 1 ELSE 0
    BY <1>2, <1>5 DEF Entry, Kinds
  <2> QED BY <1>5, <2>1, <2>2 DEF GoodsEntered
<1>9. Composed(t)
  BY <1>4, <1>5, <1>6, <1>7, <1>8, <1>g, QuietFits, PartsCompose
<1> QED BY <1>1, <1>9, BeginKeeps

(* The three requests that save a building differ in what they save.       *)
SavingBuilding(new, born, entry) ==
    Spending([Blank EXCEPT !.building = new, !.found = building, !.born = born,
                           !.account = entry], Price)

LEMMA SavingBuildingKeeps ==
    ASSUME EconomyInv, NEW a \in Actors, NEW new, NEW born, NEW entry,
           Begin(a, SavingBuilding(new, born, entry)), user["golds"] >= Price,
           "golds" \in DOMAIN entry, DOMAIN entry \subseteq {"golds", "upgrade"},
           entry["golds"] = -Price,
           BuildingFits(new, building, born, entry)
    PROVE  EconomyInv'
<1> DEFINE paid == [Blank EXCEPT !.building = new, !.found = building, !.born = born,
                                 !.account = entry]
           t    == Spending(paid, Price)
<1>1. Begin(a, t) /\ Price \in Nat
  BY EconomyAssumption DEF SavingBuilding
<1>2. /\ Shaped(paid) /\ paid.building = new /\ paid.found = building /\ paid.born = born
      /\ paid.account = entry
      /\ \A f \in Fields \ {"building", "found", "born", "account"} : paid[f] = Blank[f]
  BY BlankFields DEF Shaped, Fields
<1>. HIDE DEF paid
<1>3. /\ Shaped(t)
      /\ t.columns = Merge(paid.columns, SubtractGolds(user, Price))
      /\ \A f \in Fields \ {"columns"} : t[f] = paid[f]
  BY <1>2, SpendingFields
<1>. HIDE DEF t
<1>4. /\ t.columns = Merge(Nothing, SubtractGolds(user, Price)) /\ t.account = entry
      /\ t.kind = "none" /\ t.stacks = Nothing /\ t.saved = Nothing /\ t.opened = <<>>
      /\ t.updated = Nothing /\ t.removed = {} /\ t.building = new /\ t.born = born
      /\ t.found = building /\ t.laid = 0 /\ t.recovered = {}
  BY <1>2, <1>3, BlankFields DEF Fields
<1>5. Cashed(t)
  BY <1>1, <1>4, SpendingCashed DEF Without
<1>6. Handled(t)
  BY <1>4, UntouchedHandled DEF Untouched
<1>g. GoodsEntered(t)
  <2>1. \A k \in Kinds : Entry(t.account, k) = 0
    BY <1>4 DEF Entry, Kinds
  <2> QED BY <1>4, <2>1, NoGoodsEntered DEF Untouched
<1>7. Composed(t)
  BY <1>3, <1>4, <1>5, <1>6, <1>g, PartsCompose
<1> QED BY <1>1, <1>7, BeginKeeps

LEMMA ConstructBuildingKeeps ==
    ASSUME EconomyInv, NEW a \in Actors, ConstructBuilding(a)
    PROVE  EconomyInv'
<1> DEFINE new   == [currentUpgrade |-> 1, occupancy |-> 0]
           entry == [golds |-> -Price, upgrade |-> 1]
<1>1. /\ building = NoBuilding /\ user["golds"] >= Price
      /\ Begin(a, Spending([Blank EXCEPT !.building = new, !.found = building,
                                         !.account = entry], Price))
  BY DEF ConstructBuilding
<1>2. [Blank EXCEPT !.building = new, !.found = building, !.account = entry]
      = [Blank EXCEPT !.building = new, !.found = building, !.born = 0, !.account = entry]
  <2>. HIDE DEF new, entry
  <2> QED BY BlankFields DEF Shaped, Fields
<1>3. Begin(a, SavingBuilding(new, 0, entry))
  BY <1>1, <1>2 DEF SavingBuilding
<1>4. DOMAIN entry = {"golds", "upgrade"} /\ entry["golds"] = -Price /\ Entry(entry, "upgrade") = 1
  BY DEF Entry
<1>5. new \in BuildingInfo
  BY EconomyAssumption DEF BuildingInfo
<1>. HIDE DEF entry
<1>6. BuildingFits(new, building, 0, entry)
  BY <1>1, <1>4, <1>5, MarksDiffer DEF BuildingFits, Built
<1> QED BY <1>1, <1>3, <1>4, <1>6, SavingBuildingKeeps

(* An animal is bought into the player's building, by the player or, for a *)
(* neighbour's golds, by a neighbour.                                      *)
LEMMA HousedFits ==
    ASSUME EconomyInv, HasSpace, NEW account, Entry(account, "upgrade") = 0
    PROVE  BuildingFits([building EXCEPT !.occupancy = @ + 1], building, 1, account)
<1> DEFINE new == [building EXCEPT !.occupancy = @ + 1]
<1>1. /\ building # NoBuilding
      /\ building.currentUpgrade + 1 \in DOMAIN Capacities
      /\ building.occupancy < Capacities[building.currentUpgrade + 1]
  BY DEF HasSpace
<1>2. building \in BuildingInfo
  BY <1>1 DEF EconomyInv, Typed
<1>3. /\ new \in BuildingInfo /\ new.currentUpgrade = building.currentUpgrade
      /\ new.occupancy = building.occupancy + 1 /\ building.currentUpgrade \in Int
  BY <1>2 DEF BuildingInfo
<1>. HIDE DEF new
<1>4. BuildingFits(new, building, 1, account)
  BY <1>1, <1>2, <1>3, MarksDiffer DEF BuildingFits, Built
<1> QED BY <1>4 DEF new

LEMMA BuyAnimalHereKeeps ==
    ASSUME EconomyInv, NEW a \in Actors, HasSpace, user["golds"] >= Price,
           Begin(a, Spending(Housed([Blank EXCEPT !.account = [golds |-> -Price]]), Price))
    PROVE  EconomyInv'
<1> DEFINE new   == [building EXCEPT !.occupancy = @ + 1]
           entry == [golds |-> -Price]
<1>1. Housed([Blank EXCEPT !.account = entry])
      = [Blank EXCEPT !.building = new, !.found = building, !.born = 1, !.account = entry]
  <2>. HIDE DEF new, entry
  <2>1. Shaped(Blank)
    BY BlankFields
  <2>2. [[Blank EXCEPT !.account = entry] EXCEPT !.building = new, !.found = building, !.born = 1]
        = [Blank EXCEPT !.building = new, !.found = building, !.born = 1, !.account = entry]
    BY <2>1 DEF Shaped, Fields
  <2> QED BY <2>2 DEF Housed, new
<1>2. Begin(a, SavingBuilding(new, 1, entry))
  BY <1>1 DEF SavingBuilding
<1>3. DOMAIN entry = {"golds"} /\ entry["golds"] = -Price /\ Entry(entry, "upgrade") = 0
  BY DEF Entry
<1>. HIDE DEF entry
<1>4. BuildingFits(new, building, 1, entry)
  BY <1>3, HousedFits
<1>. HIDE DEF new
<1> QED BY <1>2, <1>3, <1>4, SavingBuildingKeeps

LEMMA BuyAnimalThereKeeps ==
    ASSUME EconomyInv, NEW a \in Actors, user["golds"] >= Price,
           Begin(a, Spending([Blank EXCEPT !.account = [golds |-> -Price]], Price))
    PROVE  EconomyInv'
<1> DEFINE entry == [golds |-> -Price]
           paid  == [Blank EXCEPT !.account = entry]
           t     == Spending(paid, Price)
<1>1. Begin(a, t) /\ Price \in Nat
  BY EconomyAssumption
<1>2. DOMAIN entry = {"golds"} /\ entry["golds"] = -Price
  OBVIOUS
<1>. HIDE DEF entry
<1>3. /\ Shaped(paid) /\ paid.account = entry
      /\ \A f \in Fields \ {"account"} : paid[f] = Blank[f]
  BY BlankFields DEF Shaped, Fields
<1>. HIDE DEF paid
<1>4. /\ Shaped(t)
      /\ t.columns = Merge(paid.columns, SubtractGolds(user, Price))
      /\ \A f \in Fields \ {"columns"} : t[f] = paid[f]
  BY <1>3, SpendingFields
<1>. HIDE DEF t
<1>5. /\ t.columns = Merge(Nothing, SubtractGolds(user, Price)) /\ t.account = entry
      /\ t.kind = "none" /\ t.stacks = Nothing /\ t.saved = Nothing /\ t.opened = <<>>
      /\ t.updated = Nothing /\ t.removed = {} /\ t.building = Idle /\ t.born = 0
      /\ t.laid = 0 /\ t.recovered = {}
  BY <1>3, <1>4, BlankFields DEF Fields
<1>6. Cashed(t)
  BY <1>1, <1>2, <1>5, SpendingCashed DEF Without
<1>7. Handled(t)
  BY <1>5, UntouchedHandled DEF Untouched
<1>8. Quiet(t)
  BY <1>2, <1>5 DEF Quiet, Without
<1>g. GoodsEntered(t)
  <2>1. \A k \in Kinds : Entry(t.account, k) = 0
    BY <1>2, <1>5 DEF Entry, Kinds
  <2> QED BY <1>5, <2>1, NoGoodsEntered DEF Untouched
<1>9. Composed(t)
  BY <1>4, <1>5, <1>6, <1>7, <1>8, <1>g, QuietFits, PartsCompose
<1> QED BY <1>1, <1>9, BeginKeeps

LEMMA BuyAnimalByNeighbourKeeps ==
    ASSUME EconomyInv, NEW a \in Actors, HasSpace, Begin(a, Housed(Blank))
    PROVE  EconomyInv'
<1> DEFINE new == [building EXCEPT !.occupancy = @ + 1]
           t   == Housed(Blank)
<1>1. /\ Shaped(t) /\ t.building = new /\ t.found = building /\ t.born = 1
      /\ \A f \in Fields \ {"building", "found", "born"} : t[f] = Blank[f]
  <2>. HIDE DEF new
  <2>1. Shaped(Blank)
    BY BlankFields
  <2> DEFINE u == [Blank EXCEPT !.building = new, !.found = building, !.born = 1]
  <2>2. /\ Shaped(u) /\ u.building = new /\ u.found = building /\ u.born = 1
        /\ \A f \in Fields \ {"building", "found", "born"} : u[f] = Blank[f]
    BY <2>1 DEF Shaped, Fields
  <2>3. t = u
    BY DEF Housed, new
  <2> QED BY <2>2, <2>3
<1>2. Begin(a, t)
  OBVIOUS
<1>. HIDE DEF t
<1>3. /\ t.columns = Nothing /\ t.account = Nothing
      /\ t.kind = "none" /\ t.stacks = Nothing /\ t.saved = Nothing /\ t.opened = <<>>
      /\ t.updated = Nothing /\ t.removed = {} /\ t.laid = 0 /\ t.recovered = {}
  BY <1>1, BlankFields DEF Fields
<1>4. Without(Nothing, {"golds", "tokens", "energy", "spins"}) /\ Entry(Nothing, "upgrade") = 0
  BY DEF Without, Nothing, Entry
<1>5. Cashed(t)
  BY <1>3, <1>4, NothingCashed
<1>6. Handled(t)
  BY <1>3, UntouchedHandled DEF Untouched
<1>7. BuildingFits(t.building, t.found, t.born, t.account)
  BY <1>1, <1>3, <1>4, HousedFits
<1>g. GoodsEntered(t)
  <2>1. \A k \in Kinds : Entry(t.account, k) = 0
    BY <1>3 DEF Entry, Nothing
  <2> QED BY <1>3, <2>1, NoGoodsEntered DEF Untouched
<1>8. Composed(t)
  BY <1>1, <1>3, <1>5, <1>6, <1>7, <1>g, PartsCompose
<1> QED BY <1>2, <1>8, BeginKeeps

LEMMA BuyAnimalKeeps ==
    ASSUME EconomyInv, NEW a \in Actors, BuyAnimal(a)
    PROVE  EconomyInv'
BY BuyAnimalHereKeeps, BuyAnimalThereKeeps, BuyAnimalByNeighbourKeeps DEF BuyAnimal

LEMMA UpgradeBuildingKeeps ==
    ASSUME EconomyInv, NEW a \in Actors, UpgradeBuilding(a)
    PROVE  EconomyInv'
<1> DEFINE new   == [building EXCEPT !.currentUpgrade = @ + 1]
           entry == [golds |-> -Price, upgrade |-> 1]
<1>1. /\ building # NoBuilding /\ user["golds"] >= Price
      /\ building.currentUpgrade < Len(Capacities)
      /\ Begin(a, Spending([Blank EXCEPT !.building = new, !.found = building,
                                         !.account = entry], Price))
  BY DEF UpgradeBuilding
<1>2. [Blank EXCEPT !.building = new, !.found = building, !.account = entry]
      = [Blank EXCEPT !.building = new, !.found = building, !.born = 0, !.account = entry]
  <2>. HIDE DEF new, entry
  <2> QED BY BlankFields DEF Shaped, Fields
<1>3. Begin(a, SavingBuilding(new, 0, entry))
  BY <1>1, <1>2 DEF SavingBuilding
<1>4. DOMAIN entry = {"golds", "upgrade"} /\ entry["golds"] = -Price /\ Entry(entry, "upgrade") = 1
  BY DEF Entry
<1>5. building \in BuildingInfo /\ Len(Capacities) \in Nat
  BY <1>1, EconomyAssumption DEF EconomyInv, Typed
<1>6. /\ new \in BuildingInfo /\ new.currentUpgrade = building.currentUpgrade + 1
      /\ new.occupancy = building.occupancy /\ building.occupancy \in Nat
  BY <1>1, <1>5 DEF BuildingInfo
<1>. HIDE DEF entry, new
<1>7. BuildingFits(new, building, 0, entry)
  BY <1>1, <1>4, <1>5, <1>6, MarksDiffer DEF BuildingFits, Built
<1> QED BY <1>1, <1>3, <1>4, <1>7, SavingBuildingKeeps

LEMMA LabourKeeps ==
    ASSUME EconomyInv, NEW a \in Actors, CanLabour, Begin(a, Labour(Blank))
    PROVE  EconomyInv'
<1> DEFINE t == Labour(Blank)
<1>1. CanLabour /\ Begin(a, t)
  OBVIOUS
<1>2. /\ Shaped(t)
      /\ t.columns = Merge(SubstractEnergy(user, EnergyConsume),
                           AddExperiences(user, ExperiencesGain))
      /\ t.account = Merge([energy |-> -EnergyConsume * RegenTime], Nothing)
      /\ \A f \in Fields \ {"columns", "account"} : t[f] = Blank[f]
  BY BlankFields, LabourFields
<1>. HIDE DEF t
<1>3. /\ t.kind = "none" /\ t.stacks = Nothing /\ t.saved = Nothing /\ t.opened = <<>>
      /\ t.updated = Nothing /\ t.removed = {} /\ t.building = Idle /\ t.born = 0
      /\ t.laid = 0 /\ t.recovered = {}
  BY <1>2, BlankFields DEF Fields
<1>4. Without(Nothing, {"golds", "tokens", "energy", "spins"}) /\ Without(Nothing, {"upgrade"})
  BY DEF Without, Nothing
<1>5. Cashed(t)
  BY <1>1, <1>2, <1>4, LabourCashed
<1>6. Handled(t)
  BY <1>3, UntouchedHandled DEF Untouched
<1>7. Quiet(t)
  BY <1>2, <1>3, <1>4, LabourQuiet DEF Quiet
<1>g. GoodsEntered(t)
  <2>1. \A k \in Kinds : Entry(t.account, k) = 0
    BY <1>2, LabourEntry DEF Entry, Nothing
  <2> QED BY <1>3, <2>1, NoGoodsEntered DEF Untouched
<1>8. Composed(t)
  BY <1>2, <1>3, <1>5, <1>6, <1>7, <1>g, QuietFits, PartsCompose
<1> QED BY <1>1, <1>8, BeginKeeps

LEMMA WaterKeeps ==
    ASSUME EconomyInv, NEW a \in Actors, Water(a)
    PROVE  EconomyInv'
BY LabourKeeps DEF Water

LEMMA ThiefKeeps ==
    ASSUME EconomyInv, NEW a \in Actors, Thief(a)
    PROVE  EconomyInv'
<1> DEFINE entry  == [product |-> 1]
           robbed == [Blank EXCEPT !.account = entry]
           worked == Labour(robbed)
           t      == Adding(worked, "product", 1)
<1>1. CanLabour /\ Begin(a, t)
  BY DEF Thief
<1>2. DOMAIN entry = {"product"} /\ entry["product"] = 1
  OBVIOUS
<1>. HIDE DEF entry
<1>3. /\ Shaped(robbed) /\ robbed.account = entry
      /\ \A f \in Fields \ {"account"} : robbed[f] = Blank[f]
  BY BlankFields DEF Shaped, Fields
<1>. HIDE DEF robbed
<1>4. /\ Shaped(worked)
      /\ worked.columns = Merge(SubstractEnergy(user, EnergyConsume),
                                AddExperiences(user, ExperiencesGain))
      /\ worked.account = Merge([energy |-> -EnergyConsume * RegenTime], entry)
      /\ \A f \in Fields \ {"columns", "account"} : worked[f] = robbed[f]
  BY <1>3, LabourFields
<1>. HIDE DEF worked
<1>5. /\ Shaped(t) /\ t.kind = "product" /\ t.stacks = StacksOf("product")
      /\ t.saved = ToppedUp(StacksOf("product"), 1) /\ t.opened = Opened(StacksOf("product"), 1)
      /\ \A f \in Fields \ {"kind", "stacks", "saved", "opened"} : t[f] = worked[f]
  BY <1>4, AddingFields
<1>. HIDE DEF t
<1>6. /\ t.columns = worked.columns /\ t.account = worked.account
      /\ t.updated = Nothing /\ t.removed = {} /\ t.building = Idle /\ t.born = 0
      /\ t.laid = 0 /\ t.recovered = {}
  BY <1>3, <1>4, <1>5, BlankFields DEF Fields
<1>7. Without(entry, {"golds", "tokens", "energy", "spins"}) /\ Without(entry, {"upgrade"})
  BY <1>2 DEF Without
<1>8. Cashed(t)
  BY <1>1, <1>4, <1>6, <1>7, LabourCashed
<1>9. Handled(t)
  BY <1>5, <1>6, AddedHandled DEF Kinds
<1>10. Quiet(t)
  BY <1>4, <1>6, <1>7, LabourQuiet DEF Quiet
<1>g. GoodsEntered(t)
  <2>1. Whole(t) /\ Moved(t) = 1
    BY <1>5, AddingMoves
  <2>2. \A k \in Kinds : Entry(t.account, k) = Entry(entry, k)
    BY <1>4, <1>6, LabourEntry
  <2>3. \A k \in Kinds : Entry(t.account, k) = IF k = t.kind THEN 1 ELSE 0
    BY <1>2, <1>5, <2>2 DEF Entry
  <2> QED BY <1>6, <2>1, <2>3, OneKindEntered
<1>11. Composed(t)
  BY <1>5, <1>6, <1>8, <1>9, <1>10, <1>g, QuietFits, PartsCompose
<1> QED BY <1>1, <1>11, BeginKeeps

(* Planting and feeding take one unit of a row.                            *)
LEMMA PlantOwnSeedKeeps ==
    ASSUME EconomyInv, NEW a \in Actors, CanLabour, NEW i \in RowsOf("seed"),
           Begin(a, TakingOne(Labour([Blank EXCEPT !.account = [seed |-> -1]]), i))
    PROVE  EconomyInv'
<1> DEFINE entry  == [seed |-> -1]
           sown   == [Blank EXCEPT !.account = entry]
           worked == Labour(sown)
           t      == TakingOne(worked, i)
<1>1. CanLabour
  OBVIOUS
<1>2. Begin(a, t)
  OBVIOUS
<1>3. DOMAIN entry = {"seed"} /\ entry["seed"] = -1
  OBVIOUS
<1>. HIDE DEF entry
<1>4. /\ Shaped(sown) /\ sown.account = entry
      /\ \A f \in Fields \ {"account"} : sown[f] = Blank[f]
  BY BlankFields DEF Shaped, Fields
<1>. HIDE DEF sown
<1>5. /\ Shaped(worked)
      /\ worked.columns = Merge(SubstractEnergy(user, EnergyConsume),
                                AddExperiences(user, ExperiencesGain))
      /\ worked.account = Merge([energy |-> -EnergyConsume * RegenTime], entry)
      /\ \A f \in Fields \ {"columns", "account"} : worked[f] = sown[f]
  BY <1>4, LabourFields
<1>. HIDE DEF worked
<1>6. /\ Shaped(t) /\ t.kind = rows[i].kind /\ t.stacks = [j \in {i} |-> rows[j].quantity]
      /\ t.updated = [j \in {i} \ {k \in {i} : rows[i].quantity - 1 = 0} |-> rows[i].quantity - 1]
      /\ t.removed = {k \in {i} : rows[i].quantity - 1 = 0}
      /\ \A f \in Fields \ {"kind", "stacks", "updated", "removed"} : t[f] = worked[f]
  BY <1>5, TakingFields
<1>7. Begin(a, t)
  BY <1>2
<1>. HIDE DEF t
<1>8. /\ t.columns = worked.columns /\ t.account = worked.account
      /\ t.saved = Nothing /\ t.opened = <<>> /\ t.building = Idle /\ t.born = 0
      /\ t.laid = 0 /\ t.recovered = {}
  BY <1>4, <1>5, <1>6, BlankFields DEF Fields
<1>9. Without(entry, {"golds", "tokens", "energy", "spins"}) /\ Without(entry, {"upgrade"})
  BY <1>3 DEF Without
<1>10. Cashed(t)
  BY <1>1, <1>5, <1>8, <1>9, LabourCashed
<1>11. Handled(t)
  <2>1. "seed" \in Kinds \ {"supply"}
    BY DEF Kinds
  <2> QED BY <1>6, <1>8, <2>1, TakenHandled
<1>12. Quiet(t)
  BY <1>5, <1>8, <1>9, LabourQuiet DEF Quiet
<1>g. GoodsEntered(t)
  <2>1. rows[i].kind = "seed" /\ rows[i].quantity \in Int
    BY RowsFound DEF Holds
  <2>2. After(t)[i] = rows[i].quantity - 1
    BY <1>6, <1>8, <2>1, TakenRow
  <2>3. Whole(t) /\ Moved(t) = -1
    BY <1>6, <1>8, <2>1, <2>2, TakingMoves
  <2>4. \A k \in Kinds : Entry(t.account, k) = Entry(entry, k)
    BY <1>5, <1>8, LabourEntry
  <2>5. \A k \in Kinds : Entry(t.account, k) = IF k = t.kind THEN -1 ELSE 0
    BY <1>3, <1>6, <2>1, <2>4 DEF Entry
  <2> QED BY <1>8, <2>3, <2>5, OneKindEntered
<1>13. Composed(t)
  BY <1>6, <1>8, <1>10, <1>11, <1>12, <1>g, QuietFits, PartsCompose
<1> QED BY <1>7, <1>13, BeginKeeps

(* (by a neighbour, who spends his own energy)                             *)
LEMMA SeedTakenKeeps ==
    ASSUME EconomyInv, NEW a \in Actors, NEW i \in RowsOf("seed"),
           Begin(a, TakingOne([Blank EXCEPT !.account = [seed |-> -1]], i))
    PROVE  EconomyInv'
<1> DEFINE entry == [seed |-> -1]
           base  == [Blank EXCEPT !.account = entry]
           t     == TakingOne(base, i)
<1>1. Begin(a, t)
  OBVIOUS
<1>e. DOMAIN entry = {"seed"} /\ entry["seed"] = -1
  OBVIOUS
<1>. HIDE DEF entry
<1>2. /\ Shaped(base) /\ base.account = entry
      /\ \A f \in Fields \ {"account"} : base[f] = Blank[f]
  BY BlankFields DEF Shaped, Fields
<1>. HIDE DEF base
<1>3. /\ Shaped(t) /\ t.kind = rows[i].kind /\ t.stacks = [j \in {i} |-> rows[j].quantity]
      /\ t.updated = [j \in {i} \ {k \in {i} : rows[i].quantity - 1 = 0} |-> rows[i].quantity - 1]
      /\ t.removed = {k \in {i} : rows[i].quantity - 1 = 0}
      /\ \A f \in Fields \ {"kind", "stacks", "updated", "removed"} : t[f] = base[f]
  BY <1>2, TakingFields
<1>4. Begin(a, t)
  BY <1>1
<1>. HIDE DEF t
<1>5. /\ t.columns = Nothing /\ t.account = entry
      /\ t.saved = Nothing /\ t.opened = <<>> /\ t.building = Idle /\ t.born = 0
      /\ t.laid = 0 /\ t.recovered = {}
  BY <1>2, <1>3, BlankFields DEF Fields
<1>6. Without(entry, {"golds", "tokens", "energy", "spins"}) /\ Without(entry, {"upgrade"})
  BY <1>e DEF Without
<1>7. Cashed(t)
  BY <1>5, <1>6, NothingCashed
<1>8. Handled(t)
  <2>1. "seed" \in Kinds \ {"supply"}
    BY DEF Kinds
  <2> QED BY <1>3, <1>5, <2>1, TakenHandled
<1>9. Quiet(t)
  BY <1>5, <1>6 DEF Quiet
<1>g. GoodsEntered(t)
  <2>1. rows[i].kind = "seed" /\ rows[i].quantity \in Int
    BY RowsFound DEF Holds
  <2>2. After(t)[i] = rows[i].quantity - 1
    BY <1>3, <1>5, <2>1, TakenRow
  <2>3. Whole(t) /\ Moved(t) = -1
    BY <1>3, <1>5, <2>1, <2>2, TakingMoves
  <2>4. \A k \in Kinds : Entry(t.account, k) = IF k = t.kind THEN -1 ELSE 0
    BY <1>3, <1>5, <1>e, <2>1 DEF Entry
  <2> QED BY <1>5, <2>3, <2>4, OneKindEntered
<1>10. Composed(t)
  BY <1>3, <1>5, <1>7, <1>8, <1>9, <1>g, QuietFits, PartsCompose
<1> QED BY <1>4, <1>10, BeginKeeps

LEMMA PlantSeedKeeps ==
    ASSUME EconomyInv, NEW a \in Actors, PlantSeed(a)
    PROVE  EconomyInv'
BY PlantOwnSeedKeeps, LabourKeeps, SeedTakenKeeps DEF PlantSeed

LEMMA UseSupplyKeeps ==
    ASSUME EconomyInv, NEW a \in Actors, UseSupply(a)
    PROVE  EconomyInv'
<1> DEFINE entry  == [supply |-> -1]
           used   == [Blank EXCEPT !.account = entry]
           worked == Labour(used)
<1>1. CanLabour
  BY DEF UseSupply
<1>2. PICK i \in RowsOf("supply") :
        Begin(a, [worked EXCEPT !.kind = "supply",
                                !.stacks = [j \in {i} |-> rows[j].quantity],
                                !.updated = [j \in {i} |-> rows[j].quantity - 1]])
  BY DEF UseSupply
<1> DEFINE t == [worked EXCEPT !.kind = "supply",
                               !.stacks = [j \in {i} |-> rows[j].quantity],
                               !.updated = [j \in {i} |-> rows[j].quantity - 1]]
<1>3. DOMAIN entry = {"supply"} /\ entry["supply"] = -1
  OBVIOUS
<1>. HIDE DEF entry
<1>4. /\ Shaped(used) /\ used.account = entry
      /\ \A f \in Fields \ {"account"} : used[f] = Blank[f]
  BY BlankFields DEF Shaped, Fields
<1>. HIDE DEF used
<1>5. /\ Shaped(worked)
      /\ worked.columns = Merge(SubstractEnergy(user, EnergyConsume),
                                AddExperiences(user, ExperiencesGain))
      /\ worked.account = Merge([energy |-> -EnergyConsume * RegenTime], entry)
      /\ \A f \in Fields \ {"columns", "account"} : worked[f] = used[f]
  BY <1>4, LabourFields
<1>. HIDE DEF worked
<1>6. /\ Shaped(t) /\ t.kind = "supply" /\ t.stacks = [j \in {i} |-> rows[j].quantity]
      /\ t.updated = [j \in {i} |-> rows[j].quantity - 1]
      /\ \A f \in Fields \ {"kind", "stacks", "updated"} : t[f] = worked[f]
  BY <1>5 DEF Shaped, Fields
<1>7. Begin(a, t)
  BY <1>2
<1>. HIDE DEF t
<1>8. /\ t.columns = worked.columns /\ t.account = worked.account
      /\ t.saved = Nothing /\ t.opened = <<>> /\ t.removed = {} /\ t.building = Idle
      /\ t.born = 0 /\ t.laid = 0 /\ t.recovered = {}
  BY <1>4, <1>5, <1>6, BlankFields DEF Fields
<1>9. Without(entry, {"golds", "tokens", "energy", "spins"}) /\ Without(entry, {"upgrade"})
  BY <1>3 DEF Without
<1>10. Cashed(t)
  BY <1>1, <1>5, <1>8, <1>9, LabourCashed
<1>11. Handled(t)
  <2>1. /\ i \in RowIds /\ IsRow(i) /\ rows[i].kind = "supply"
        /\ rows[i].quantity \in Int /\ rows[i].quantity <= MaxStack
    BY RowsFound DEF Holds
  <2>2. Holds("supply", rows[i].quantity - 1)
    BY <2>1, RulesAssumption DEF Holds
  <2>3. DOMAIN t.stacks = {i} /\ DOMAIN t.updated = {i} /\ t.updated[i] = rows[i].quantity - 1
    BY <1>6
  <2>4. <<>> \in Seq(Int) /\ DOMAIN (<<>>) = {} /\ DOMAIN Nothing = {}
    BY DEF Nothing
  <2> QED BY <1>6, <1>8, <2>1, <2>2, <2>3, <2>4 DEF Handled, GoodsFit, Kinds
<1>12. Quiet(t)
  BY <1>5, <1>8, <1>9, LabourQuiet DEF Quiet
<1>g. GoodsEntered(t)
  <2>1. rows[i].quantity \in Int
    BY RowsFound DEF Holds
  <2>2. After(t)[i] = rows[i].quantity - 1
    <3>1. DOMAIN t.stacks = {i} /\ DOMAIN t.saved = {} /\ DOMAIN t.updated = {i}
          /\ t.updated[i] = rows[i].quantity - 1
      BY <1>6, <1>8 DEF Nothing
    <3> QED BY <3>1 DEF After
  <2>3. Whole(t) /\ Moved(t) = -1
    BY <1>6, <1>8, <2>1, <2>2, TakingMoves
  <2>4. \A k \in Kinds : Entry(t.account, k) = Entry(entry, k)
    BY <1>5, <1>8, LabourEntry
  <2>5. \A k \in Kinds : Entry(t.account, k) = IF k = t.kind THEN -1 ELSE 0
    BY <1>3, <1>6, <2>4 DEF Entry
  <2> QED BY <1>8, <2>3, <2>5, OneKindEntered
<1>13. Composed(t)
  BY <1>6, <1>8, <1>10, <1>11, <1>12, <1>g, QuietFits, PartsCompose
<1> QED BY <1>7, <1>13, BeginKeeps

LEMMA PlaceTileKeeps ==
    ASSUME EconomyInv, NEW a \in Actors, PlaceTile(a)
    PROVE  EconomyInv'
<1> DEFINE base == [Blank EXCEPT !.laid = 1]
<1>1. PICK i \in RowsOf("tile") : Begin(a, TakingOne(base, i))
  BY DEF PlaceTile
<1> DEFINE t == TakingOne(base, i)
<1>2. /\ Shaped(base) /\ base.laid = 1
      /\ \A f \in Fields \ {"laid"} : base[f] = Blank[f]
  BY BlankFields DEF Shaped, Fields
<1>. HIDE DEF base
<1>3. /\ Shaped(t) /\ t.kind = rows[i].kind /\ t.stacks = [j \in {i} |-> rows[j].quantity]
      /\ t.updated = [j \in {i} \ {k \in {i} : rows[i].quantity - 1 = 0} |-> rows[i].quantity - 1]
      /\ t.removed = {k \in {i} : rows[i].quantity - 1 = 0}
      /\ \A f \in Fields \ {"kind", "stacks", "updated", "removed"} : t[f] = base[f]
  BY <1>2, TakingFields
<1>4. Begin(a, t)
  BY <1>1
<1>. HIDE DEF t
<1>5. /\ t.columns = Nothing /\ t.account = Nothing
      /\ t.saved = Nothing /\ t.opened = <<>> /\ t.building = Idle /\ t.born = 0
      /\ t.laid = 1 /\ t.recovered = {}
  BY <1>2, <1>3, BlankFields DEF Fields
<1>6. Without(Nothing, {"golds", "tokens", "energy", "spins"}) /\ Without(Nothing, {"upgrade"})
  BY DEF Without, Nothing
<1>7. Cashed(t)
  BY <1>5, <1>6, NothingCashed
<1>8. Handled(t)
  <2>1. "tile" \in Kinds \ {"supply"}
    BY DEF Kinds
  <2> QED BY <1>3, <1>5, <2>1, TakenHandled
<1>9. Quiet(t)
  BY <1>5, <1>6 DEF Quiet
<1>g. GoodsEntered(t)
  <2>1. rows[i].kind = "tile" /\ rows[i].quantity \in Int
    BY RowsFound DEF Holds
  <2>2. After(t)[i] = rows[i].quantity - 1
    BY <1>3, <1>5, <2>1, TakenRow
  <2>3. Whole(t) /\ Moved(t) = -1
    BY <1>3, <1>5, <2>1, <2>2, TakingMoves
  <2>4. \A k \in Kinds : Entry(t.account, k) = 0
    BY <1>5 DEF Entry, Nothing
  <2>5. Cardinality({}) = 0 /\ t.kind = "tile"
    BY <1>3, <2>1, FS_EmptySet
  <2> QED BY <1>5, <2>3, <2>4, <2>5 DEF GoodsEntered
<1>10. Composed(t)
  BY <1>3, <1>5, <1>7, <1>8, <1>9, <1>g, QuietFits, PartsCompose
<1> QED BY <1>4, <1>10, BeginKeeps

LEMMA RecoverOwnTileKeeps ==
    ASSUME EconomyInv, NEW a \in Actors, NEW p \in Placed,
           Begin(a, Adding([Blank EXCEPT !.recovered = {p}], "tile", 1))
    PROVE  EconomyInv'
<1> DEFINE base == [Blank EXCEPT !.recovered = {p}]
           t    == Adding(base, "tile", 1)
<1>2. /\ Shaped(base) /\ base.recovered = {p}
      /\ \A f \in Fields \ {"recovered"} : base[f] = Blank[f]
  BY BlankFields DEF Shaped, Fields
<1>. HIDE DEF base
<1>3. /\ Shaped(t) /\ t.kind = "tile" /\ t.stacks = StacksOf("tile")
      /\ t.saved = ToppedUp(StacksOf("tile"), 1) /\ t.opened = Opened(StacksOf("tile"), 1)
      /\ \A f \in Fields \ {"kind", "stacks", "saved", "opened"} : t[f] = base[f]
  BY <1>2, AddingFields
<1>4. Begin(a, t)
  BY DEF base
<1>. HIDE DEF t
<1>5. /\ t.columns = Nothing /\ t.account = Nothing
      /\ t.updated = Nothing /\ t.removed = {} /\ t.building = Idle /\ t.born = 0
      /\ t.laid = 0 /\ t.recovered = {p}
  BY <1>2, <1>3, BlankFields DEF Fields
<1>6. Without(Nothing, {"golds", "tokens", "energy", "spins"}) /\ Without(Nothing, {"upgrade"})
  BY DEF Without, Nothing
<1>7. Cashed(t)
  BY <1>5, <1>6, NothingCashed
<1>8. Handled(t)
  BY <1>3, <1>5, AddedHandled DEF Kinds
<1>9. Quiet(t)
  BY <1>5, <1>6 DEF Quiet
<1>10. p \in TileIds
  BY DEF Placed
<1>g. GoodsEntered(t)
  <2>1. Whole(t) /\ Moved(t) = 1
    BY <1>3, AddingMoves
  <2>2. \A k \in Kinds : Entry(t.account, k) = 0
    BY <1>5 DEF Entry, Nothing
  <2>3. Cardinality({p}) = 1
    BY FS_Singleton
  <2> QED BY <1>3, <1>5, <2>1, <2>2, <2>3 DEF GoodsEntered
<1>11. Composed(t)
  BY <1>3, <1>5, <1>7, <1>8, <1>9, <1>10, <1>g, QuietFits, PartsCompose
<1> QED BY <1>4, <1>11, BeginKeeps

LEMMA RecoverForeignTileKeeps ==
    ASSUME EconomyInv, NEW a \in Actors,
           Begin(a, Adding([Blank EXCEPT !.account = [tile |-> 1]], "tile", 1))
    PROVE  EconomyInv'
<1> DEFINE entry == [tile |-> 1]
           base  == [Blank EXCEPT !.account = entry]
           t     == Adding(base, "tile", 1)
<1>1. DOMAIN entry = {"tile"} /\ entry["tile"] = 1
  OBVIOUS
<1>. HIDE DEF entry
<1>2. /\ Shaped(base) /\ base.account = entry
      /\ \A f \in Fields \ {"account"} : base[f] = Blank[f]
  BY BlankFields DEF Shaped, Fields
<1>. HIDE DEF base
<1>3. /\ Shaped(t) /\ t.kind = "tile" /\ t.stacks = StacksOf("tile")
      /\ t.saved = ToppedUp(StacksOf("tile"), 1) /\ t.opened = Opened(StacksOf("tile"), 1)
      /\ \A f \in Fields \ {"kind", "stacks", "saved", "opened"} : t[f] = base[f]
  BY <1>2, AddingFields
<1>4. Begin(a, t)
  BY DEF base, entry
<1>. HIDE DEF t
<1>5. /\ t.columns = Nothing /\ t.account = entry
      /\ t.updated = Nothing /\ t.removed = {} /\ t.building = Idle /\ t.born = 0
      /\ t.laid = 0 /\ t.recovered = {}
  BY <1>2, <1>3, BlankFields DEF Fields
<1>6. Without(entry, {"golds", "tokens", "energy", "spins"}) /\ Without(entry, {"upgrade"})
  BY <1>1 DEF Without
<1>7. Cashed(t)
  BY <1>5, <1>6, NothingCashed
<1>8. Handled(t)
  BY <1>3, <1>5, AddedHandled DEF Kinds
<1>9. Quiet(t)
  BY <1>5, <1>6 DEF Quiet
<1>g. GoodsEntered(t)
  <2>1. Whole(t) /\ Moved(t) = 1
    BY <1>3, AddingMoves
  <2>2. \A k \in Kinds : Entry(t.account, k) = IF k = t.kind THEN 1 ELSE 0
    BY <1>1, <1>3, <1>5 DEF Entry
  <2> QED BY <1>5, <2>1, <2>2, OneKindEntered
<1>11. Composed(t)
  BY <1>3, <1>5, <1>7, <1>8, <1>9, <1>g, QuietFits, PartsCompose
<1> QED BY <1>4, <1>11, BeginKeeps

LEMMA RecoverTileKeeps ==
    ASSUME EconomyInv, NEW a \in Actors, RecoverTile(a)
    PROVE  EconomyInv'
BY RecoverOwnTileKeeps, RecoverForeignTileKeeps DEF RecoverTile

LEMMA ClaimDailyRewardKeeps ==
    ASSUME EconomyInv, NEW a \in Actors, ClaimDailyReward(a)
    PROVE  EconomyInv'
<1> DEFINE streak  == user["dailyRewardStreak"]
           tokens  == IF streak >= 4 THEN DailyTokens ELSE 0
           claimed == [dailyRewardStreak |-> streak + 1]
           golds   == AddGolds(user, DailyGolds)
           extra   == IF streak >= 4 THEN AddTokens(user, tokens) ELSE Nothing
           first   == Merge(claimed, golds)
           new     == Merge(first, extra)
           entry   == [golds |-> DailyGolds, tokens |-> tokens]
           t       == [Blank EXCEPT !.columns = new, !.account = entry]
<1>1. Begin(a, t)
  BY DEF ClaimDailyReward
<1>2. /\ DailyGolds \in Nat /\ DailyTokens \in Nat
      /\ streak \in Int /\ user["golds"] \in Nat /\ user["tokens"] \in Nat
  BY EconomyAssumption, UserRow DEF Fits, Columns
<1>3. /\ DOMAIN entry = {"golds", "tokens"} /\ entry["golds"] = DailyGolds
      /\ entry["tokens"] = tokens
  OBVIOUS
<1>4. DOMAIN claimed = {"dailyRewardStreak"} /\ claimed["dailyRewardStreak"] = streak + 1
  OBVIOUS
<1>5. DOMAIN golds = {"golds"} /\ golds["golds"] = user["golds"] + DailyGolds
  BY DEF AddGolds
<1>6. \/ /\ streak >= 4 /\ tokens = DailyTokens
         /\ DOMAIN extra = {"tokens"} /\ extra["tokens"] = user["tokens"] + tokens
      \/ ~(streak >= 4) /\ tokens = 0 /\ DOMAIN extra = {}
  BY DEF AddTokens, Nothing
<1>. HIDE DEF claimed, golds, extra
<1>7. /\ DOMAIN first = {"dailyRewardStreak", "golds"}
      /\ first["dailyRewardStreak"] = streak + 1
      /\ first["golds"] = user["golds"] + DailyGolds
  BY <1>4, <1>5 DEF Merge
<1>. HIDE DEF first
<1>8. /\ DOMAIN new = {"dailyRewardStreak", "golds"} \cup DOMAIN extra
      /\ new["dailyRewardStreak"] = streak + 1
      /\ new["golds"] = user["golds"] + DailyGolds
      /\ "tokens" \in DOMAIN extra => new["tokens"] = extra["tokens"]
  BY <1>6, <1>7 DEF Merge
<1>. HIDE DEF new, entry
<1>9. /\ Shaped(t) /\ t.columns = new /\ t.account = entry
      /\ \A f \in Fields \ {"columns", "account"} : t[f] = Blank[f]
  BY BlankFields DEF Shaped, Fields
<1>. HIDE DEF t
<1>10. /\ t.kind = "none" /\ t.stacks = Nothing /\ t.saved = Nothing /\ t.opened = <<>>
       /\ t.updated = Nothing /\ t.removed = {} /\ t.building = Idle /\ t.born = 0
       /\ t.laid = 0 /\ t.recovered = {}
  BY <1>9, BlankFields DEF Fields
<1>. HIDE DEF streak, tokens
<1>11. ColumnsFit(new, user, highest, day)
  <2>1. DOMAIN new \subseteq {"dailyRewardStreak", "golds", "tokens"}
    BY <1>6, <1>8
  <2>2. new["golds"] \in Nat
    BY <1>2, <1>8
  <2>3. new["dailyRewardStreak"] \in Int
    BY <1>2, <1>8
  <2>4. "tokens" \in DOMAIN new => new["tokens"] \in Nat
    <3>1. "tokens" \in DOMAIN new => streak >= 4 /\ new["tokens"] = user["tokens"] + DailyTokens
      BY <1>6, <1>8
    <3> QED BY <1>2, <3>1
  <2>5. \A c \in DOMAIN new : Fits(c, new[c], highest)
    BY <2>1, <2>2, <2>3, <2>4 DEF Fits
  <2>6. DOMAIN new \subseteq Columns /\ "level" \notin DOMAIN new /\ "spinLastTime" \notin DOMAIN new
    BY <2>1 DEF Columns
  <2>7. \A c \in DOMAIN new : user[c] \in Int
    BY <2>6, UserRow
  <2> QED BY <2>5, <2>6, <2>7 DEF ColumnsFit
<1>12. /\ Change(new, user, "golds") = DailyGolds /\ Change(new, user, "tokens") = tokens
       /\ \A c \in {"energy", "energyRegenTime", "spinLastTime"} : Change(new, user, c) = 0
  BY <1>2, <1>6, <1>8 DEF Change
<1>13. /\ Entry(entry, "golds") = DailyGolds /\ Entry(entry, "tokens") = tokens
       /\ Entry(entry, "energy") = 0 /\ Entry(entry, "spins") = 0
  BY <1>3 DEF Entry
<1>14. 0 * RegenTime + 0 = 0
  BY RulesAssumption
<1>15. Cashed(t)
  BY <1>9, <1>11, <1>12, <1>13, <1>14 DEF Cashed, Entered
<1>16. Handled(t)
  BY <1>10, UntouchedHandled DEF Untouched
<1>17. Quiet(t)
  BY <1>3, <1>9, <1>10 DEF Quiet, Without
<1>g. GoodsEntered(t)
  <2>1. \A k \in Kinds : Entry(t.account, k) = 0
    BY <1>3, <1>9 DEF Entry, Kinds
  <2> QED BY <1>10, <2>1, NoGoodsEntered DEF Untouched
<1>18. Composed(t)
  BY <1>9, <1>10, <1>15, <1>16, <1>17, <1>g, QuietFits, PartsCompose
<1> QED BY <1>1, <1>18, BeginKeeps

(* The time of a spin moves on by a day, which pays for the spin.          *)
LEMMA SpinKeeps ==
    ASSUME EconomyInv, NEW a \in Actors, Spin(a)
    PROVE  EconomyInv'
<1> DEFINE spun == [spinLastTime |-> day]
           Won(prize) == CASE prize = "golds"  -> Merge(spun, AddGolds(user, PrizeAmount))
                           [] prize = "tokens" -> Merge(spun, AddTokens(user, PrizeAmount))
                           [] OTHER            -> spun
           EntryOf(prize) == [b \in {"spins", prize} |-> IF b = "spins" THEN 1 ELSE PrizeAmount]
<1>1. PICK prize \in Prizes :
        Begin(a, IF prize \in Kinds
                 THEN Adding([Blank EXCEPT !.columns = Won(prize), !.account = EntryOf(prize)],
                             prize, PrizeAmount)
                 ELSE [Blank EXCEPT !.columns = Won(prize), !.account = EntryOf(prize)])
  BY DEF Spin
<1> DEFINE won   == Won(prize)
           entry == EntryOf(prize)
           base  == [Blank EXCEPT !.columns = won, !.account = entry]
           added == Adding(base, prize, PrizeAmount)
<1>2. /\ PrizeAmount \in Nat /\ prize \in {"golds", "tokens", "seed", "supply"}
      /\ user["golds"] \in Nat /\ user["tokens"] \in Nat /\ user["spinLastTime"] \in Int
      /\ day \in Nat
  BY EconomyAssumption, UserRow DEF Fits, Columns
<1>3. day - user["spinLastTime"] >= 1
  BY <1>2 DEF Spin, Never
<1>4. /\ DOMAIN entry = {"spins", prize} /\ entry["spins"] = 1
      /\ entry[prize] = PrizeAmount
  BY <1>2
<1>5. DOMAIN spun = {"spinLastTime"} /\ spun["spinLastTime"] = day
  OBVIOUS
<1>. HIDE DEF spun
<1>6. \/ /\ prize = "golds"
         /\ DOMAIN won = {"spinLastTime", "golds"} /\ won["spinLastTime"] = day
         /\ won["golds"] = user["golds"] + PrizeAmount
      \/ /\ prize = "tokens"
         /\ DOMAIN won = {"spinLastTime", "tokens"} /\ won["spinLastTime"] = day
         /\ won["tokens"] = user["tokens"] + PrizeAmount
      \/ /\ prize \in {"seed", "supply"}
         /\ DOMAIN won = {"spinLastTime"} /\ won["spinLastTime"] = day
  <2>1. CASE prize = "golds"
    <3> DEFINE more == AddGolds(user, PrizeAmount)
    <3>1. won = Merge(spun, more)
      BY <2>1
    <3>2. DOMAIN more = {"golds"} /\ more["golds"] = user["golds"] + PrizeAmount
      BY DEF AddGolds
    <3>. HIDE DEF more, won
    <3> QED BY <1>5, <2>1, <3>1, <3>2 DEF Merge
  <2>2. CASE prize = "tokens"
    <3> DEFINE more == AddTokens(user, PrizeAmount)
    <3>1. won = Merge(spun, more)
      BY <2>2
    <3>2. DOMAIN more = {"tokens"} /\ more["tokens"] = user["tokens"] + PrizeAmount
      BY DEF AddTokens
    <3>. HIDE DEF more, won
    <3> QED BY <1>5, <2>2, <3>1, <3>2 DEF Merge
  <2>3. CASE prize \in {"seed", "supply"}
    <3>1. won = spun
      BY <2>3
    <3> QED BY <1>5, <2>3, <3>1
  <2> QED BY <1>2, <2>1, <2>2, <2>3
<1>. HIDE DEF won, entry
<1>7. /\ Shaped(base) /\ base.columns = won /\ base.account = entry
      /\ \A f \in Fields \ {"columns", "account"} : base[f] = Blank[f]
  BY BlankFields DEF Shaped, Fields
<1>8. Begin(a, IF prize \in Kinds THEN added ELSE base)
  BY <1>1 DEF won, entry
<1>. HIDE DEF base, Won, EntryOf
<1>9. ColumnsFit(won, user, highest, day)
  BY <1>2, <1>6, UserRow DEF ColumnsFit, Fits, Columns
<1>10. /\ Change(won, user, "golds") = IF prize = "golds" THEN PrizeAmount ELSE 0
       /\ Change(won, user, "tokens") = IF prize = "tokens" THEN PrizeAmount ELSE 0
       /\ Change(won, user, "energy") = 0 /\ Change(won, user, "energyRegenTime") = 0
       /\ Change(won, user, "spinLastTime") = day - user["spinLastTime"]
  BY <1>2, <1>6 DEF Change
<1>11. /\ Entry(entry, "golds") = IF prize = "golds" THEN PrizeAmount ELSE 0
       /\ Entry(entry, "tokens") = IF prize = "tokens" THEN PrizeAmount ELSE 0
       /\ Entry(entry, "energy") = 0 /\ Entry(entry, "spins") = 1
  BY <1>2, <1>4 DEF Entry
<1>12. 0 * RegenTime + 0 = 0
  BY RulesAssumption
<1>13. Entered(won, user, entry)
  BY <1>3, <1>10, <1>11, <1>12 DEF Entered
<1>14. Without(entry, {"upgrade"})
  BY <1>2, <1>4 DEF Without
<1>15. CASE prize \in Kinds
  <2>1. /\ Shaped(added) /\ added.kind = prize /\ added.stacks = StacksOf(prize)
        /\ added.saved = ToppedUp(StacksOf(prize), PrizeAmount)
        /\ added.opened = Opened(StacksOf(prize), PrizeAmount)
        /\ \A f \in Fields \ {"kind", "stacks", "saved", "opened"} : added[f] = base[f]
    BY <1>7, AddingFields
  <2>. HIDE DEF added
  <2>2. /\ added.columns = won /\ added.account = entry
        /\ added.updated = Nothing /\ added.removed = {} /\ added.building = Idle
        /\ added.born = 0 /\ added.laid = 0 /\ added.recovered = {}
    BY <1>7, <2>1, BlankFields DEF Fields
  <2>3. Cashed(added)
    BY <1>9, <1>13, <2>2 DEF Cashed
  <2>4. Handled(added)
    BY <1>2, <1>15, <2>1, <2>2, AddedHandled
  <2>5. Quiet(added)
    BY <1>14, <2>2 DEF Quiet
  <2>g. GoodsEntered(added)
    <3>1. Whole(added) /\ Moved(added) = PrizeAmount
      BY <1>2, <2>1, AddingMoves
    <3>2. \A k \in Kinds : Entry(added.account, k) = IF k = added.kind THEN PrizeAmount ELSE 0
      BY <1>4, <2>1, <2>2 DEF Entry, Kinds
    <3> QED BY <1>2, <2>2, <3>1, <3>2, OneKindEntered
  <2>6. Composed(added)
    BY <2>1, <2>2, <2>3, <2>4, <2>5, <2>g, QuietFits, PartsCompose
  <2> QED BY <1>8, <1>15, <2>6, BeginKeeps
<1>16. CASE prize \notin Kinds
  <2>1. /\ base.kind = "none" /\ base.stacks = Nothing /\ base.saved = Nothing
        /\ base.opened = <<>> /\ base.updated = Nothing /\ base.removed = {}
        /\ base.building = Idle /\ base.born = 0 /\ base.laid = 0 /\ base.recovered = {}
    BY <1>7, BlankFields DEF Fields
  <2>2. Cashed(base)
    BY <1>7, <1>9, <1>13 DEF Cashed
  <2>3. Handled(base)
    BY <2>1, UntouchedHandled DEF Untouched
  <2>4. Quiet(base)
    BY <1>7, <1>14, <2>1 DEF Quiet
  <2>g. GoodsEntered(base)
    <3>1. \A k \in Kinds : Entry(base.account, k) = 0
      BY <1>4, <1>7, <1>16 DEF Entry, Kinds
    <3> QED BY <2>1, <3>1, NoGoodsEntered DEF Untouched
  <2>5. Composed(base)
    BY <1>7, <2>1, <2>2, <2>3, <2>4, <2>g, QuietFits, PartsCompose
  <2> QED BY <1>8, <1>16, <2>5, BeginKeeps
<1> QED BY <1>15, <1>16

(* A job of the energy queue gives its whole time, in energy and in time   *)
(* collected, or finds the user full and gives nothing.                    *)
LEMMA RegenerateEnergyKeeps ==
    ASSUME EconomyInv, RegenerateEnergy
    PROVE  EconomyInv'
<1>1. PICK time \in JobTimes :
        Begin(Worker, [Blank EXCEPT !.columns = Regenerated(user, time),
                                    !.account = [energy |-> IF Full(user) THEN 0 ELSE time]])
  BY DEF RegenerateEnergy
<1> DEFINE new   == Regenerated(user, time)
           given == IF Full(user) THEN 0 ELSE time
           entry == [energy |-> given]
           t     == [Blank EXCEPT !.columns = new, !.account = entry]
<1>2. Begin(Worker, t) /\ Worker \in Actors
  BY <1>1 DEF Actors
<1>3. DOMAIN entry = {"energy"} /\ entry["energy"] = given
  OBVIOUS
<1>4. /\ user \in [Columns -> Int]
      /\ user["energy"] \in Nat /\ user["energy"] <= GetMaxEnergy(highest)
      /\ user["energyRegenTime"] \in Int
      /\ user["level"] \in Nat \ {0} /\ user["level"] <= highest /\ highest \in Nat \ {0}
      /\ time \in Int /\ RegenTime \in Nat \ {0}
  <2>1. Fits("energy", user["energy"], highest) /\ user["energyRegenTime"] \in Int
    BY UserRow DEF Columns
  <2>2. user \in [Columns -> Int]
    BY DEF EconomyInv, UserFits
  <2> QED BY <2>1, <2>2, UserRow, EconomyAssumption, RulesAssumption DEF Fits
<1>5. /\ GetMaxEnergy(user["level"]) \in Nat /\ GetMaxEnergy(highest) \in Nat
      /\ GetMaxEnergy(user["level"]) <= GetMaxEnergy(highest)
  BY <1>4, LevelsAllow
<1>6. /\ DOMAIN new = Columns
      /\ \A c \in Columns \ {"energy", "energyRegenTime"} : new[c] = user[c]
      /\ \/ /\ given = 0 /\ new["energy"] = user["energy"]
            /\ new["energyRegenTime"] = user["energyRegenTime"]
         \/ /\ given = time /\ new["energy"] = user["energy"] + 1
            /\ user["energy"] < GetMaxEnergy(user["level"])
            /\ user["energyRegenTime"] + time >= RegenTime
            /\ new["energyRegenTime"] = user["energyRegenTime"] + time - RegenTime
         \/ /\ given = time /\ new["energy"] = user["energy"]
            /\ new["energyRegenTime"] = user["energyRegenTime"] + time
  <2> DEFINE collected == user["energyRegenTime"] + time
  <2>1. CASE Full(user)
    <3>1. new = user /\ given = 0
      BY <2>1 DEF Regenerated
    <3> QED BY <1>4, <3>1
  <2>2. CASE ~Full(user) /\ collected >= RegenTime
    <3>1. /\ new = [user EXCEPT !["energy"] = @ + 1, !["energyRegenTime"] = collected - RegenTime]
          /\ given = time
      BY <2>2 DEF Regenerated
    <3>2. user["energy"] < GetMaxEnergy(user["level"])
      BY <1>4, <1>5, <2>2 DEF Full
    <3>. HIDE DEF new, given
    <3>3. "energy" \in Columns /\ "energyRegenTime" \in Columns
      BY DEF Columns
    <3> QED BY <1>4, <2>2, <3>1, <3>2, <3>3
  <2>3. CASE ~Full(user) /\ ~(collected >= RegenTime)
    <3>1. new = [user EXCEPT !["energyRegenTime"] = collected] /\ given = time
      BY <2>3 DEF Regenerated
    <3>. HIDE DEF new, given
    <3>2. "energy" \in Columns /\ "energyRegenTime" \in Columns
      BY DEF Columns
    <3> QED BY <1>4, <3>1, <3>2
  <2> QED BY <2>1, <2>2, <2>3
<1>. HIDE DEF new, given, entry
<1>7. /\ Shaped(t) /\ t.columns = new /\ t.account = entry
      /\ \A f \in Fields \ {"columns", "account"} : t[f] = Blank[f]
  BY BlankFields DEF Shaped, Fields
<1>. HIDE DEF t
<1>8. /\ t.kind = "none" /\ t.stacks = Nothing /\ t.saved = Nothing /\ t.opened = <<>>
      /\ t.updated = Nothing /\ t.removed = {} /\ t.building = Idle /\ t.born = 0
      /\ t.laid = 0 /\ t.recovered = {}
  BY <1>7, BlankFields DEF Fields
<1>9. ColumnsFit(new, user, highest, day)
  <2>1. Fits("energy", new["energy"], highest) /\ Fits("energyRegenTime", new["energyRegenTime"], highest)
    BY <1>4, <1>5, <1>6 DEF Fits
  <2>2. \A c \in Columns : Fits(c, new[c], highest) /\ user[c] \in Int
    BY <1>6, <2>1, UserRow
  <2>3. new["level"] = user["level"] /\ new["spinLastTime"] = user["spinLastTime"]
    BY <1>6 DEF Columns
  <2>4. new["level"] >= user["level"] /\ new["spinLastTime"] <= day
    BY <1>4, <2>3, UserRow
  <2> QED BY <1>6, <2>2, <2>4 DEF ColumnsFit
<1>10. /\ \A c \in {"golds", "tokens", "spinLastTime"} : Change(new, user, c) = 0
       /\ \/ /\ Change(new, user, "energy") = 0
             /\ Change(new, user, "energyRegenTime") = given
          \/ /\ Change(new, user, "energy") = 1
             /\ Change(new, user, "energyRegenTime") = given - RegenTime
  <2>1. \A c \in {"golds", "tokens", "spinLastTime"} : c \in DOMAIN new /\ new[c] = user[c] /\ user[c] \in Int
    BY <1>4, <1>6 DEF Columns
  <2>2. "energy" \in DOMAIN new /\ "energyRegenTime" \in DOMAIN new
    BY <1>6 DEF Columns
  <2> QED BY <1>4, <1>6, <2>1, <2>2 DEF Change
<1>11. /\ Entry(entry, "energy") = given
       /\ \A b \in {"golds", "tokens", "spins"} : Entry(entry, b) = 0
  BY <1>3 DEF Entry
<1>12. given \in Int /\ 0 * RegenTime = 0 /\ 1 * RegenTime = RegenTime
  BY <1>4, <1>6
<1>13. Cashed(t)
  BY <1>4, <1>7, <1>9, <1>10, <1>11, <1>12 DEF Cashed, Entered
<1>14. Handled(t)
  BY <1>8, UntouchedHandled DEF Untouched
<1>15. Quiet(t)
  BY <1>3, <1>7, <1>8 DEF Quiet, Without
<1>g. GoodsEntered(t)
  <2>1. \A k \in Kinds : Entry(t.account, k) = 0
    BY <1>3, <1>7 DEF Entry, Kinds
  <2> QED BY <1>8, <2>1, NoGoodsEntered DEF Untouched
<1>16. Composed(t)
  BY <1>7, <1>8, <1>13, <1>14, <1>15, <1>g, QuietFits, PartsCompose
<1> QED BY <1>2, <1>16, BeginKeeps

----------------------------------------------------------------------------
LEMMA InitKeeps == Init => EconomyInv
<1> SUFFICES ASSUME Init PROVE EconomyInv
  OBVIOUS
<1>1. user = [golds |-> InitialGolds, tokens |-> 0,
              energy |-> GetMaxEnergy(1), energyRegenTime |-> 0,
              experiences |-> 0, level |-> 1,
              dailyRewardStreak |-> InitialStreak, spinLastTime |-> Never]
  BY DEF Init
<1>2. /\ InitialGolds \in Nat /\ InitialStreak \in Nat /\ ExperiencesGain \in Nat \ {0}
      /\ RegenTime \in Nat
  BY EconomyAssumption, RulesAssumption
<1>3. GetMaxEnergy(1) \in Nat
  BY LevelsAllow
<1>4. 0 < ComputeExperiencesQuota(1)
  <2>1. 2 * 1 + (1 - 1) * (1 - 1) = 2
    OBVIOUS
  <2>2. ExperiencesUnit * 2 > 0
    BY RulesAssumption
  <2> QED BY <2>1, <2>2 DEF ComputeExperiencesQuota
<1>5. UserFits(user, highest)
  <2>1. highest = 1
    BY DEF Init
  <2>2. /\ DOMAIN user = Columns /\ \A c \in Columns : Fits(c, user[c], 1)
        /\ user["level"] = 1
    BY <1>1, <1>2, <1>3, <1>4 DEF Fits, Columns, Never
  <2>3. user = [c \in Columns |-> user[c]]
    BY <1>1 DEF Columns
  <2>4. user \in [Columns -> Int]
    BY <2>2, <2>3 DEF Fits
  <2> QED BY <2>1, <2>2, <2>4 DEF UserFits
<1>6. Typed
  BY DEF Init, Typed, Books, Kinds
<1>7. rows = [i \in RowIds |-> rows[i]] /\ \A i \in RowIds : RowFits(rows[i])
  BY DEF Init, RowFits
<1>8. Honest(building, animals, books, conflicts)
  BY DEF Init, Honest
<1>9. Spun(user, books, conflicts, day)
  BY DEF Init, Spun, Never
<1>10. Booked(user, books, conflicts)
  <2>1. GetMaxEnergy(1) * RegenTime + 0 = GetMaxEnergy(1) * RegenTime
    BY <1>2, <1>3, SMT
  <2> QED BY <2>1 DEF Init, Booked
<1>11. TransactionsFit
  BY DEF Init, TransactionsFit
<1>12. Stocked(rows, tile, books, conflicts)
  <2>1. \A k \in Kinds : InRows(rows, k) = {}
    BY DEF Init, InRows
  <2>2. InPlace(tile) = {}
    BY DEF Init, InPlace
  <2>3. \A k \in Kinds : books[k] = 0
    BY DEF Init, Kinds
  <2>4. \A f : Sum(f, {}) = 0
    BY SumEmpty
  <2>5. Cardinality({}) = 0
    BY FS_EmptySet
  <2> QED BY <2>1, <2>2, <2>3, <2>4, <2>5 DEF Stocked, Stock
<1> QED BY <1>5, <1>6, <1>7, <1>8, <1>9, <1>10, <1>11, <1>12 DEF EconomyInv

LEMMA StepKeeps == EconomyInv /\ [Next]_vars => EconomyInv'
<1> SUFFICES ASSUME EconomyInv, [Next]_vars PROVE EconomyInv'
  OBVIOUS
<1>1. CASE UNCHANGED vars
  BY <1>1 DEF vars, estate, history, EconomyInv, Typed, TransactionsFit
<1>2. ASSUME NEW a \in Requests, RequestStep(a)
      PROVE  EconomyInv'
  <2>1. a \in Actors
    BY DEF Actors
  <2>2. CASE BuySeeds(a) \/ BuySupplies(a)
    BY <2>1, <2>2, BuyKeeps DEF BuySeeds, BuySupplies
  <2>3. CASE BuyTile(a) \/ PlaceTile(a) \/ RecoverTile(a)
    BY <2>1, <2>3, BuyTileKeeps, PlaceTileKeeps, RecoverTileKeeps
  <2>4. CASE ConstructBuilding(a) \/ BuyAnimal(a) \/ UpgradeBuilding(a)
    BY <2>1, <2>4, ConstructBuildingKeeps, BuyAnimalKeeps, UpgradeBuildingKeeps
  <2>5. CASE ClaimDailyReward(a) \/ Spin(a)
    BY <2>1, <2>5, ClaimDailyRewardKeeps, SpinKeeps
  <2>6. CASE Water(a) \/ PlantSeed(a) \/ UseSupply(a) \/ Thief(a)
    BY <2>1, <2>6, WaterKeeps, PlantSeedKeeps, UseSupplyKeeps, ThiefKeeps
  <2> QED BY <1>2, <2>2, <2>3, <2>4, <2>5, <2>6 DEF RequestStep
<1>3. CASE RegenerateEnergy
  BY <1>3, RegenerateEnergyKeeps
<1>4. ASSUME NEW a \in Actors, Commit(a) \/ Rollback(a)
      PROVE  EconomyInv'
  BY <1>4, CommitKeeps, RollbackKeeps
<1>5. CASE NextDay
  BY <1>5, NextDayKeeps
<1> QED BY <1>1, <1>2, <1>3, <1>4, <1>5 DEF Next

LEMMA EconomyInvHolds == Spec => []EconomyInv
BY InitKeeps, StepKeeps, PTL DEF Spec

----------------------------------------------------------------------------
(* Each variable holds a value the code can give it.                       *)
THEOREM TypesKept == Spec => []TypeOK
<1>1. EconomyInv => TypeOK
  <2> SUFFICES ASSUME EconomyInv PROVE TypeOK
    OBVIOUS
  <2>1. DOMAIN user = Columns /\ \A c \in Columns : user[c] \in Int
    BY UserRow
  <2>2. rows \in [RowIds -> Inventory \cup {NoRow, Gone}]
    BY DEF EconomyInv, RowFits
  <2> QED BY <2>1, <2>2 DEF EconomyInv, Typed, TypeOK, Books
<1> QED BY <1>1, EconomyInvHolds, PTL

(* Whatever requests and jobs overwrite of each other's writes, no balance *)
(* falls below zero, no energy exceeds what the highest level reached      *)
(* allows, and experiences stay between the debt one gain can leave and    *)
(* the quota of that level.                                                *)
THEOREM NothingOverdrawnKept == Spec => []NothingOverdrawn
<1>1. EconomyInv => NothingOverdrawn
  <2> SUFFICES ASSUME EconomyInv PROVE NothingOverdrawn
    OBVIOUS
  <2>1. \A c \in Columns : Fits(c, user[c], highest)
    BY UserRow
  <2>2. highest \in Nat \ {0} /\ user["level"] \in Nat \ {0} /\ user["level"] <= highest
    BY UserRow
  <2>3. GetMaxEnergy(highest) \in Nat
    BY <2>2, LevelsAllow
  <2>4. /\ Fits("golds", user["golds"], highest) /\ Fits("tokens", user["tokens"], highest)
        /\ Fits("energy", user["energy"], highest)
        /\ Fits("experiences", user["experiences"], highest)
    BY <2>1 DEF Columns
  <2> QED BY <2>2, <2>3, <2>4 DEF Fits, NothingOverdrawn
<1> QED BY <1>1, EconomyInvHolds, PTL

(* No stack outgrows its limit and only supplies leave empty ones, even    *)
(* where a request saves rows that others have changed or removed since.   *)
THEOREM StacksKept == Spec => []StacksInBounds
<1>1. EconomyInv => StacksInBounds
  BY DEF EconomyInv, RowFits, Holds, IsRow, StacksInBounds, Inventory
<1> QED BY <1>1, EconomyInvHolds, PTL

(* Until a building is saved from an outdated read, it counts its animals, *)
(* has the upgrades paid for and no more animals than the next level       *)
(* holds.                                                                  *)
THEOREM BuildingKept == Spec => []BuildingHonest
<1>1. EconomyInv => BuildingHonest
  BY DEF EconomyInv, Honest, BuildingHonest
<1> QED BY <1>1, EconomyInvHolds, PTL

(* A player spins once in 24 hours, unless the time of the last spin is    *)
(* overwritten by a request or a job that read it earlier.                 *)
THEOREM SpinsKept == Spec => []SpinsOnceADay
<1>1. EconomyInv => SpinsOnceADay
  <2> SUFFICES ASSUME EconomyInv, "spinLastTime" \notin conflicts
               PROVE  books.spins <= day + 1
    BY DEF SpinsOnceADay
  <2>1. user["spinLastTime"] \in Int /\ user["spinLastTime"] <= day /\ day \in Nat
    BY UserRow DEF Columns
  <2>2. books["spins"] \in Int /\ books["spins"] <= user["spinLastTime"] + 1
    BY DEF EconomyInv, Spun
  <2> QED BY <2>1, <2>2
<1> QED BY <1>1, EconomyInvHolds, PTL

(* Balances agree with the books where the invariant holds.                *)
LEMMA BalancesFollow == EconomyInv => BalancesBooked
BY DEF EconomyInv, Booked, Balanced, BalancesBooked, Held

(* Until a balance is written from an outdated read, golds, tokens and     *)
(* energy are what the purchases, prizes, rewards, uses and jobs committed *)
(* so far leave; a job of an overlapped handler counts for less than none. *)
THEOREM BalancesKept == Spec => []BalancesBooked
BY BalancesFollow, EconomyInvHolds, PTL

(* The same of goods: until a kind is written from an outdated read, what  *)
(* there is of seeds, supplies, products and tiles, unit by unit in rows   *)
(* and in place, is what was bought, won, stolen, used and, of tiles,      *)
(* recovered from neighbours, who keep theirs.                             *)
THEOREM BooksKept == Spec => []BooksBalance
<1>1. EconomyInv => GoodsBooked
  <2> SUFFICES ASSUME EconomyInv, NEW k \in Kinds, k \notin conflicts
               PROVE  Held[k] = books[k]
    BY DEF GoodsBooked, Balanced, Kinds
  <2>1. Stock(rows, tile, k) = books[k]
    BY DEF EconomyInv, Stocked
  <2>2. UnitsOf(k) = Sum(Quantities(rows), InRows(rows, k))
    <3>1. [i \in InRows(rows, k) |-> Quantities(rows)[i]] = StacksOf(k)
      BY DEF InRows, Quantities, StacksOf, RowsOf, IsRow
    <3> QED BY <3>1 DEF UnitsOf, Sum
  <2>3. UnitsOf(k) \in Int
    BY <2>2, StockType DEF EconomyInv
  <2>4. Held[k] = IF k = "tile" THEN UnitsOf(k) + Cardinality(Placed) ELSE UnitsOf(k)
    BY DEF Held, Kinds
  <2> QED BY <2>1, <2>2, <2>3, <2>4 DEF Stock, InPlace, Placed
<1>2. EconomyInv => BooksBalance
  BY <1>1, BalancesFollow DEF BooksBalance
<1> QED BY <1>2, EconomyInvHolds, PTL

(* A level reached or an upgrade paid for is lost only to a write from an  *)
(* outdated read.                                                          *)
THEOREM ProgressIsKept == Spec => ProgressKept
<1> DEFINE Kept == /\ user'.level < user.level => "level" \in conflicts'
                   /\ building # NoBuilding => building' # NoBuilding /\
                        (building'.currentUpgrade < building.currentUpgrade
                            => "building" \in conflicts')
<1>1. EconomyInv /\ [Next]_vars => [Kept]_vars
  <2> SUFFICES ASSUME EconomyInv, Next PROVE Kept
    OBVIOUS
  <2>1. ASSUME UNCHANGED <<user, building>>
        PROVE  Kept
    <3>1. user["level"] \in Int
      BY UserRow
    <3>2. building # NoBuilding => building.currentUpgrade \in Int
      BY DEF EconomyInv, Typed, BuildingInfo
    <3> QED BY <2>1, <3>1, <3>2
  <2>2. ASSUME NEW a \in Actors, Commit(a)
        PROVE  Kept
    <3> DEFINE t == transaction[a]
    <3>1. /\ t # Idle
          /\ conflicts' = conflicts \cup Outdated(t)
          /\ building' = IF t.building = Idle THEN building ELSE t.building
      BY <2>2 DEF Commit
    <3>2. Sound(t, t.seen, highest, day)
      BY <3>1 DEF EconomyInv, TransactionsFit
    <3>3. user'["level"] = IF "level" \in DOMAIN t.columns THEN t.columns["level"] ELSE user["level"]
      BY <2>2, CommitUser DEF Columns
    <3>4. user["level"] \in Int
      BY UserRow
    <3>5. user'["level"] < user["level"] => "level" \in conflicts'
      <4> SUFFICES ASSUME user'["level"] < user["level"] PROVE "level" \in conflicts'
        OBVIOUS
      <4>1. "level" \in DOMAIN t.columns /\ t.columns["level"] < user["level"]
        BY <3>3, <3>4
      <4>2. t.columns["level"] >= t.seen["level"] /\ t.columns["level"] \in Int
            /\ t.seen["level"] \in Int
        BY <3>2, <4>1 DEF Sound, ColumnsFit, Fits
      <4>3. user["level"] # t.seen["level"]
        BY <3>4, <4>1, <4>2
      <4>4. "level" \in {c \in DOMAIN t.columns : user[c] # t.seen[c]}
        BY <4>1, <4>3
      <4> QED BY <3>1, <4>4 DEF Outdated
    <3>6. ASSUME building # NoBuilding
          PROVE  /\ building' # NoBuilding
                 /\ building'.currentUpgrade < building.currentUpgrade => "building" \in conflicts'
      <4>1. building \in BuildingInfo
        BY <3>6 DEF EconomyInv, Typed
      <4>2. building.currentUpgrade \in Int
        BY <4>1 DEF BuildingInfo
      <4>3. CASE t.building = Idle
        BY <3>1, <3>6, <4>2, <4>3
      <4>4. CASE t.building # Idle
        <5>1. /\ building' = t.building /\ t.building \in BuildingInfo
              /\ Built(t.building, t.found, t.born, Entry(t.account, "upgrade"))
          BY <3>1, <3>2, <4>4 DEF Sound, BuildingFits
        <5>2. building # t.found => "building" \in conflicts'
          BY <3>1, <4>4 DEF Outdated
        <5>3. building = t.found => t.building.currentUpgrade >= building.currentUpgrade
          BY <3>6, <4>2, <5>1 DEF Built
        <5>4. t.building.currentUpgrade \in Int
          BY <5>1 DEF BuildingInfo
        <5> QED BY <4>2, <5>1, <5>2, <5>3, <5>4, MarksDiffer
      <4> QED BY <4>3, <4>4
    <3> QED BY <3>5, <3>6
  <2>3. CASE \E a \in Requests : RequestStep(a)
    <3> DEFINE Still == UNCHANGED <<user, building>>
    <3>1. \A a, t : Begin(a, t) => Still
      BY DEF Begin, estate
    <3>. HIDE DEF Still
    <3>2. \A a \in Requests : BuySeeds(a) \/ BuySupplies(a) => Still
      BY <3>1 DEF BuySeeds, BuySupplies, Buy
    <3>3. \A a \in Requests : BuyTile(a) \/ ConstructBuilding(a) \/ UpgradeBuilding(a) => Still
      BY <3>1 DEF BuyTile, ConstructBuilding, UpgradeBuilding
    <3>4. \A a \in Requests : BuyAnimal(a) => Still
      BY <3>1 DEF BuyAnimal
    <3>5. \A a \in Requests : ClaimDailyReward(a) => Still
      BY <3>1 DEF ClaimDailyReward
    <3>6. \A a \in Requests : Spin(a) => Still
      BY <3>1 DEF Spin
    <3>7. \A a \in Requests : Water(a) \/ PlantSeed(a) => Still
      BY <3>1 DEF Water, PlantSeed
    <3>8. \A a \in Requests : UseSupply(a) \/ Thief(a) => Still
      BY <3>1 DEF UseSupply, Thief
    <3>9. \A a \in Requests : PlaceTile(a) \/ RecoverTile(a) => Still
      BY <3>1 DEF PlaceTile, RecoverTile
    <3>10. Still
      BY <2>3, <3>2, <3>3, <3>4, <3>5, <3>6, <3>7, <3>8, <3>9 DEF RequestStep
    <3> QED BY <2>1, <3>10 DEF Still
  <2>4. CASE RegenerateEnergy \/ NextDay \/ \E a \in Actors : Rollback(a)
    <3>1. UNCHANGED <<user, building>>
      BY <2>4 DEF RegenerateEnergy, Begin, NextDay, Rollback, estate
    <3> QED BY <2>1, <3>1
  <2> QED BY <2>2, <2>3, <2>4 DEF Next
<1>2. Spec => [][Kept]_vars
  BY <1>1, EconomyInvHolds, PTL DEF Spec
<1> QED BY <1>2 DEF ProgressKept
=============================================================================
