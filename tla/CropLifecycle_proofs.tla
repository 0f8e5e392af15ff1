------------------------ MODULE CropLifecycle_proofs ------------------------
(***************************************************************************)
(* Theorems about CropLifecycle, for every set of tiles, workers, requests *)
(* and jobs and every crop.                                                *)
(***************************************************************************)
EXTENDS CropLifecycle, SequenceTheorems, TLAPS

(* What the workers hold was read from growing rows, and what a thief has  *)
(* seen from a row of its owner: both keep to the minimal harvest.         *)
HeldGrows ==
    \A w \in Workers : \A t \in DOMAIN held[w] :
        held[w][t].quantity >= MinHarvest /\ held[w][t].state # "fullyMatured"

SeenTyped ==
    \A q \in Requests : request[q] # NoRequest =>
        /\ request[q].op = "fertilize" => request[q].seen.elapsed \in Int
        /\ request[q].op = "thief" =>
              request[q].seen.quantity \in Nat /\ request[q].seen.quantity >= MinHarvest

CropInv ==
    /\ TypeOK
    /\ HeldGrows
    /\ SeenTyped
    /\ QuantityFloor
    /\ MatureOnlyAtLastStage

----------------------------------------------------------------------------
LEMMA StagesPassedType ==
    ASSUME NEW r \in Row, NEW elapsed \in Int
    PROVE  /\ StagesPassed(r, elapsed) \in Nat
           /\ r.stage + StagesPassed(r, elapsed) \in 1 .. GrowthStages + 1
<1>1. elapsed >= 0 => elapsed \div StageDuration \in Nat
  BY CropAssumption
<1>2. r.stage \in 1 .. GrowthStages + 1
  BY DEF Row
<1> DEFINE d == elapsed \div StageDuration
<1>3. elapsed >= 0 => d \in Nat
  BY <1>1
<1> HIDE DEF d
<1>4. StagesPassed(r, elapsed) = IF elapsed < 0 THEN 0 ELSE Min2(d, GrowthStages + 1 - r.stage)
  BY DEF StagesPassed, d
<1> QED BY <1>2, <1>3, <1>4, CropAssumption DEF Min2

(* The average of two harvests lies between them.                          *)
LEMMA AverageType ==
    AverageHarvest # NotAnInteger => AverageHarvest \in Nat /\ AverageHarvest >= MinHarvest
BY CropAssumption DEF AverageHarvest, NotAnInteger

(* What a job makes of a growing row: a row again, not below the floor,    *)
(* and mature exactly in the last stage.                                   *)
LEMMA GrownRow ==
    ASSUME NEW r \in Row, r.quantity >= MinHarvest, r.state # "fullyMatured",
           NEW seconds \in Int, NEW new \in Grown(r, seconds),
           new.quantity # NotAnInteger
    PROVE  /\ new \in Row
           /\ new.quantity >= MinHarvest
           /\ new.state = "fullyMatured" => new.stage = GrowthStages
<1> DEFINE passed == StagesPassed(r, r.elapsed + seconds)
           stage  == r.stage + passed
<1>1. r.elapsed + seconds \in Int /\ r.total + seconds \in Int
  BY DEF Row
<1>2. passed \in Nat /\ stage \in 1 .. GrowthStages + 1
  BY <1>1, StagesPassedType
<1> HIDE DEF passed
<1>3. PICK s \in StatesAfter(r, stage) :
          new = Ripe([r EXCEPT !.stage = stage,
                               !.elapsed = r.elapsed + seconds - passed * StageDuration,
                               !.total = r.total + seconds,
                               !.state = s,
                               !.fertilized = r.fertilized /\ passed = 0])
  BY DEF Grown, passed
<1>4. s \in States /\ s # "fullyMatured"
  BY DEF StatesAfter, States, Row
<1> DEFINE elapsed == r.elapsed + seconds - passed * StageDuration
           fertilized == (r.fertilized /\ passed = 0)
<1>5. elapsed \in Int /\ fertilized \in BOOLEAN
  <2>1. passed * StageDuration \in Int
    BY <1>2, CropAssumption
  <2>2. seconds - passed * StageDuration \in Int
    BY <2>1
  <2>3. elapsed \in Int
    BY <2>2 DEF Row
  <2>4. fertilized \in BOOLEAN
    OBVIOUS
  <2> QED BY <2>3, <2>4
<1> HIDE DEF elapsed, fertilized
<1> DEFINE grown == [r EXCEPT !.stage = stage, !.elapsed = elapsed,
                              !.total = r.total + seconds, !.state = s,
                              !.fertilized = fertilized]
<1>6. grown \in Row
  BY <1>1, <1>2, <1>4, <1>5 DEF Row
<1>7. /\ grown.stage = stage /\ grown.state = s
      /\ grown.quantity = r.quantity
  BY DEF Row
<1> HIDE DEF grown
<1>8. new = Ripe(grown)
  BY <1>3 DEF grown, elapsed, fertilized
<1>9. CASE grown.stage # GrowthStages
  BY <1>4, <1>6, <1>7, <1>8, <1>9 DEF Ripe
<1>10. CASE grown.stage = GrowthStages
  <2> DEFINE quantity == IF grown.state \in {"isWeedy", "isInfested"}
                         THEN AverageHarvest ELSE grown.quantity
  <2>1. new = [grown EXCEPT !.state = "fullyMatured", !.quantity = quantity]
    BY <1>8, <1>10 DEF Ripe
  <2> HIDE DEF quantity
  <2>2. new.quantity = quantity /\ new.stage = GrowthStages
    BY <1>6, <1>10, <2>1 DEF Row
  <2>3. quantity \in Nat /\ quantity >= MinHarvest
    BY <1>6, <1>7, <2>2, AverageType DEF quantity, Row
  <2>4. new \in Row
    BY <1>6, <2>1, <2>3 DEF Row, States
  <2> QED BY <2>2, <2>3, <2>4
<1> QED BY <1>9, <1>10

(* The accounts of the tiles stay what they are.                           *)
LEMMA AccountType ==
    ASSUME TypeOK, NEW outdated \in SUBSET Tiles, NEW seconds, NEW fertilizers, NEW crops,
           \A t \in DOMAIN seconds : seconds[t] \in Int,
           \A t \in DOMAIN fertilizers : fertilizers[t] \in Nat,
           \A t \in DOMAIN crops : crops[t] \in Nat,
           Account(outdated, seconds, fertilizers, crops)
    PROVE  /\ clobbered' \subseteq Tiles /\ given' \in [Tiles -> Int]
           /\ boosted' \in [Tiles -> Nat] /\ stolen' \in [Tiles -> Nat]
BY DEF Account, TypeOK
----------------------------------------------------------------------------
(* Requests begin with what they read and end with nothing.                *)
RequestsTyped ==
    /\ DOMAIN request = Requests
    /\ \A q \in Requests : request[q] # NoRequest =>
        /\ request[q].op \in DOMAIN Columns /\ request[q].tile \in Tiles
        /\ DOMAIN request[q].seen = Columns[request[q].op]
    /\ SeenTyped

LEMMA ReadEffect ==
    ASSUME CropInv, NEW q \in Requests, NEW op \in DOMAIN Columns, NEW t \in Tiles,
           Read(q, op, t), op \in {"fertilize", "thief"} => Planted(t)
    PROVE  RequestsTyped'
<1>1. op \in {"fertilize", "thief"} =>
          row[t] \in Row /\ row[t].quantity >= MinHarvest
  BY DEF CropInv, TypeOK, Planted, QuantityFloor
<1> DEFINE seen == [c \in Columns[op] |-> row[t][c]]
<1>2. op = "fertilize" => seen.elapsed \in Int
  BY <1>1 DEF Columns, Row
<1>3. op = "thief" => seen.quantity \in Nat /\ seen.quantity >= MinHarvest
  BY <1>1 DEF Columns, Row
<1>4. DOMAIN seen = Columns[op]
  OBVIOUS
<1> HIDE DEF seen
<1>5. request' = [request EXCEPT ![q] = [op |-> op, tile |-> t, seen |-> seen]]
  BY DEF Read, seen
<1> QED BY <1>2, <1>3, <1>4, <1>5 DEF RequestsTyped, SeenTyped, CropInv, TypeOK

LEMMA DoneEffect ==
    ASSUME CropInv, NEW q \in Requests, Done(q) \/ UNCHANGED request
    PROVE  RequestsTyped'
BY DEF Done, RequestsTyped, SeenTyped, CropInv, TypeOK

(* A request that writes one row leaves the others as they were.           *)
RowKeeps(t) ==
    \/ UNCHANGED row
    \/ \E r \in Row : /\ row' = [row EXCEPT ![t] = r]
                      /\ r.quantity >= MinHarvest
                      /\ r.state = "fullyMatured" => r.stage = GrowthStages

LEMMA RowEffect ==
    ASSUME CropInv, NEW t \in Tiles, RowKeeps(t)
    PROVE  /\ row' \in [Tiles -> Row \cup {NoRow}]
           /\ QuantityFloor' /\ MatureOnlyAtLastStage'
<1>1. CASE UNCHANGED row
  BY <1>1 DEF CropInv, TypeOK, QuantityFloor, MatureOnlyAtLastStage, Planted
<1>2. ASSUME NEW r \in Row, row' = [row EXCEPT ![t] = r], r.quantity >= MinHarvest,
             r.state = "fullyMatured" => r.stage = GrowthStages
      PROVE  /\ row' \in [Tiles -> Row \cup {NoRow}]
             /\ QuantityFloor' /\ MatureOnlyAtLastStage'
  <2>1. row \in [Tiles -> Row \cup {NoRow}]
    BY DEF CropInv, TypeOK
  <2>2. row'[t] = r /\ \A u \in Tiles : u # t => row'[u] = row[u]
    BY <1>2, <2>1
  <2>3. row' \in [Tiles -> Row \cup {NoRow}]
    BY <1>2, <2>1, Zenon
  <2>4. QuantityFloor'
    BY <1>2, <2>2 DEF CropInv, QuantityFloor, Planted
  <2>5. MatureOnlyAtLastStage'
    BY <1>2, <2>2 DEF CropInv, MatureOnlyAtLastStage, Planted
  <2> QED BY <2>3, <2>4, <2>5
<1> QED BY <1>1, <1>2 DEF RowKeeps

(* The invariant from its parts.                                           *)
LEMMA RequestKeeps ==
    ASSUME CropInv, UNCHANGED <<clock, placed, field, workers>>, RequestsTyped',
           clobbered' \subseteq Tiles, given' \in [Tiles -> Int],
           boosted' \in [Tiles -> Nat], stolen' \in [Tiles -> Nat],
           row' \in [Tiles -> Row \cup {NoRow}], QuantityFloor', MatureOnlyAtLastStage'
    PROVE  CropInv'
<1>1. TypeOK'
  BY DEF CropInv, TypeOK, RequestsTyped, workers
<1>2. HeldGrows'
  BY DEF CropInv, HeldGrows, workers
<1> QED BY <1>1, <1>2 DEF CropInv, RequestsTyped

LEMMA CropInit == Init => CropInv
<1> SUFFICES ASSUME Init PROVE CropInv
  OBVIOUS
<1>1. TypeOK
  BY CropAssumption DEF Init, TypeOK, Nothing
<1>2. HeldGrows /\ SeenTyped
  BY DEF Init, HeldGrows, SeenTyped, Nothing
<1>3. QuantityFloor /\ MatureOnlyAtLastStage
  BY DEF Init, QuantityFloor, MatureOnlyAtLastStage, Planted
<1> QED BY <1>1, <1>2, <1>3 DEF CropInv
(* A request at its commit, with the accounts it keeps.                    *)
LEMMA CommitStep ==
    ASSUME CropInv, NEW q \in Requests, request[q] # NoRequest,
           RequestStep(q), ~(\E t \in Tiles, op \in DOMAIN Columns : Read(q, op, t))
    PROVE  CropInv'
<1> DEFINE t == request[q].tile
           seen == request[q].seen
<1>t. TypeOK
  BY DEF CropInv
<1>1. t \in Tiles
  BY <1>t DEF TypeOK
<1>2. Outdated(q) \in SUBSET Tiles
  BY <1>1 DEF Outdated
<1>3. Planted(t) => row[t] \in Row
  BY <1>t, <1>1 DEF TypeOK, Planted
<1>4. /\ row \in [Tiles -> Row \cup {NoRow}]
      /\ QuantityFloor /\ MatureOnlyAtLastStage
  BY <1>t DEF CropInv, TypeOK
<1>5. clobbered \subseteq Tiles /\ given \in [Tiles -> Int]
      /\ boosted \in [Tiles -> Nat] /\ stolen \in [Tiles -> Nat]
  BY <1>t DEF TypeOK
<1>6. CASE PlantSeed(q)
  <2>1. RequestsTyped'
    BY <1>6, DoneEffect DEF PlantSeed
  <2> DEFINE r == [stage |-> 1, elapsed |-> 0, total |-> 0, state |-> "normal",
                   quantity |-> MaxHarvest, fertilized |-> FALSE, createdAt |-> clock]
  <2>2. r \in Row
    BY <1>t, CropAssumption DEF Row, States, TypeOK
  <2>3. RowKeeps(t)
    BY <1>6, <2>2, CropAssumption DEF PlantSeed, RowKeeps
  <2>4. field' \in Seq(Tiles)
    BY <1>t, <1>1, <1>6 DEF PlantSeed, TypeOK
  <2>5. TypeOK' /\ HeldGrows'
    BY <1>t, <1>1, <1>6, <2>1, <2>3, <2>4, RowEffect
       DEF PlantSeed, TypeOK, workers, history, RequestsTyped, CropInv, HeldGrows
  <2> QED BY <1>1, <2>1, <2>3, <2>5, RowEffect DEF CropInv, RequestsTyped
<1> DEFINE Accounts == /\ clobbered' \subseteq Tiles /\ given' \in [Tiles -> Int]
                       /\ boosted' \in [Tiles -> Nat] /\ stolen' \in [Tiles -> Nat]
<1>n. /\ \A u \in DOMAIN Nothing : Nothing[u] \in Int
      /\ \A u \in DOMAIN Nothing : Nothing[u] \in Nat
  BY DEF Nothing
<1>a. ASSUME NEW crops, NEW fertilizers, Account(Outdated(q), Nothing, fertilizers, crops),
             \A u \in DOMAIN fertilizers : fertilizers[u] \in Nat,
             \A u \in DOMAIN crops : crops[u] \in Nat
      PROVE  Accounts
  BY <1>t, <1>2, <1>a, <1>n, AccountType
<1>q. ASSUME RowKeeps(t), Done(q), Accounts, UNCHANGED <<clock, placed, field, workers>>
      PROVE  CropInv'
  BY <1>1, <1>q, RowEffect, DoneEffect, RequestKeeps
<1>7. CASE Care(q)
  <2>1. Accounts
    BY <1>7, <1>a, <1>n DEF Care
  <2>2. RowKeeps(t)
    <3>1. CASE Planted(t)
      <4>1. row' = [row EXCEPT ![t] = [row[t] EXCEPT !.state = "normal"]]
        BY <1>7, <3>1 DEF Care
      <4>2. /\ [row[t] EXCEPT !.state = "normal"] \in Row
            /\ [row[t] EXCEPT !.state = "normal"].state = "normal"
            /\ [row[t] EXCEPT !.state = "normal"].quantity = row[t].quantity
        BY <1>3, <3>1 DEF Row, States
      <4>3. row[t].quantity >= MinHarvest
        BY <1>1, <1>4, <3>1 DEF QuantityFloor
      <4> QED BY <4>1, <4>2, <4>3 DEF RowKeeps
    <3>2. CASE ~Planted(t)
      BY <1>7, <3>2 DEF Care, RowKeeps
    <3> QED BY <3>1, <3>2
  <2> QED BY <1>7, <1>q, <2>1, <2>2 DEF Care
<1>8. CASE UseFertilizer(q)
  <2>1. Accounts
    <3> DEFINE entry == [u \in {t} |-> 1]
    <3>1. \A u \in DOMAIN entry : entry[u] \in Nat
      OBVIOUS
    <3>2. Account(Outdated(q), Nothing, entry, Nothing)
      BY <1>8 DEF UseFertilizer
    <3> HIDE DEF entry
    <3> QED BY <1>a, <1>n, <3>1, <3>2
  <2>2. RowKeeps(t)
    <3>1. CASE Planted(t)
      <4> DEFINE r == [row[t] EXCEPT !.elapsed = seen.elapsed + FertilizerEffect,
                                     !.fertilized = TRUE]
      <4>1. row' = [row EXCEPT ![t] = r]
        BY <1>8, <3>1 DEF UseFertilizer
      <4>2. seen.elapsed + FertilizerEffect \in Int
        BY <1>8, CropAssumption DEF UseFertilizer, CropInv, SeenTyped
      <4>3. /\ r \in Row /\ r.quantity = row[t].quantity
            /\ r.state = row[t].state /\ r.stage = row[t].stage
        BY <1>3, <3>1, <4>2 DEF Row
      <4>4. /\ row[t].quantity >= MinHarvest
            /\ row[t].state = "fullyMatured" => row[t].stage = GrowthStages
        BY <1>1, <1>4, <3>1 DEF QuantityFloor, MatureOnlyAtLastStage
      <4> HIDE DEF r
      <4> QED BY <4>1, <4>3, <4>4 DEF RowKeeps
    <3>2. CASE ~Planted(t)
      BY <1>8, <3>2 DEF UseFertilizer, RowKeeps
    <3> QED BY <3>1, <3>2
  <2> QED BY <1>8, <1>q, <2>1, <2>2 DEF UseFertilizer
<1>9. CASE ThiefCrop(q)
  <2>1. seen.quantity \in Nat /\ seen.quantity >= MinHarvest
    BY <1>9 DEF ThiefCrop, CropInv, SeenTyped
  <2>2. PICK computed \in 1 .. 3 :
            LET taken == Min2(computed, seen.quantity - MinHarvest) IN
            /\ row' = IF Planted(t)
                      THEN [row EXCEPT ![t].quantity = seen.quantity - taken]
                      ELSE row
            /\ Account(Outdated(q), Nothing, Nothing, [u \in {t} |-> taken])
    BY <1>9 DEF ThiefCrop
  <2> DEFINE taken == Min2(computed, seen.quantity - MinHarvest)
             left  == seen.quantity - taken
  <2>3. taken \in Nat /\ left \in Nat /\ left >= MinHarvest
    BY <2>1, CropAssumption DEF Min2
  <2>4. /\ row' = IF Planted(t) THEN [row EXCEPT ![t].quantity = left] ELSE row
        /\ Account(Outdated(q), Nothing, Nothing, [u \in {t} |-> taken])
    BY <2>2
  <2> HIDE DEF taken, left
  <2>5. Accounts
    <3> DEFINE entry == [u \in {t} |-> taken]
    <3>1. \A u \in DOMAIN entry : entry[u] \in Nat
      BY <2>3
    <3>2. Account(Outdated(q), Nothing, Nothing, entry)
      BY <2>4
    <3> HIDE DEF entry
    <3> QED BY <1>a, <1>n, <3>1, <3>2
  <2>6. RowKeeps(t)
    <3>1. CASE Planted(t)
      <4> DEFINE r == [row[t] EXCEPT !.quantity = left]
      <4>1. row' = [row EXCEPT ![t] = r]
        BY <2>4, <3>1
      <4>2. /\ r \in Row /\ r.quantity = left
            /\ r.state = row[t].state /\ r.stage = row[t].stage
        BY <1>3, <2>3, <3>1 DEF Row
      <4>3. row[t].state = "fullyMatured" => row[t].stage = GrowthStages
        BY <1>1, <1>4, <3>1 DEF MatureOnlyAtLastStage
      <4> HIDE DEF r
      <4> QED BY <2>3, <4>1, <4>2, <4>3 DEF RowKeeps
    <3>2. CASE ~Planted(t)
      BY <2>4, <3>2 DEF RowKeeps
    <3> QED BY <3>1, <3>2
  <2> QED BY <1>9, <1>q, <2>5, <2>6 DEF ThiefCrop
<1>10. CASE RecoverTile(q)
  <2>1. row' = [row EXCEPT ![t] = NoRow]
    BY <1>10 DEF RecoverTile
  <2>2. row' \in [Tiles -> Row \cup {NoRow}]
    BY <1>4, <2>1
  <2>3. row'[t] = NoRow /\ \A u \in Tiles : u # t => row'[u] = row[u]
    BY <1>4, <1>1, <2>1
  <2>4. QuantityFloor'
    BY <1>4, <2>3 DEF QuantityFloor, Planted
  <2>5. MatureOnlyAtLastStage'
    BY <1>4, <2>3 DEF MatureOnlyAtLastStage, Planted
  <2>6. RequestsTyped'
    BY <1>10, DoneEffect DEF RecoverTile
  <2>7. TypeOK' /\ HeldGrows'
    BY <1>t, <1>10, <2>2, <2>6 DEF RecoverTile, TypeOK, workers, history, RequestsTyped,
                                   CropInv, HeldGrows
  <2> QED BY <2>4, <2>5, <2>6, <2>7 DEF CropInv, RequestsTyped
<1>11. CASE AbortRequest(q)
  BY <1>4, <1>5, <1>11, <1>q DEF AbortRequest, RowKeeps, history
<1> QED BY <1>6, <1>7, <1>8, <1>9, <1>10, <1>11
        DEF RequestStep, ReadPlantSeed, ReadWater, ReadUseHerbicide, ReadUsePesticide,
            ReadHelpWater, ReadHelpUseHerbicide, ReadHelpUsePesticide, ReadCare,
            ReadFertilizer, ReadThief, ReadRecoverTile, Read
(* A request at its read: only the request changes.                        *)
LEMMA ReadStep ==
    ASSUME CropInv, NEW q \in Requests, NEW t \in Tiles, NEW op \in DOMAIN Columns,
           Read(q, op, t), op \in {"fertilize", "thief"} => Planted(t)
    PROVE  CropInv'
<1>1. RequestsTyped'
  BY ReadEffect
<1>2. UNCHANGED <<clock, placed, row, field, workers, history>>
  BY DEF Read
<1>3. QuantityFloor' /\ MatureOnlyAtLastStage'
  BY <1>2 DEF CropInv, QuantityFloor, MatureOnlyAtLastStage, Planted
<1> QED BY <1>1, <1>2, <1>3, RequestKeeps DEF CropInv, TypeOK, history

(* Every step of workers and requests keeps the invariant.                 *)
LEMMA CropStep == CropInv /\ [Next]_vars => CropInv'
<1> SUFFICES ASSUME CropInv, [Next]_vars PROVE CropInv'
  OBVIOUS
<1>t. TypeOK
  BY DEF CropInv
<1>1. ASSUME NEW w \in Workers, NEW job \in Jobs, ReadPage(w, job) PROVE CropInv'
  <2>1. job.time \in Int
    BY CropAssumption
  <2> DEFINE page == [t \in Page(job) |-> row[t]]
  <2>2. \A t \in Page(job) : t \in Tiles /\ Planted(t) /\ row[t].state # "fullyMatured"
    BY DEF Page
  <2>3. \A t \in Page(job) : row[t] \in Row /\ row[t].quantity >= MinHarvest
    BY <1>t, <2>2 DEF CropInv, TypeOK, Planted, QuantityFloor
  <2>4. /\ DOMAIN page \subseteq Tiles /\ page \in [DOMAIN page -> Row]
        /\ \A t \in DOMAIN page :
               page[t].quantity >= MinHarvest /\ page[t].state # "fullyMatured"
    BY <2>2, <2>3
  <2>5. held' = [held EXCEPT ![w] = page] /\ time' = [time EXCEPT ![w] = job.time]
    BY <1>1 DEF ReadPage
  <2> HIDE DEF page
  <2>6. TypeOK'
    BY <1>t, <1>1, <2>1, <2>4, <2>5 DEF ReadPage, TypeOK, history
  <2>7. HeldGrows'
    BY <1>t, <2>4, <2>5 DEF CropInv, TypeOK, HeldGrows
  <2>8. SeenTyped' /\ QuantityFloor' /\ MatureOnlyAtLastStage'
    BY <1>1 DEF ReadPage, CropInv, SeenTyped, QuantityFloor, MatureOnlyAtLastStage, Planted
  <2> QED BY <2>6, <2>7, <2>8 DEF CropInv
(* A worker that ends its job holds nothing.                               *)
<1>h. ASSUME NEW w \in Workers, held' = [held EXCEPT ![w] = Nothing],
             time' = [time EXCEPT ![w] = 0]
      PROVE  /\ DOMAIN held' = Workers
             /\ \A v \in Workers : /\ DOMAIN held'[v] \subseteq Tiles
                                   /\ held'[v] \in [DOMAIN held'[v] -> Row]
             /\ time' \in [Workers -> Int]
             /\ HeldGrows'
  <2>1. DOMAIN Nothing = {} /\ Nothing \in [{} -> Row]
    BY DEF Nothing
  <2>2. /\ DOMAIN held' = Workers
        /\ \A v \in Workers : held'[v] = IF v = w THEN Nothing ELSE held[v]
    BY <1>h, <1>t DEF TypeOK
  <2>3. time' \in [Workers -> Int]
    BY <1>h, <1>t DEF TypeOK
  <2>4. \A v \in Workers : /\ DOMAIN held'[v] \subseteq Tiles
                           /\ held'[v] \in [DOMAIN held'[v] -> Row]
    BY <1>t, <2>1, <2>2 DEF TypeOK
  <2>5. HeldGrows'
    BY <2>1, <2>2 DEF CropInv, HeldGrows
  <2> QED BY <2>2, <2>3, <2>4, <2>5
<1>2. ASSUME NEW w \in Workers, SaveRows(w) PROVE CropInv'
  <2>1. PICK new \in [DOMAIN held[w] -> UNION {Grown(held[w][t], time[w]) : t \in DOMAIN held[w]}] :
            /\ \A t \in DOMAIN held[w] :
                  /\ new[t] \in Grown(held[w][t], time[w])
                  /\ new[t].quantity # NotAnInteger
            /\ row' = [t \in Tiles |-> IF t \in DOMAIN held[w] THEN new[t] ELSE row[t]]
            /\ Account({t \in DOMAIN held[w] : held[w][t] # row[t]},
                       [t \in DOMAIN held[w] |-> time[w]], Nothing, Nothing)
    BY <1>2 DEF SaveRows
  <2>2. DOMAIN held[w] \subseteq Tiles /\ time[w] \in Int
    BY <1>t DEF TypeOK
  <2>3. \A t \in DOMAIN held[w] :
            /\ new[t] \in Row
            /\ new[t].quantity >= MinHarvest
            /\ new[t].state = "fullyMatured" => new[t].stage = GrowthStages
    <3> SUFFICES ASSUME NEW t \in DOMAIN held[w]
                 PROVE  /\ new[t] \in Row
                        /\ new[t].quantity >= MinHarvest
                        /\ new[t].state = "fullyMatured" => new[t].stage = GrowthStages
      OBVIOUS
    <3>1. /\ held[w][t] \in Row
          /\ held[w][t].quantity >= MinHarvest /\ held[w][t].state # "fullyMatured"
      BY <1>t DEF CropInv, TypeOK, HeldGrows
    <3> QED BY <2>1, <2>2, <3>1, GrownRow
  <2>4. \A t \in Tiles : row'[t] = IF t \in DOMAIN held[w] THEN new[t] ELSE row[t]
    BY <2>1
  <2>5. row' \in [Tiles -> Row \cup {NoRow}]
    BY <1>t, <2>1, <2>3 DEF TypeOK
  <2>6. QuantityFloor'
    BY <2>3, <2>4 DEF CropInv, QuantityFloor, Planted
  <2>7. MatureOnlyAtLastStage'
    BY <2>3, <2>4 DEF CropInv, MatureOnlyAtLastStage, Planted
  <2>8. /\ clobbered' \subseteq Tiles /\ given' \in [Tiles -> Int]
        /\ boosted' \in [Tiles -> Nat] /\ stolen' \in [Tiles -> Nat]
    <3> DEFINE entry    == [t \in DOMAIN held[w] |-> time[w]]
               outdated == {t \in DOMAIN held[w] : held[w][t] # row[t]}
    <3>1. \A t \in DOMAIN entry : entry[t] \in Int
      BY <2>2
    <3>2. Account(outdated, entry, Nothing, Nothing)
      BY <2>1
    <3>3. outdated \in SUBSET Tiles
      BY <2>2
    <3>4. \A t \in DOMAIN Nothing : Nothing[t] \in Nat
      BY DEF Nothing
    <3> HIDE DEF entry, outdated
    <3> QED BY <1>t, <3>1, <3>2, <3>3, <3>4, AccountType
  <2>9. /\ held' = [held EXCEPT ![w] = Nothing] /\ time' = [time EXCEPT ![w] = 0]
        /\ UNCHANGED <<clock, placed, field, request>>
    BY <1>2 DEF SaveRows
  <2>10. TypeOK' /\ HeldGrows'
    BY <1>t, <1>h, <2>5, <2>8, <2>9 DEF TypeOK
  <2>11. SeenTyped'
    BY <2>9 DEF CropInv, SeenTyped
  <2> QED BY <2>6, <2>7, <2>10, <2>11 DEF CropInv
<1>3. ASSUME NEW w \in Workers, FailJob(w) PROVE CropInv'
  <2>1. /\ held' = [held EXCEPT ![w] = Nothing] /\ time' = [time EXCEPT ![w] = 0]
        /\ UNCHANGED <<clock, placed, row, field, request, history>>
    BY <1>3 DEF FailJob
  <2>2. TypeOK' /\ HeldGrows'
    BY <1>t, <1>h, <2>1 DEF TypeOK, history
  <2>3. SeenTyped' /\ QuantityFloor' /\ MatureOnlyAtLastStage'
    BY <2>1 DEF CropInv, SeenTyped, QuantityFloor, MatureOnlyAtLastStage, Planted
  <2> QED BY <2>2, <2>3 DEF CropInv
<1>4. ASSUME NEW q \in Requests, RequestStep(q) PROVE CropInv'
  <2>1. CASE \E t \in Tiles, op \in DOMAIN Columns :
                Read(q, op, t) /\ (op \in {"fertilize", "thief"} => Planted(t))
    BY <2>1, ReadStep
  <2>2. CASE \E t \in Tiles : ReadPlantSeed(q, t) \/ ReadRecoverTile(q, t)
    BY <2>1, <2>2 DEF ReadPlantSeed, ReadRecoverTile, Columns
  <2>3. CASE \E t \in Tiles : ReadFertilizer(q, t) \/ ReadThief(q, t)
    BY <2>1, <2>3 DEF ReadFertilizer, ReadThief, Columns, Planted
  <2>4. CASE \E t \in Tiles, state \in States : ReadCare(q, t, state)
    BY <2>1, <2>4 DEF ReadCare, Columns
  <2>5. CASE PlantSeed(q) \/ Care(q) \/ UseFertilizer(q) \/ ThiefCrop(q)
             \/ RecoverTile(q) \/ AbortRequest(q)
    <3>1. request[q] # NoRequest
      BY <2>5 DEF PlantSeed, Care, UseFertilizer, ThiefCrop, RecoverTile, AbortRequest
    <3>2. ~(\E t \in Tiles, op \in DOMAIN Columns : Read(q, op, t))
      BY <3>1 DEF Read
    <3> QED BY <1>4, <3>1, <3>2, CommitStep
  <2> QED BY <1>4, <2>2, <2>3, <2>4, <2>5
          DEF RequestStep, ReadWater, ReadUseHerbicide, ReadUsePesticide, ReadHelpWater,
              ReadHelpUseHerbicide, ReadHelpUsePesticide, States
<1>5. CASE Second
  <2>1. clock' \in 0 .. MaxClock /\ UNCHANGED <<placed, row, field, workers, request, history>>
    BY <1>t, <1>5, CropAssumption DEF Second, TypeOK
  <2>2. TypeOK'
    BY <1>t, <2>1 DEF TypeOK, workers, history
  <2>3. HeldGrows' /\ SeenTyped'
    BY <2>1 DEF CropInv, HeldGrows, SeenTyped, workers
  <2>4. QuantityFloor' /\ MatureOnlyAtLastStage'
    BY <2>1 DEF CropInv, QuantityFloor, MatureOnlyAtLastStage, Planted
  <2> QED BY <2>2, <2>3, <2>4 DEF CropInv
<1>6. CASE UNCHANGED vars
  <2>1. TypeOK'
    BY <1>t, <1>6 DEF vars, TypeOK, workers, history
  <2>2. HeldGrows' /\ SeenTyped'
    BY <1>6 DEF vars, CropInv, HeldGrows, SeenTyped, workers
  <2>3. QuantityFloor' /\ MatureOnlyAtLastStage'
    BY <1>6 DEF vars, CropInv, QuantityFloor, MatureOnlyAtLastStage, Planted
  <2> QED BY <2>1, <2>2, <2>3 DEF CropInv
<1>7. ASSUME NEW w \in Workers, WorkerStep(w) PROVE CropInv'
  BY <1>2, <1>3, <1>7 DEF WorkerStep
<1> QED BY <1>1, <1>4, <1>5, <1>6, <1>7 DEF Next

LEMMA CropInvariant == Spec => []CropInv
BY CropInit, CropStep, PTL DEF Spec

(* Each variable keeps to the values the code can give it.                 *)
THEOREM TypeCorrect == Spec => []TypeOK
<1>1. CropInv => TypeOK
  BY DEF CropInv
<1> QED BY CropInvariant, <1>1, PTL

(* No overlap of workers, thieves and caring requests brings a row below   *)
(* the minimal harvest.                                                    *)
THEOREM FloorKept == Spec => []QuantityFloor
<1>1. CropInv => QuantityFloor
  BY DEF CropInv
<1> QED BY CropInvariant, <1>1, PTL

(* No overlap makes a crop mature before or after its last stage.          *)
THEOREM MatureAtLastStage == Spec => []MatureOnlyAtLastStage
<1>1. CropInv => MatureOnlyAtLastStage
  BY DEF CropInv
<1> QED BY CropInvariant, <1>1, PTL
----------------------------------------------------------------------------
(* The accounts of a tile.  A crop that is not mature still holds all of   *)
(* its harvest, and a tile that may yet be planted has no account: these   *)
(* make the clock of the stages and the conservation of the harvest        *)
(* inductive.                                                              *)
TileBooks(t) ==
    IF Planted(t)
    THEN /\ (row[t].stage - 1) * StageDuration + row[t].elapsed
                = given[t] + boosted[t] * FertilizerEffect
         /\ IF row[t].state = "fullyMatured"
            THEN row[t].quantity + stolen[t] \in {MaxHarvest, AverageHarvest}
            ELSE row[t].quantity = MaxHarvest /\ stolen[t] = 0
    ELSE t \in placed => given[t] = 0 /\ boosted[t] = 0 /\ stolen[t] = 0

(* What the body of NeverFallsBack asks of a tile.                         *)
NotBack(t) ==
    Planted(t) /\ Planted(t)' =>
        /\ row'[t].stage >= row[t].stage
        /\ row[t].state = "fullyMatured" => row'[t].state = "fullyMatured"
        /\ row[t].state = "normal"
             /\ row'[t].state \in {"needWater", "isWeedy", "isInfested"}
           => row'[t].stage > row[t].stage

(* A request under way saw the state it is about, on a tile that has a row *)
(* for as long as it is placed.                                            *)
RequestsKnow ==
    \A q \in Requests : request[q] # NoRequest =>
        /\ request[q].op \in {"care", "fertilize", "thief"} =>
              (request[q].tile \in placed => Planted(request[q].tile))
        /\ request[q].op = "care" =>
              request[q].seen.state \in {"needWater", "isWeedy", "isInfested"}
        /\ request[q].op = "thief" => request[q].seen.state = "fullyMatured"

BooksInv == RequestsKnow /\ \A t \in Tiles \ clobbered : TileBooks(t)
BooksStep == \A t \in Tiles \ clobbered' : TileBooks(t)' /\ NotBack(t)

LEMMA SameTile ==
    ASSUME CropInv, BooksInv, NEW t \in Tiles, t \notin clobbered',
           clobbered \subseteq clobbered', placed' \subseteq placed,
           row'[t] = row[t], given'[t] = given[t], boosted'[t] = boosted[t],
           stolen'[t] = stolen[t]
    PROVE  TileBooks(t)' /\ NotBack(t)
<1>1. TileBooks(t)'
  BY DEF BooksInv, TileBooks, Planted
<1>2. Planted(t) => row[t].stage \in Int
  BY DEF CropInv, TypeOK, Row, Planted
<1> QED BY <1>1, <1>2 DEF NotBack

(* What an account comes to for a tile whose row is not outdated.          *)
LEMMA AccountOf ==
    ASSUME NEW outdated, NEW seconds, NEW fertilizers, NEW crops,
           Account(outdated, seconds, fertilizers, crops),
           NEW t \in Tiles, t \notin clobbered'
    PROVE  /\ clobbered \subseteq clobbered' /\ t \notin outdated
           /\ given'[t] = IF t \in DOMAIN seconds THEN given[t] + seconds[t] ELSE given[t]
           /\ boosted'[t] = IF t \in DOMAIN fertilizers THEN boosted[t] + fertilizers[t]
                            ELSE boosted[t]
           /\ stolen'[t] = IF t \in DOMAIN crops THEN stolen[t] + crops[t] ELSE stolen[t]
BY DEF Account

(* A job adds its time to the clock of the stages, does not go back, and   *)
(* makes a whole or a half harvest of a crop that matures.                 *)
LEMMA GrownBooks ==
    ASSUME NEW r \in Row, r.state # "fullyMatured", NEW seconds \in Int,
           NEW new \in Grown(r, seconds)
    PROVE  /\ (new.stage - 1) * StageDuration + new.elapsed
                 = (r.stage - 1) * StageDuration + r.elapsed + seconds
           /\ IF new.state = "fullyMatured" THEN new.quantity \in {r.quantity, AverageHarvest}
              ELSE new.quantity = r.quantity
           /\ new.stage >= r.stage
           /\ r.state = "normal" /\ new.state \in {"needWater", "isWeedy", "isInfested"}
              => new.stage > r.stage
<1> DEFINE passed == StagesPassed(r, r.elapsed + seconds)
           stage  == r.stage + passed
<1>1. r.elapsed \in Int /\ r.stage \in Int
  BY DEF Row
<1>2. passed \in Nat /\ stage \in Int /\ stage >= r.stage
  BY <1>1, StagesPassedType
<1> HIDE DEF passed
<1>3. PICK s \in StatesAfter(r, stage) :
          new = Ripe([r EXCEPT !.stage = stage,
                               !.elapsed = r.elapsed + seconds - passed * StageDuration,
                               !.total = r.total + seconds,
                               !.state = s,
                               !.fertilized = r.fertilized /\ passed = 0])
  BY DEF Grown, passed
<1> DEFINE grown == [r EXCEPT !.stage = stage,
                              !.elapsed = r.elapsed + seconds - passed * StageDuration,
                              !.total = r.total + seconds,
                              !.state = s,
                              !.fertilized = r.fertilized /\ passed = 0]
<1>4. /\ grown.stage = stage /\ grown.state = s /\ grown.quantity = r.quantity
      /\ grown.elapsed = r.elapsed + seconds - passed * StageDuration
  BY DEF Row
<1>5. /\ s # "fullyMatured"
      /\ r.state = "normal" /\ s \in {"needWater", "isWeedy", "isInfested"}
         => stage > r.stage
  BY <1>1, <1>2, CropAssumption DEF StatesAfter
<1>6. grown \in Row
  <2>1. r.elapsed + seconds - passed * StageDuration \in Int
    BY <1>1, <1>2, CropAssumption
  <2>2. (r.fertilized /\ passed = 0) \in BOOLEAN
    OBVIOUS
  <2>3. r.total + seconds \in Int
    BY DEF Row
  <2>4. stage \in 1 .. GrowthStages + 1 /\ s \in States
    BY <1>1, StagesPassedType DEF passed, StatesAfter, States, Row
  <2> DEFINE elapsed == r.elapsed + seconds - passed * StageDuration
             fertilized == (r.fertilized /\ passed = 0)
  <2>5. elapsed \in Int /\ fertilized \in BOOLEAN
    BY <2>1, <2>2
  <2> HIDE DEF elapsed, fertilized
  <2>6. [r EXCEPT !.stage = stage, !.elapsed = elapsed, !.total = r.total + seconds,
                  !.state = s, !.fertilized = fertilized] \in Row
    BY <2>3, <2>4, <2>5 DEF Row
  <2> QED BY <2>6 DEF elapsed, fertilized
<1> HIDE DEF grown
<1>7. /\ new.stage = stage /\ new.elapsed = grown.elapsed
      /\ \/ new.state = s /\ new.quantity = r.quantity
         \/ new.state = "fullyMatured" /\ new.quantity \in {r.quantity, AverageHarvest}
  <2>1. new = Ripe(grown)
    BY <1>3 DEF grown
  <2>2. CASE grown.stage # GrowthStages
    BY <1>4, <2>1, <2>2 DEF Ripe
  <2>3. CASE grown.stage = GrowthStages
    <3> DEFINE quantity == IF grown.state \in {"isWeedy", "isInfested"}
                           THEN AverageHarvest ELSE grown.quantity
    <3>1. new = [grown EXCEPT !.state = "fullyMatured", !.quantity = quantity]
      BY <2>1, <2>3 DEF Ripe
    <3>2. quantity \in {r.quantity, AverageHarvest}
      BY <1>4
    <3> HIDE DEF quantity
    <3>3. /\ new.state = "fullyMatured" /\ new.quantity = quantity
          /\ new.stage = grown.stage /\ new.elapsed = grown.elapsed
      BY <1>6, <3>1 DEF Row
    <3> QED BY <1>4, <3>2, <3>3
  <2> QED BY <2>2, <2>3
<1>8. (stage - 1) * StageDuration + (r.elapsed + seconds - passed * StageDuration)
         = (r.stage - 1) * StageDuration + r.elapsed + seconds
  BY <1>1, <1>2, CropAssumption
<1> QED BY <1>2, <1>4, <1>5, <1>7, <1>8

(* A worker that saves a row as it read it adds its job to the account;    *)
(* one that brings back another row closes it.                             *)
LEMMA SaveBooks ==
    ASSUME CropInv, BooksInv, NEW w \in Workers, SaveRows(w)
    PROVE  BooksStep /\ RequestsKnow'
<1>1. PICK new \in [DOMAIN held[w] -> UNION {Grown(held[w][t], time[w]) : t \in DOMAIN held[w]}] :
          /\ \A t \in DOMAIN held[w] : /\ new[t] \in Grown(held[w][t], time[w])
                                       /\ new[t].quantity # NotAnInteger
                                       /\ Planted(t)
          /\ row' = [t \in Tiles |-> IF t \in DOMAIN held[w] THEN new[t] ELSE row[t]]
          /\ Account({t \in DOMAIN held[w] : held[w][t] # row[t]},
                     [t \in DOMAIN held[w] |-> time[w]], Nothing, Nothing)
  BY DEF SaveRows
<1>2. UNCHANGED <<placed, request>>
  BY DEF SaveRows
<1>3. /\ DOMAIN held[w] \subseteq Tiles /\ time[w] \in Int
      /\ \A t \in DOMAIN held[w] : /\ held[w][t] \in Row
                                   /\ held[w][t].quantity >= MinHarvest
                                   /\ held[w][t].state # "fullyMatured"
  BY DEF CropInv, TypeOK, HeldGrows
<1>4. \A t \in DOMAIN held[w] : new[t] \in Row
  BY <1>1, <1>3, GrownRow
<1>5. \A t \in Tiles : row'[t] = IF t \in DOMAIN held[w] THEN new[t] ELSE row[t]
  BY <1>1
<1>6. ASSUME NEW t \in Tiles, Planted(t) PROVE Planted(t)'
  <2>1. row'[t] = new[t] \/ row'[t] = row[t]
    BY <1>5
  <2>2. t \in DOMAIN held[w] => new[t] # NoRow
    BY <1>4 DEF Row, NoRow
  <2> QED BY <1>5, <1>6, <2>2 DEF Planted
<1>7. RequestsKnow'
  BY <1>2, <1>6 DEF BooksInv, RequestsKnow, CropInv, TypeOK
<1>8. ASSUME NEW t \in Tiles, t \notin clobbered'
      PROVE  TileBooks(t)' /\ NotBack(t)
  <2> DEFINE outdated == {u \in DOMAIN held[w] : held[w][u] # row[u]}
             seconds  == [u \in DOMAIN held[w] |-> time[w]]
  <2>1. DOMAIN Nothing = {}
    BY DEF Nothing
  <2>2. Account(outdated, seconds, Nothing, Nothing)
    BY <1>1
  <2> HIDE DEF outdated, seconds
  <2>3. /\ clobbered \subseteq clobbered' /\ t \notin outdated
        /\ given'[t] = IF t \in DOMAIN seconds THEN given[t] + seconds[t] ELSE given[t]
        /\ boosted'[t] = boosted[t] /\ stolen'[t] = stolen[t]
    BY <1>8, <2>1, <2>2, AccountOf
  <2>4. CASE t \notin DOMAIN held[w]
    BY <1>2, <1>5, <1>8, <2>3, <2>4, SameTile DEF seconds
  <2>5. CASE t \in DOMAIN held[w]
    <3>1. held[w][t] = row[t] /\ given'[t] = given[t] + time[w]
      BY <2>3, <2>5 DEF outdated, seconds
    <3>2. /\ row[t] \in Row /\ row[t].state # "fullyMatured" /\ time[w] \in Int
          /\ row'[t] = new[t] /\ new[t] \in Grown(row[t], time[w]) /\ new[t] \in Row
          /\ Planted(t) /\ Planted(t)'
      BY <1>1, <1>3, <1>4, <1>5, <1>6, <2>5, <3>1
    <3>3. TileBooks(t)
      BY <1>8, <2>3 DEF BooksInv
    <3>4. /\ (new[t].stage - 1) * StageDuration + new[t].elapsed
                = (row[t].stage - 1) * StageDuration + row[t].elapsed + time[w]
          /\ IF new[t].state = "fullyMatured"
             THEN new[t].quantity \in {row[t].quantity, AverageHarvest}
             ELSE new[t].quantity = row[t].quantity
          /\ new[t].stage >= row[t].stage
          /\ row[t].state = "normal" /\ new[t].state \in {"needWater", "isWeedy", "isInfested"}
             => new[t].stage > row[t].stage
      BY <3>2, GrownBooks
    <3>5. /\ given[t] \in Int /\ boosted[t] * FertilizerEffect \in Int
          /\ (row[t].stage - 1) * StageDuration \in Int /\ row[t].elapsed \in Int
      <4>1. row[t].stage \in Int /\ row[t].elapsed \in Int
        BY <3>2 DEF Row
      <4>2. given[t] \in Int /\ boosted[t] \in Int
        BY DEF CropInv, TypeOK
      <4> QED BY <4>1, <4>2, CropAssumption
    <3>6. (new[t].stage - 1) * StageDuration + new[t].elapsed
             = given'[t] + boosted'[t] * FertilizerEffect
      <4> DEFINE before == (row[t].stage - 1) * StageDuration
                 after  == (new[t].stage - 1) * StageDuration
                 spent  == boosted[t] * FertilizerEffect
      <4>1. before + row[t].elapsed = given[t] + spent
        BY <3>2, <3>3 DEF TileBooks
      <4>2. after + new[t].elapsed = before + row[t].elapsed + time[w]
        BY <3>4
      <4>3. boosted'[t] * FertilizerEffect = spent
        BY <2>3
      <4>4. before \in Int /\ spent \in Int
        BY <3>5
      <4> HIDE DEF before, after, spent
      <4>5. after + new[t].elapsed = given'[t] + spent
        BY <3>1, <3>2, <3>5, <4>1, <4>2, <4>4
      <4> QED BY <4>3, <4>5 DEF after
    <3>7. IF new[t].state = "fullyMatured"
          THEN new[t].quantity + stolen'[t] \in {MaxHarvest, AverageHarvest}
          ELSE new[t].quantity = MaxHarvest /\ stolen'[t] = 0
      <4>1. row[t].quantity = MaxHarvest /\ stolen'[t] = 0
        BY <2>3, <3>2, <3>3 DEF TileBooks
      <4>2. new[t].quantity \in Nat
        BY <3>2 DEF Row
      <4> QED BY <3>4, <4>1, <4>2
    <3> QED BY <3>2, <3>4, <3>6, <3>7 DEF TileBooks, NotBack
  <2> QED BY <2>4, <2>5
<1> QED BY <1>7, <1>8 DEF BooksStep

(* A caring request, a fertilizer or a theft that saw the row as it is     *)
(* keeps its account.                                                      *)
LEMMA CareBooks ==
    ASSUME CropInv, BooksInv, NEW q \in Requests, Care(q),
           NEW t \in Tiles, t \notin clobbered'
    PROVE  TileBooks(t)' /\ NotBack(t)
<1> DEFINE u == request[q].tile
<1>1. /\ row' = IF Planted(u) THEN [row EXCEPT ![u].state = "normal"] ELSE row
      /\ request[q] # NoRequest /\ request[q].op = "care" /\ placed' = placed
      /\ Account(Outdated(q), Nothing, Nothing, Nothing)
  BY DEF Care
<1>2. DOMAIN Nothing = {}
  BY DEF Nothing
<1>3. /\ clobbered \subseteq clobbered' /\ t \notin Outdated(q)
      /\ given'[t] = given[t] /\ boosted'[t] = boosted[t] /\ stolen'[t] = stolen[t]
  BY <1>1, <1>2, AccountOf
<1>4. row \in [Tiles -> Row \cup {NoRow}]
  BY DEF CropInv, TypeOK
<1>5. CASE t # u \/ ~Planted(u)
  BY <1>1, <1>3, <1>4, <1>5, SameTile
<1>6. CASE t = u /\ Planted(u)
  <2>1. /\ row[t] \in Row /\ row'[t] = [row[t] EXCEPT !.state = "normal"]
    BY <1>1, <1>4, <1>6 DEF Planted
  <2>2. /\ row'[t].state = "normal" /\ row'[t].stage = row[t].stage
        /\ row'[t].elapsed = row[t].elapsed /\ row'[t].quantity = row[t].quantity
        /\ row[t].stage \in Int
    BY <2>1 DEF Row
  <2>3. row[t].state # "fullyMatured"
    <3>1. "state" \in DOMAIN request[q].seen
      BY <1>1 DEF CropInv, TypeOK, Columns
    <3>2. row[t]["state"] = request[q].seen["state"]
      BY <1>3, <1>6, <3>1 DEF Outdated
    <3> QED BY <1>1, <3>2 DEF BooksInv, RequestsKnow
  <2>4. TileBooks(t)
    BY <1>3 DEF BooksInv
  <2>5. Planted(t)'
    BY <2>1 DEF Planted, Row, NoRow
  <2> QED BY <1>3, <1>6, <2>2, <2>3, <2>4, <2>5 DEF TileBooks, NotBack
<1> QED BY <1>5, <1>6

LEMMA FertilizerBooks ==
    ASSUME CropInv, BooksInv, NEW q \in Requests, UseFertilizer(q),
           NEW t \in Tiles, t \notin clobbered'
    PROVE  TileBooks(t)' /\ NotBack(t)
<1> DEFINE u == request[q].tile
           entry == [v \in {u} |-> 1]
           elapsed == request[q].seen.elapsed + FertilizerEffect
<1>1. /\ row' = IF Planted(u)
                THEN [row EXCEPT ![u].elapsed = elapsed, ![u].fertilized = TRUE] ELSE row
      /\ request[q] # NoRequest /\ request[q].op = "fertilize" /\ placed' = placed
      /\ Account(Outdated(q), Nothing, entry, Nothing)
  BY DEF UseFertilizer
<1>2. DOMAIN Nothing = {} /\ DOMAIN entry = {u} /\ entry[u] = 1
  BY DEF Nothing
<1> HIDE DEF entry, elapsed
<1>3. /\ clobbered \subseteq clobbered' /\ t \notin Outdated(q)
      /\ given'[t] = given[t] /\ stolen'[t] = stolen[t]
      /\ boosted'[t] = IF t = u THEN boosted[t] + 1 ELSE boosted[t]
  BY <1>1, <1>2, AccountOf
<1>4. row \in [Tiles -> Row \cup {NoRow}]
  BY DEF CropInv, TypeOK
<1>5. CASE t # u
  BY <1>1, <1>3, <1>4, <1>5, SameTile
<1>6. CASE t = u /\ ~Planted(u)
  <2>1. u \notin placed
    BY <1>1, <1>6 DEF BooksInv, RequestsKnow
  <2> QED BY <1>1, <1>6, <2>1 DEF TileBooks, NotBack, Planted
<1>7. CASE t = u /\ Planted(u)
  <2>1. /\ row[t] \in Row
        /\ row'[t] = [row[t] EXCEPT !.elapsed = elapsed, !.fertilized = TRUE]
    BY <1>1, <1>4, <1>7 DEF Planted
  <2>2. /\ row'[t].state = row[t].state /\ row'[t].stage = row[t].stage
        /\ row'[t].elapsed = elapsed /\ row'[t].quantity = row[t].quantity
        /\ row[t].stage \in Int /\ row[t].elapsed \in Int
    BY <2>1 DEF Row
  <2>3. elapsed = row[t].elapsed + FertilizerEffect
    <3>1. "elapsed" \in DOMAIN request[q].seen
      BY <1>1 DEF CropInv, TypeOK, Columns
    <3>2. row[t]["elapsed"] = request[q].seen["elapsed"]
      BY <1>3, <1>7, <3>1 DEF Outdated
    <3> QED BY <3>2 DEF elapsed
  <2>4. TileBooks(t)
    BY <1>3 DEF BooksInv
  <2>5. Planted(t)'
    BY <2>1 DEF Planted, Row, NoRow
  <2>6. boosted'[t] * FertilizerEffect = boosted[t] * FertilizerEffect + FertilizerEffect
    BY <1>3, <1>7, CropAssumption DEF CropInv, TypeOK
  <2>7. /\ given[t] \in Int /\ boosted[t] * FertilizerEffect \in Int
        /\ (row[t].stage - 1) * StageDuration \in Int /\ FertilizerEffect \in Int
    BY <2>2, CropAssumption DEF CropInv, TypeOK
  <2>8. (row'[t].stage - 1) * StageDuration + row'[t].elapsed
           = given'[t] + boosted'[t] * FertilizerEffect
    BY <1>3, <1>7, <2>2, <2>3, <2>4, <2>6, <2>7 DEF TileBooks
  <2> QED BY <1>3, <1>7, <2>2, <2>4, <2>5, <2>8 DEF TileBooks, NotBack
<1> QED BY <1>5, <1>6, <1>7

LEMMA ThiefBooks ==
    ASSUME CropInv, BooksInv, NEW q \in Requests, ThiefCrop(q),
           NEW t \in Tiles, t \notin clobbered'
    PROVE  TileBooks(t)' /\ NotBack(t)
<1> DEFINE u == request[q].tile
           seen == request[q].seen
<1>1. PICK computed \in 1 .. 3 :
        LET taken == Min2(computed, seen.quantity - MinHarvest) IN
        /\ row' = IF Planted(u)
                  THEN [row EXCEPT ![u].quantity = seen.quantity - taken] ELSE row
        /\ Account(Outdated(q), Nothing, Nothing, [v \in {u} |-> taken])
  BY DEF ThiefCrop
<1> DEFINE taken == Min2(computed, seen.quantity - MinHarvest)
           entry == [v \in {u} |-> taken]
<1>2. /\ row' = IF Planted(u)
                THEN [row EXCEPT ![u].quantity = seen.quantity - taken] ELSE row
      /\ request[q] # NoRequest /\ request[q].op = "thief" /\ placed' = placed
      /\ Account(Outdated(q), Nothing, Nothing, entry)
  BY <1>1 DEF ThiefCrop
<1>3. taken \in Int /\ seen.quantity \in Int
  BY <1>2, CropAssumption DEF CropInv, SeenTyped, Min2
<1>4. DOMAIN Nothing = {} /\ DOMAIN entry = {u} /\ entry[u] = taken
  BY DEF Nothing
<1> HIDE DEF entry, taken
<1>5. /\ clobbered \subseteq clobbered' /\ t \notin Outdated(q)
      /\ given'[t] = given[t] /\ boosted'[t] = boosted[t]
      /\ stolen'[t] = IF t = u THEN stolen[t] + taken ELSE stolen[t]
  BY <1>2, <1>4, AccountOf
<1>6. row \in [Tiles -> Row \cup {NoRow}]
  BY DEF CropInv, TypeOK
<1>7. CASE t # u
  BY <1>2, <1>5, <1>6, <1>7, SameTile
<1>8. CASE t = u /\ ~Planted(u)
  <2>1. u \notin placed
    BY <1>2, <1>8 DEF BooksInv, RequestsKnow
  <2> QED BY <1>2, <1>8, <2>1 DEF TileBooks, NotBack, Planted
<1>9. CASE t = u /\ Planted(u)
  <2>1. /\ row[t] \in Row /\ row'[t] = [row[t] EXCEPT !.quantity = seen.quantity - taken]
    BY <1>2, <1>6, <1>9 DEF Planted
  <2>2. /\ row'[t].state = row[t].state /\ row'[t].stage = row[t].stage
        /\ row'[t].elapsed = row[t].elapsed /\ row'[t].quantity = seen.quantity - taken
        /\ row[t].stage \in Int
    BY <2>1 DEF Row
  <2>3. seen.quantity = row[t].quantity /\ row[t].state = "fullyMatured"
    <3>1. "state" \in DOMAIN seen /\ "quantity" \in DOMAIN seen
      BY <1>2 DEF CropInv, TypeOK, Columns
    <3>2. row[t]["state"] = seen["state"] /\ row[t]["quantity"] = seen["quantity"]
      BY <1>5, <1>9, <3>1 DEF Outdated
    <3> QED BY <1>2, <3>2 DEF BooksInv, RequestsKnow
  <2>4. TileBooks(t)
    BY <1>5 DEF BooksInv
  <2>5. Planted(t)'
    BY <2>1 DEF Planted, Row, NoRow
  <2>6. row'[t].quantity + stolen'[t] = row[t].quantity + stolen[t]
    BY <1>3, <1>5, <1>9, <2>2, <2>3 DEF CropInv, TypeOK
  <2> QED BY <1>5, <1>9, <2>2, <2>3, <2>4, <2>5, <2>6 DEF TileBooks, NotBack
<1> QED BY <1>7, <1>8, <1>9

(* What remains of a request knows what it knew while tiles that have a    *)
(* row keep one as long as they are placed.                                *)
LEMMA KnowKept ==
    ASSUME CropInv, BooksInv, placed' \subseteq placed,
           \A t \in placed' : Planted(t) => Planted(t)',
           \A q \in Requests : request'[q] = NoRequest \/ request'[q] = request[q]
    PROVE  RequestsKnow'
BY DEF CropInv, TypeOK, BooksInv, RequestsKnow

LEMMA ReadKnow ==
    ASSUME CropInv, BooksInv, NEW q \in Requests, NEW op \in DOMAIN Columns, NEW t \in Tiles,
           Read(q, op, t), op \in {"care", "fertilize", "thief"} => Planted(t),
           op = "care" => row[t].state \in {"needWater", "isWeedy", "isInfested"},
           op = "thief" => row[t].state = "fullyMatured"
    PROVE  RequestsKnow'
<1> DEFINE seen == [c \in Columns[op] |-> row[t][c]]
<1>1. /\ op = "care" => seen.state \in {"needWater", "isWeedy", "isInfested"}
      /\ op = "thief" => seen.state = "fullyMatured"
  BY DEF Columns
<1>2. request' = [request EXCEPT ![q] = [op |-> op, tile |-> t, seen |-> seen]]
  BY DEF Read
<1> HIDE DEF seen
<1>3. UNCHANGED <<placed, row>>
  BY DEF Read
<1> QED BY <1>1, <1>2, <1>3 DEF BooksInv, RequestsKnow, CropInv, TypeOK, Planted

(* A planted row begins with a whole harvest on a tile without an account. *)
LEMMA PlantBooks ==
    ASSUME CropInv, BooksInv, NEW q \in Requests, PlantSeed(q)
    PROVE  BooksStep /\ RequestsKnow'
<1> DEFINE u == request[q].tile
           r == [stage |-> 1, elapsed |-> 0, total |-> 0, state |-> "normal",
                 quantity |-> MaxHarvest, fertilized |-> FALSE, createdAt |-> clock]
<1>1. /\ u \in placed /\ ~Planted(u) /\ row' = [row EXCEPT ![u] = r]
      /\ request' = [request EXCEPT ![q] = NoRequest]
      /\ placed' = placed /\ clobbered' = clobbered /\ given' = given
      /\ boosted' = boosted /\ stolen' = stolen
  BY DEF PlantSeed, Planted, Done, history
<1>2. row \in [Tiles -> Row \cup {NoRow}] /\ u \in Tiles
  BY <1>1 DEF CropInv, TypeOK
<1>3. \A t \in Tiles : row'[t] = IF t = u THEN r ELSE row[t]
  BY <1>1, <1>2
<1>4. r.stage = 1 /\ r.elapsed = 0 /\ r.state = "normal" /\ r.quantity = MaxHarvest
  OBVIOUS
<1>5. r # NoRow
  BY DEF NoRow
<1> HIDE DEF r
<1>6. ASSUME NEW t \in Tiles, t \notin clobbered'
      PROVE  TileBooks(t)' /\ NotBack(t)
  <2>1. CASE t # u
    BY <1>1, <1>3, <1>6, <2>1, SameTile
  <2>2. CASE t = u
    <3>1. given[t] = 0 /\ boosted[t] = 0 /\ stolen[t] = 0
      BY <1>1, <1>6, <2>2 DEF BooksInv, TileBooks
    <3>2. row'[t] = r /\ Planted(t)'
      BY <1>3, <1>5, <2>2 DEF Planted
    <3>3. (1 - 1) * StageDuration + 0 = 0 + 0 * FertilizerEffect
      BY CropAssumption
    <3>4. (row'[t].stage - 1) * StageDuration + row'[t].elapsed
             = given'[t] + boosted'[t] * FertilizerEffect
      BY <1>1, <1>4, <3>1, <3>2, <3>3
    <3> QED BY <1>1, <1>4, <2>2, <3>1, <3>2, <3>4 DEF TileBooks, NotBack
  <2> QED BY <2>1, <2>2
<1>7. \A t \in Tiles : Planted(t) => Planted(t)'
  BY <1>3, <1>5 DEF Planted
<1>8. RequestsKnow'
  <2>1. \A p \in Requests : request'[p] = NoRequest \/ request'[p] = request[p]
    BY <1>1 DEF CropInv, TypeOK
  <2>2. placed' \subseteq placed /\ placed' \subseteq Tiles
    BY <1>1 DEF CropInv, TypeOK
  <2> QED BY <1>7, <2>1, <2>2, KnowKept
<1> QED BY <1>6, <1>8 DEF BooksStep

(* A recovered tile loses its row and is never planted again.              *)
LEMMA RecoverBooks ==
    ASSUME CropInv, BooksInv, NEW q \in Requests, RecoverTile(q)
    PROVE  BooksStep /\ RequestsKnow'
<1> DEFINE u == request[q].tile
<1>1. /\ row' = [row EXCEPT ![u] = NoRow] /\ placed' = placed \ {u}
      /\ request' = [request EXCEPT ![q] = NoRequest]
      /\ clobbered' = clobbered /\ given' = given
      /\ boosted' = boosted /\ stolen' = stolen
  BY DEF RecoverTile, Done, history
<1>2. row \in [Tiles -> Row \cup {NoRow}]
  BY DEF CropInv, TypeOK
<1>3. \A t \in Tiles : row'[t] = IF t = u THEN NoRow ELSE row[t]
  BY <1>1, <1>2
<1>4. ASSUME NEW t \in Tiles, t \notin clobbered'
      PROVE  TileBooks(t)' /\ NotBack(t)
  <2>1. CASE t # u
    BY <1>1, <1>3, <1>4, <2>1, SameTile
  <2>2. CASE t = u
    BY <1>1, <1>3, <2>2 DEF TileBooks, NotBack, Planted
  <2> QED BY <2>1, <2>2
<1>5. RequestsKnow'
  <2>1. \A p \in Requests : request'[p] = NoRequest \/ request'[p] = request[p]
    BY <1>1 DEF CropInv, TypeOK
  <2>2. \A t \in placed' : Planted(t) => Planted(t)'
    BY <1>1, <1>3 DEF Planted, CropInv, TypeOK
  <2> QED BY <1>1, <2>1, <2>2, KnowKept
<1> QED BY <1>4, <1>5 DEF BooksStep

(* A commit that changes a row leaves every planted tile planted.          *)
LEMMA CommitKnow ==
    ASSUME CropInv, BooksInv, NEW q \in Requests, Care(q) \/ UseFertilizer(q) \/ ThiefCrop(q)
    PROVE  RequestsKnow'
<1>1. row \in [Tiles -> Row \cup {NoRow}]
  BY DEF CropInv, TypeOK
<1>2. placed' = placed /\ request' = [request EXCEPT ![q] = NoRequest]
  BY DEF Care, UseFertilizer, ThiefCrop, Done
<1>3. ASSUME NEW t \in Tiles, Planted(t) PROVE Planted(t)'
  <2>1. row[t] \in Row
    BY <1>1, <1>3 DEF Planted
  <2>2. DOMAIN row'[t] = DOMAIN row[t]
    <3>1. CASE Care(q)
      BY <1>1, <2>1, <3>1 DEF Care
    <3>2. CASE UseFertilizer(q)
      BY <1>1, <2>1, <3>2 DEF UseFertilizer
    <3>3. CASE ThiefCrop(q)
      BY <1>1, <2>1, <3>3 DEF ThiefCrop
    <3> QED BY <3>1, <3>2, <3>3
  <2>3. DOMAIN row[t] # DOMAIN NoRow
    BY <2>1 DEF Row, NoRow
  <2> QED BY <2>2, <2>3 DEF Planted
<1>4. \A p \in Requests : request'[p] = NoRequest \/ request'[p] = request[p]
  BY <1>2 DEF CropInv, TypeOK
<1>5. placed' \subseteq placed /\ placed' \subseteq Tiles
  BY <1>2 DEF CropInv, TypeOK
<1> QED BY <1>3, <1>4, <1>5, KnowKept

LEMMA BooksInit == Init => BooksInv
BY DEF Init, BooksInv, RequestsKnow, TileBooks, Planted

LEMMA BooksNext == CropInv /\ BooksInv /\ [Next]_vars => BooksInv' /\ BooksStep
<1> SUFFICES ASSUME CropInv, BooksInv, [Next]_vars PROVE BooksStep /\ RequestsKnow'
  BY DEF BooksInv, BooksStep
<1>1. ASSUME UNCHANGED <<placed, row, history>> PROVE BooksStep
  <2>1. \A t \in Tiles \ clobbered' : TileBooks(t)' /\ NotBack(t)
    BY <1>1, SameTile DEF history
  <2> QED BY <2>1 DEF BooksStep
<1>2. ASSUME UNCHANGED <<placed, row>>,
             \A q \in Requests : request'[q] = NoRequest \/ request'[q] = request[q]
      PROVE  RequestsKnow'
  BY <1>2, KnowKept DEF Planted
<1>3. ASSUME NEW q \in Requests, RequestStep(q) PROVE BooksStep /\ RequestsKnow'
  <2>1. ASSUME NEW op \in DOMAIN Columns, NEW t \in Tiles, Read(q, op, t),
               op \in {"care", "fertilize", "thief"} => Planted(t),
               op = "care" => row[t].state \in {"needWater", "isWeedy", "isInfested"},
               op = "thief" => row[t].state = "fullyMatured"
        PROVE  BooksStep /\ RequestsKnow'
    BY <1>1, <2>1, ReadKnow DEF Read
  <2>2. CASE \E t \in Tiles : ReadPlantSeed(q, t) \/ ReadRecoverTile(q, t)
    BY <2>1, <2>2 DEF ReadPlantSeed, ReadRecoverTile, Columns
  <2>3. CASE \E t \in Tiles : ReadFertilizer(q, t) \/ ReadThief(q, t)
    BY <2>1, <2>3 DEF ReadFertilizer, ReadThief, Columns, Planted
  <2>4. CASE \E t \in Tiles, state \in {"needWater", "isWeedy", "isInfested"} :
                ReadCare(q, t, state)
    BY <2>1, <2>4 DEF ReadCare, Columns, Planted
  <2>5. CASE Care(q) \/ UseFertilizer(q) \/ ThiefCrop(q)
    BY <2>5, CommitKnow, CareBooks, FertilizerBooks, ThiefBooks DEF BooksStep
  <2>6. CASE PlantSeed(q) \/ RecoverTile(q)
    BY <2>6, PlantBooks, RecoverBooks
  <2>7. CASE AbortRequest(q)
    <3>1. \A p \in Requests : request'[p] = NoRequest \/ request'[p] = request[p]
      BY <2>7 DEF AbortRequest, Done, CropInv, TypeOK
    <3> QED BY <1>1, <1>2, <2>7, <3>1 DEF AbortRequest
  <2> QED BY <1>3, <2>2, <2>3, <2>4, <2>5, <2>6, <2>7
          DEF RequestStep, ReadWater, ReadUseHerbicide, ReadUsePesticide, ReadHelpWater,
              ReadHelpUseHerbicide, ReadHelpUsePesticide
<1>4. ASSUME NEW w \in Workers, WorkerStep(w) PROVE BooksStep /\ RequestsKnow'
  BY <1>1, <1>2, <1>4, SaveBooks DEF WorkerStep, FailJob
<1>5. CASE \/ \E w \in Workers, job \in Jobs : ReadPage(w, job)
           \/ Second
           \/ UNCHANGED vars
  BY <1>1, <1>2, <1>5 DEF ReadPage, Second, vars
<1> QED BY <1>3, <1>4, <1>5 DEF Next

LEMMA BooksInvariant == Spec => [](CropInv /\ BooksInv)
BY CropInit, CropStep, BooksInit, BooksNext, PTL DEF Spec

(* Short of an outdated write, thefts and half harvests never make a       *)
(* mature crop hold, with what was taken of it, more or less than one      *)
(* harvest.                                                                *)
THEOREM HarvestKept == Spec => []HarvestConserved
<1>1. BooksInv => HarvestConserved
  BY DEF BooksInv, TileBooks, HarvestConserved
<1> QED BY BooksInvariant, <1>1, PTL

(* Short of an outdated write, the stages of a crop account for every      *)
(* second of a saved job and every fertilizer, whatever overlaps.          *)
THEOREM StageClockKept == Spec => []StageClock
<1>1. BooksInv => StageClock
  BY DEF BooksInv, TileBooks, StageClock
<1> QED BY BooksInvariant, <1>1, PTL

(* Only an outdated write can take a crop back a stage, make a mature crop *)
(* immature, or undo a cure before the next stage.                         *)
THEOREM NeverBack == Spec => NeverFallsBack
<1>1. CropInv /\ BooksInv /\ [Next]_vars =>
        [\A t \in Tiles \ clobbered' :
            Planted(t) /\ Planted(t)' =>
              /\ row'[t].stage >= row[t].stage
              /\ row[t].state = "fullyMatured" => row'[t].state = "fullyMatured"
              /\ row[t].state = "normal"
                   /\ row'[t].state \in {"needWater", "isWeedy", "isInfested"}
                 => row'[t].stage > row[t].stage]_vars
  BY BooksNext DEF BooksStep, NotBack
<1> QED BY BooksInvariant, <1>1, PTL DEF Spec, NeverFallsBack
=============================================================================
