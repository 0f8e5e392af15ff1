--------------------------- MODULE CropLifecycle ---------------------------
(***************************************************************************)
(* The seed_growth_info rows between planting and recovery of their tile:  *)
(* the cron-worker that makes them grow (cron-worker/src/crop) and the     *)
(* requests of the gameplay service that touch them (farming, community,   *)
(* placement/recover-tile).                                                *)
(*                                                                         *)
(* Both read rows first, outside any transaction, decide on what they      *)
(* read, and write absolute values in a transaction later: each is an      *)
(* action that reads and an action that commits, with the others free to   *)
(* commit in between.  The worker writes back every column of a row, a     *)
(* request only the columns it means to change.                            *)
(*                                                                         *)
(* A definition marked (slip: ...) is a mistake a change of the code could *)
(* make in the definition that follows; no action uses it.                 *)
(***************************************************************************)
EXTENDS Integers, FiniteSets, Sequences

CONSTANTS
    Tiles,            \* placed tiles, each good for one planting
    Workers,          \* crop worker processes, one job each at a time
    Requests,         \* gameplay requests in flight
    Jobs,             \* jobs a worker may be handed
    GrowthStages,     \* crop.growthStages
    StageDuration,    \* crop.growthStageDuration
    MinHarvest, MaxHarvest,
    FertilizerEffect, \* supply.fertilizerEffectTimeReduce
    MaxClock,         \* bound: the last second of the model
    MaxStage          \* bound: stages of time a row may be given in all

ASSUME CropAssumption ==
    /\ GrowthStages \in Nat /\ GrowthStages > 2
    /\ StageDuration \in Nat \ {0}
    /\ MinHarvest \in Nat /\ MaxHarvest \in Nat /\ MinHarvest <= MaxHarvest
    /\ FertilizerEffect \in Nat
    /\ MaxClock \in Nat /\ MaxStage \in Nat
    /\ Jobs \subseteq [skip : Nat, take : Nat, time : Int, utcTime : Nat]

VARIABLES
    clock,    \* the database's now(), in seconds
    placed,   \* tiles that are placed
    row,      \* the row of each tile, NoRow when there is none
    field,    \* tiles that were planted, in the order of createdAt
    held,     \* what each worker has read: rows by tile
    time,     \* the time of the job each worker is at
    request   \* what each request has read, NoRequest when idle

(***************************************************************************)
(* History of the run, read by the properties and by no guard.             *)
(***************************************************************************)
VARIABLES
    given,     \* time of the saved jobs that read the row of a tile
    boosted,   \* fertilizers spent on a tile
    stolen,    \* crops thieves have taken from a tile
    clobbered  \* tiles whose row was written from an outdated read

workers == <<held, time>>
history == <<given, boosted, stolen, clobbered>>
vars    == <<clock, placed, row, field, workers, request, history>>

States == {"normal", "needWater", "isWeedy", "isInfested", "fullyMatured"}

Row == [stage : 1 .. GrowthStages + 1, elapsed : Int, total : Int,
        state : States, quantity : Nat, fertilized : BOOLEAN, createdAt : Nat]
NoRow == [none |-> "row"]

(* Each request, by the columns it keeps from its read for its write.      *)
Columns ==
    [plant     |-> {},
     recover   |-> {},
     care      |-> {"state"},
     fertilize |-> {"elapsed", "fertilized"},
     thief     |-> {"state", "quantity"}]
NoRequest == [none |-> "request"]

Nothing == [t \in {} |-> NoRow]
Planted(t) == row[t] # NoRow
Min2(a, b) == IF a <= b THEN a ELSE b

----------------------------------------------------------------------------
(* What a job does to one row (the loop of CropWorker.process in closed    *)
(* form).  Several stages may pass in one job; each passed below the last  *)
(* two may leave the row thirsty, the last but one weedy or infested.      *)

NotAnInteger == -1     \* what the int4 column refuses

AverageHarvest ==
    IF (MinHarvest + MaxHarvest) % 2 = 0
    THEN (MinHarvest + MaxHarvest) \div 2
    ELSE NotAnInteger

(* (slip: the loop has no bound on the stage)                              *)
StagesUnbounded(r, elapsed) ==
    IF elapsed < 0 THEN 0 ELSE elapsed \div StageDuration

StagesPassed(r, elapsed) ==
    IF elapsed < 0 THEN 0
    ELSE Min2(elapsed \div StageDuration, GrowthStages + 1 - r.stage)

StatesAfter(r, stage) ==
    {r.state}
    \cup {s \in {"needWater"} : r.stage < stage /\ r.stage + 1 <= GrowthStages - 2}
    \cup {s \in {"isWeedy", "isInfested"} :
              r.stage < GrowthStages - 1 /\ GrowthStages - 1 <= stage}

(* (slip: one stage early)                                                 *)
RipeEarly(r) ==
    IF r.stage < GrowthStages - 1 THEN r
    ELSE [r EXCEPT !.state = "fullyMatured",
                   !.quantity = IF r.state \in {"isWeedy", "isInfested"}
                                THEN AverageHarvest ELSE r.quantity]

Ripe(r) ==
    IF r.stage # GrowthStages THEN r
    ELSE [r EXCEPT !.state = "fullyMatured",
                   !.quantity = IF r.state \in {"isWeedy", "isInfested"}
                                THEN AverageHarvest ELSE r.quantity]

(* (slip: passing a stage starts the next one at zero)                     *)
GrownFromZero(r, seconds) ==
    LET passed == StagesPassed(r, r.elapsed + seconds)
        stage  == r.stage + passed
    IN  {Ripe([r EXCEPT !.stage = stage,
                        !.elapsed = IF passed = 0 THEN r.elapsed + seconds ELSE 0,
                        !.total = r.total + seconds,
                        !.state = s,
                        !.fertilized = r.fertilized /\ passed = 0])
            : s \in StatesAfter(r, stage)}

Grown(r, seconds) ==
    LET passed == StagesPassed(r, r.elapsed + seconds)
        stage  == r.stage + passed
    IN  {Ripe([r EXCEPT !.stage = stage,
                        !.elapsed = r.elapsed + seconds - passed * StageDuration,
                        !.total = r.total + seconds,
                        !.state = s,
                        !.fertilized = r.fertilized /\ passed = 0])
            : s \in StatesAfter(r, stage)}

(* The rows a job reads, oldest first: the where clause keeps only         *)
(* Not(FullyMatured), and skip and take count within what it leaves.       *)
Earlier(t, u) == \E i, j \in DOMAIN field : i < j /\ field[i] = t /\ field[j] = u

Page(job) ==
    LET growing == {t \in Tiles : /\ Planted(t) /\ row[t].state # "fullyMatured"
                                  /\ row[t].createdAt <= job.utcTime}
        place(t) == Cardinality({u \in growing : Earlier(u, t)})
    IN  {t \in growing : place(t) \in job.skip .. job.skip + job.take - 1}

----------------------------------------------------------------------------
Init ==
    /\ clock = 0
    /\ placed = Tiles
    /\ row = [t \in Tiles |-> NoRow]
    /\ field = <<>>
    /\ held = [w \in Workers |-> Nothing]
    /\ time = [w \in Workers |-> 0]
    /\ request = [q \in Requests |-> NoRequest]
    /\ given = [t \in Tiles |-> 0]
    /\ boosted = [t \in Tiles |-> 0]
    /\ stolen = [t \in Tiles |-> 0]
    /\ clobbered = {}

(* The accounts of a tile are closed at the first outdated write.          *)
Account(outdated, seconds, fertilizers, crops) ==
    LET sum(account, entry) ==
            [t \in Tiles |->
                IF t \in clobbered \cup outdated THEN 0
                ELSE IF t \in DOMAIN entry THEN account[t] + entry[t] ELSE account[t]]
    IN  /\ clobbered' = clobbered \cup outdated
        /\ given' = sum(given, seconds)
        /\ boosted' = sum(boosted, fertilizers)
        /\ stolen' = sum(stolen, crops)

(* A worker takes a job and reads its page.                                *)
ReadPage(w, job) ==
    /\ held[w] = Nothing
    /\ \A t \in Page(job) : row[t].total + job.time <= MaxStage * StageDuration
    /\ held' = [held EXCEPT ![w] = [t \in Page(job) |-> row[t]]]
    /\ time' = [time EXCEPT ![w] = job.time]
    /\ UNCHANGED <<clock, placed, row, field, request, history>>

(* The rows are written back whole.  The transaction cannot commit when a  *)
(* tile is gone (the row would be inserted again without its placed item)  *)
(* or when a quantity is not an integer.                                   *)
SaveRows(w) ==
    \E new \in [DOMAIN held[w] -> UNION {Grown(held[w][t], time[w]) : t \in DOMAIN held[w]}] :
        /\ held[w] # Nothing
        /\ \A t \in DOMAIN held[w] :
            /\ new[t] \in Grown(held[w][t], time[w])
            /\ new[t].quantity # NotAnInteger
            /\ Planted(t)
        /\ row' = [t \in Tiles |-> IF t \in DOMAIN held[w] THEN new[t] ELSE row[t]]
        /\ held' = [held EXCEPT ![w] = Nothing]
        /\ time' = [time EXCEPT ![w] = 0]
        /\ Account({t \in DOMAIN held[w] : held[w][t] # row[t]},
                   [t \in DOMAIN held[w] |-> time[w]], Nothing, Nothing)
        /\ UNCHANGED <<clock, placed, field, request>>

(* The transaction is rolled back and the job fails, or the process dies;  *)
(* a job has one attempt.                                                  *)
FailJob(w) ==
    /\ held[w] # Nothing
    /\ held' = [held EXCEPT ![w] = Nothing]
    /\ time' = [time EXCEPT ![w] = 0]
    /\ UNCHANGED <<clock, placed, row, field, request, history>>

----------------------------------------------------------------------------
(* Requests: the reads and the guards on them.                             *)
Read(q, op, t) ==
    /\ request[q] = NoRequest
    /\ t \in placed
    /\ request' = [request EXCEPT ![q] =
                       [op |-> op, tile |-> t,
                        seen |-> [c \in Columns[op] |-> row[t][c]]]]
    /\ UNCHANGED <<clock, placed, row, field, workers, history>>

(* findOne loads no relation, so "Tile is already planted" is never raised.*)
ReadPlantSeed(q, t) == Read(q, "plant", t)

(* (slip: the state of the crop is not asked for)                          *)
ReadCareAnyState(q, t, state) ==
    /\ row[t] # NoRow
    /\ Read(q, "care", t)

(* Each of the caring requests asks for the one state it cures, the help   *)
(* requests for that of a neighbour's tile.                                *)
ReadCare(q, t, state) ==
    /\ row[t] # NoRow /\ row[t].state = state
    /\ Read(q, "care", t)

ReadWater(q, t)            == ReadCare(q, t, "needWater")
ReadUseHerbicide(q, t)     == ReadCare(q, t, "isWeedy")
ReadUsePesticide(q, t)     == ReadCare(q, t, "isInfested")
ReadHelpWater(q, t)        == ReadCare(q, t, "needWater")
ReadHelpUseHerbicide(q, t) == ReadCare(q, t, "isWeedy")
ReadHelpUsePesticide(q, t) == ReadCare(q, t, "isInfested")

(* useFertilizer asks for nothing but that the stage is not fertilized.    *)
ReadFertilizer(q, t) ==
    /\ row[t] # NoRow /\ ~row[t].fertilized
    /\ Read(q, "fertilize", t)

ReadThief(q, t) ==
    /\ row[t] # NoRow /\ row[t].state = "fullyMatured"
    /\ row[t].quantity # MinHarvest
    /\ Read(q, "thief", t)

ReadRecoverTile(q, t) == Read(q, "recover", t)

(* Requests: the transactions.                                             *)
Done(q) == request' = [request EXCEPT ![q] = NoRequest]
Outdated(q) ==
    LET seen == request[q].seen IN
    {t \in {request[q].tile} :
        Planted(t) /\ \E c \in DOMAIN seen : row[t][c] # seen[c]}

(* A second row for the tile breaks the unique placed_item_id, a row for a *)
(* tile that is gone its foreign key: both roll back (AbortRequest).       *)
PlantSeed(q) ==
    LET t == request[q].tile IN
    /\ request[q] # NoRequest /\ request[q].op = "plant"
    /\ t \in placed /\ row[t] = NoRow
    /\ row' = [row EXCEPT ![t] =
                   [stage |-> 1, elapsed |-> 0, total |-> 0, state |-> "normal",
                    quantity |-> MaxHarvest, fertilized |-> FALSE,
                    createdAt |-> clock]]
    /\ field' = Append(field, t)
    /\ Done(q)
    /\ UNCHANGED <<clock, placed, workers, history>>

Care(q) ==
    LET t == request[q].tile IN
    /\ request[q] # NoRequest /\ request[q].op = "care"
    /\ row' = IF Planted(t) THEN [row EXCEPT ![t].state = "normal"] ELSE row
    /\ Account(Outdated(q), Nothing, Nothing, Nothing)
    /\ Done(q)
    /\ UNCHANGED <<clock, placed, field, workers>>

UseFertilizer(q) ==
    LET t == request[q].tile IN
    /\ request[q] # NoRequest /\ request[q].op = "fertilize"
    /\ row' = IF Planted(t)
              THEN [row EXCEPT ![t].elapsed = request[q].seen.elapsed + FertilizerEffect,
                               ![t].fertilized = TRUE]
              ELSE row
    /\ Account(Outdated(q), Nothing, [u \in {t} |-> 1], Nothing)
    /\ Done(q)
    /\ UNCHANGED <<clock, placed, field, workers>>

(* (slip: no floor)                                                        *)
ThiefCropNoFloor(q) ==
    LET t    == request[q].tile
        seen == request[q].seen
    IN  /\ request[q] # NoRequest /\ request[q].op = "thief"
        /\ \E computed \in 1 .. 3 :
            /\ row' = IF Planted(t)
                      THEN [row EXCEPT ![t].quantity = seen.quantity - computed]
                      ELSE row
            /\ Account(Outdated(q), Nothing, Nothing, [u \in {t} |-> computed])
        /\ Done(q)
        /\ UNCHANGED <<clock, placed, field, workers>>

(* (slip: the thief's inventory gets the computed quantity)                *)
ThiefCropOverpaid(q) ==
    LET t    == request[q].tile
        seen == request[q].seen
    IN  /\ request[q] # NoRequest /\ request[q].op = "thief"
        /\ \E computed \in 1 .. 3 :
            LET taken == Min2(computed, seen.quantity - MinHarvest) IN
            /\ row' = IF Planted(t)
                      THEN [row EXCEPT ![t].quantity = seen.quantity - taken]
                      ELSE row
            /\ Account(Outdated(q), Nothing, Nothing, [u \in {t} |-> computed])
        /\ Done(q)
        /\ UNCHANGED <<clock, placed, field, workers>>

(* ThiefService.compute gives 1, 2 or 3; the floor is the minimal harvest. *)
ThiefCrop(q) ==
    LET t    == request[q].tile
        seen == request[q].seen
    IN  /\ request[q] # NoRequest /\ request[q].op = "thief"
        /\ \E computed \in 1 .. 3 :
            LET taken == Min2(computed, seen.quantity - MinHarvest) IN
            /\ row' = IF Planted(t)
                      THEN [row EXCEPT ![t].quantity = seen.quantity - taken]
                      ELSE row
            /\ Account(Outdated(q), Nothing, Nothing, [u \in {t} |-> taken])
        /\ Done(q)
        /\ UNCHANGED <<clock, placed, field, workers>>

(* Deleting the placed item deletes its row (cascade).                     *)
RecoverTile(q) ==
    LET t == request[q].tile IN
    /\ request[q] # NoRequest /\ request[q].op = "recover"
    /\ placed' = placed \ {t}
    /\ row' = [row EXCEPT ![t] = NoRow]
    /\ Done(q)
    /\ UNCHANGED <<clock, field, workers, history>>

(* A later guard, an exception or the database refuses the request.        *)
AbortRequest(q) ==
    /\ request[q] # NoRequest
    /\ Done(q)
    /\ UNCHANGED <<clock, placed, row, field, workers, history>>

Second ==
    /\ clock < MaxClock
    /\ clock' = clock + 1
    /\ UNCHANGED <<placed, row, field, workers, request, history>>

----------------------------------------------------------------------------
WorkerStep(w) == SaveRows(w) \/ FailJob(w)

RequestStep(q) ==
    \/ \E t \in Tiles :
        \/ ReadPlantSeed(q, t)
        \/ ReadWater(q, t)
        \/ ReadUseHerbicide(q, t)
        \/ ReadUsePesticide(q, t)
        \/ ReadHelpWater(q, t)
        \/ ReadHelpUseHerbicide(q, t)
        \/ ReadHelpUsePesticide(q, t)
        \/ ReadFertilizer(q, t)
        \/ ReadThief(q, t)
        \/ ReadRecoverTile(q, t)
    \/ PlantSeed(q)
    \/ Care(q)
    \/ UseFertilizer(q)
    \/ ThiefCrop(q)
    \/ RecoverTile(q)
    \/ AbortRequest(q)

Next ==
    \/ \E w \in Workers, job \in Jobs : ReadPage(w, job)
    \/ \E w \in Workers : WorkerStep(w)
    \/ \E q \in Requests : RequestStep(q)
    \/ Second

Spec == Init /\ [][Next]_vars

----------------------------------------------------------------------------
(* Each variable holds a value the code can give it.                       *)
TypeOK ==
    /\ clock \in 0 .. MaxClock
    /\ placed \subseteq Tiles
    /\ row \in [Tiles -> Row \cup {NoRow}]
    /\ field \in Seq(Tiles)
    /\ DOMAIN held = Workers
    /\ \A w \in Workers : /\ DOMAIN held[w] \subseteq Tiles
                          /\ held[w] \in [DOMAIN held[w] -> Row]
    /\ time \in [Workers -> Int]
    /\ DOMAIN request = Requests
    /\ \A q \in Requests : request[q] # NoRequest =>
        /\ request[q].op \in DOMAIN Columns /\ request[q].tile \in Tiles
        /\ DOMAIN request[q].seen = Columns[request[q].op]
    /\ given \in [Tiles -> Int]
    /\ boosted \in [Tiles -> Nat]
    /\ stolen \in [Tiles -> Nat]
    /\ clobbered \subseteq Tiles

(* Whatever requests and workers overlap, a row never falls below the      *)
(* minimal harvest its owner is promised.                                  *)
QuantityFloor ==
    \A t \in Tiles : Planted(t) => row[t].quantity >= MinHarvest

(* A row is mature only in the last stage, outdated writes included: they  *)
(* bring back whole rows or a normal state, never a mature state alone.    *)
MatureOnlyAtLastStage ==
    \A t \in Tiles : Planted(t) /\ row[t].state = "fullyMatured"
                     => row[t].stage = GrowthStages

(* Unless its row was written from an outdated read, what a mature crop    *)
(* still holds and what thieves took from it make one harvest.             *)
HarvestConserved ==
    \A t \in Tiles \ clobbered :
        Planted(t) /\ row[t].state = "fullyMatured"
        => row[t].quantity + stolen[t] \in {MaxHarvest, AverageHarvest}

(* Unless its row was written from an outdated read, the stages a crop has *)
(* passed account for all the time and fertilizer it was given: no job and *)
(* no fertilizer counts twice or gets lost in passing a stage.             *)
StageClock ==
    \A t \in Tiles \ clobbered :
        Planted(t) => (row[t].stage - 1) * StageDuration + row[t].elapsed
                      = given[t] + boosted[t] * FertilizerEffect

(* Unless its row was written from an outdated read, a crop never falls    *)
(* back: its stage stays or rises, a mature crop stays mature, and one     *)
(* that was cured is thirsty, weedy or infested again only stages later.   *)
NeverFallsBack ==
    [][\A t \in Tiles \ clobbered' :
          Planted(t) /\ Planted(t)' =>
              /\ row'[t].stage >= row[t].stage
              /\ row[t].state = "fullyMatured" => row'[t].state = "fullyMatured"
              /\ row[t].state = "normal"
                   /\ row'[t].state \in {"needWater", "isWeedy", "isInfested"}
                 => row'[t].stage > row[t].stage]_vars
=============================================================================
