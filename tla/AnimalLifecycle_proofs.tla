----------------------- MODULE AnimalLifecycle_proofs -----------------------
(***************************************************************************)
(* The tick of the animals implements that of GrowthScheduler, for every   *)
(* number of animals, workers and requests: what workers and requests do   *)
(* to the rows is to its eyes a change of how many of them match the count *)
(* query.  No overlap of workers and thieves takes an owner's minimal      *)
(* harvest, and without one no product is lost or made up.  And the books  *)
(* of time: every second the scheduler takes reaches each animal it is due *)
(* to, and none reaches it twice.                                          *)
(***************************************************************************)
EXTENDS AnimalLifecycle, FiniteSetTheorems, FunctionTheorems, SequenceTheorems, TLAPS

GrowingRows == Cardinality({a \in Animals : Growing(a)})

(* The count query never finds more rows than there are animals.           *)
LEMMA RowsInRange == GrowingRows' \in 0 .. Cardinality(Animals)
<1>1. IsFiniteSet(Animals)
  BY AnimalAssumption
<1>2. {a \in Animals : Growing(a)'} \subseteq Animals
  OBVIOUS
<1>3. /\ Cardinality({a \in Animals : Growing(a)'}) \in Nat
      /\ Cardinality(Animals) \in Nat
      /\ Cardinality({a \in Animals : Growing(a)'}) <= Cardinality(Animals)
  BY <1>1, <1>2, FS_Subset, FS_CardinalityType
<1> QED BY <1>3 DEF GrowingRows

(* A step that leaves the scheduler's own variables alone changes at most  *)
(* the number of rows.                                                     *)
LEMMA RowsChange ==
    ASSUME UNCHANGED scheduler
    PROVE  Scheduler!Next
<1>1. Scheduler!ChangeRows(GrowingRows')
  BY DEF scheduler, GrowingRows, Scheduler!ChangeRows, Scheduler!locals, Scheduler!history
<1> QED BY <1>1, RowsInRange DEF Scheduler!Next

(* Every step of the animals is one of the scheduler.                      *)
LEMMA StepImplemented == [Next]_vars => [Scheduler!Next]_(Scheduler!vars)
<1> SUFFICES ASSUME [Next]_vars
             PROVE  [Scheduler!Next]_(Scheduler!vars)
  OBVIOUS
<1>1. CASE AnimalServiceStep
  BY <1>1 DEF AnimalServiceStep, Scheduler!Next
<1>2. ASSUME NEW w \in Workers, TakeJob(w)
      PROVE  Scheduler!Next
  BY <1>2 DEF TakeJob, Scheduler!Next
<1>3. ASSUME NEW w \in Workers,
             \/ ReadAnimals(w) \/ SaveAnimals(w) \/ CompleteJob(w)
             \/ FailJob(w) \/ CrashWorker(w)
      PROVE  Scheduler!Next
  <2>1. UNCHANGED scheduler
    BY <1>3 DEF ReadAnimals, SaveAnimals, CompleteJob, FailJob, CrashWorker
  <2> QED BY <2>1, RowsChange
<1>4. ASSUME NEW a \in Animals, BuyAnimal(a)
      PROVE  Scheduler!Next
  BY <1>4, RowsChange DEF BuyAnimal
<1>5. ASSUME NEW q \in Requests, RequestStep(q)
      PROVE  Scheduler!Next
  <2>1. UNCHANGED scheduler
    BY <1>5 DEF RequestStep, ReadFeedAnimal, ReadCureAnimal, ReadHelpCureAnimal,
                ReadThiefAnimalProduct, Read, FeedAnimal, CureAnimal,
                ThiefAnimalProduct, AbortRequest, Done
  <2> QED BY <2>1, RowsChange
<1>6. CASE UNCHANGED vars
  BY <1>6, RowsChange DEF vars
<1> QED BY <1>1, <1>2, <1>3, <1>4, <1>5, <1>6 DEF Next

(* Scheduler, queue, workers and requests of the animals together are the  *)
(* scheduler of GrowthScheduler over the animals that do not yield: the    *)
(* invariants proved of its Spec hold of the tick of the animals.          *)
THEOREM AnimalTickRefinesGrowth == Spec => SchedulerImplemented
<1>1. Init => Scheduler!Init
  BY DEF Init
<1> QED BY <1>1, StepImplemented, PTL DEF Spec, SchedulerImplemented, Scheduler!Spec

----------------------------------------------------------------------------
(* The harvest of the owner.  A worker writes rows it read before they     *)
(* yielded, and a thief the quantity it saw: so the floor must hold of     *)
(* what they carry.                                                        *)
Fields == {"isAdult", "growth", "hunger", "yield", "state", "quantity",
           "alreadySick", "createdAt"}
Shaped(r) == r = [f \in Fields |-> r[f]]
Spared(quantity) == quantity \in Int /\ quantity >= MinHarvest
Kept(r) == Shaped(r) /\ (r.state = "yield" => Spared(r.quantity))

RowsKept == \A a \in Animals : Bought(a) => Kept(row[a])

HeldKept ==
    \A w \in Workers : work[w] # Idle =>
        /\ work[w] = [f \in {"job", "stage", "held", "again"} |-> work[w][f]]
        /\ work[w].stage = "read" =>
              \A a \in DOMAIN work[w].held :
                  Kept(work[w].held[a]) /\ work[w].held[a].state # "yield"

SeenKept ==
    \A q \in Requests : request[q] # NoRequest =>
        /\ request[q].animal \in Animals
        /\ Kept(row[request[q].animal])
        /\ request[q].op = "thief" => Spared(request[q].seen.quantity)

FloorInv ==
    /\ row = [a \in Animals |-> row[a]]
    /\ work = [w \in Workers |-> work[w]]
    /\ request = [q \in Requests |-> request[q]]
    /\ RowsKept /\ HeldKept /\ SeenKept

(* A job brings a row to yield at no less than the minimal harvest.        *)
LEMMA GrownKept ==
    ASSUME NEW r, Shaped(r), r.state # "yield", NEW seconds, NEW new \in Grown(r, seconds)
    PROVE  Kept(new)
<1>1. /\ AverageHarvest \in Int /\ AverageHarvest >= MinHarvest
      /\ MaxHarvest \in Int /\ MaxHarvest >= MinHarvest
  BY AnimalAssumption DEF AverageHarvest
<1>2. Kept(Yielded(r))
  BY <1>1 DEF Shaped, Fields, Yielded, Kept, Spared
<1>3. \A older : older = [r EXCEPT !.yield = r.yield + seconds] =>
          Kept(older) /\ Kept([older EXCEPT !.state = "sick"])
  BY DEF Shaped, Fields, Kept
<1>4. Kept(Young(r, seconds)) /\ Kept(Matured(r))
  BY DEF Shaped, Fields, Young, Matured, Kept
<1> QED BY <1>2, <1>3, <1>4 DEF Grown, Adult

(* Writing kept rows keeps the rows, and what requests rest on.            *)
LEMMA RowsStayKept ==
    ASSUME FloorInv, row' = [a \in Animals |-> row'[a]],
           \A a \in Animals : row'[a] = row[a] \/ Kept(row'[a]),
           \A q \in Requests : request'[q] = NoRequest \/ request'[q] = request[q]
    PROVE  RowsKept' /\ SeenKept'
<1>1. RowsKept'
  BY DEF FloorInv, RowsKept, Bought
<1>2. SeenKept'
  BY DEF FloorInv, SeenKept
<1> QED BY <1>1, <1>2

(* A job that is handed out again starts from nothing.                     *)
LEMMA RetriedJob ==
    ASSUME NEW job, NEW stage, NEW held, NEW again, NEW taken, NEW nothing, NEW true,
           NEW retry,
           retry = [[job |-> job, stage |-> stage, held |-> held, again |-> again]
                       EXCEPT !.stage = taken, !.held = nothing, !.again = true]
    PROVE  retry = [job |-> job, stage |-> taken, held |-> nothing, again |-> true]
OBVIOUS

(* A worker keeps the floor, whatever it overwrites.                       *)
LEMMA WorkerKeeps ==
    ASSUME FloorInv, NEW w \in Workers,
           \/ TakeJob(w) \/ ReadAnimals(w) \/ SaveAnimals(w)
           \/ CompleteJob(w) \/ FailJob(w) \/ CrashWorker(w)
    PROVE  FloorInv'
<1>0. /\ request' = request
      /\ \A v \in Workers \ {w} : work'[v] = work[v]
      /\ work' = [v \in Workers |-> work'[v]]
  BY DEF FloorInv, TakeJob, ReadAnimals, SaveAnimals, CompleteJob, FailJob, CrashWorker
<1>1. CASE TakeJob(w)
  <2>1. row' = row /\ work'[w] = [job |-> Head(queue), stage |-> "taken",
                                  held |-> Nothing, again |-> FALSE]
    BY <1>1 DEF TakeJob, FloorInv
  <2>2. HeldKept'
    BY <1>0, <2>1 DEF FloorInv, HeldKept
  <2> QED BY <1>0, <2>1, <2>2, RowsStayKept DEF FloorInv
<1>2. CASE ReadAnimals(w)
  <2>1. /\ row' = row
        /\ work'[w] = [job |-> work[w].job, stage |-> "read",
                       held |-> [a \in Page(work[w].job) |-> row[a]],
                       again |-> work[w].again]
    <3> DEFINE read == [a \in Page(work[w].job) |-> row[a]]
    <3>1. /\ row' = row /\ work[w] # Idle
          /\ work' = [work EXCEPT ![w].stage = "read", ![w].held = read]
      BY <1>2 DEF ReadAnimals, At
    <3>2. work[w] = [f \in {"job", "stage", "held", "again"} |-> work[w][f]]
      BY <3>1 DEF FloorInv, HeldKept
    <3>3. work = [v \in Workers |-> work[v]]
      BY DEF FloorInv
    <3> HIDE DEF read
    <3>4. work'[w] = [job |-> work[w].job, stage |-> "read", held |-> read,
                      again |-> work[w].again]
      BY <3>1, <3>2, <3>3
    <3> QED BY <3>1, <3>4 DEF read
  <2>2. \A a \in Page(work[w].job) : Kept(row[a]) /\ row[a].state # "yield"
    BY DEF Page, Growing, FloorInv, RowsKept
  <2>3. HeldKept'
    BY <1>0, <2>1, <2>2 DEF FloorInv, HeldKept
  <2> QED BY <1>0, <2>1, <2>3, RowsStayKept DEF FloorInv
<1>3. CASE SaveAnimals(w)
  <2> DEFINE held == work[w].held
  <2>1. PICK new \in [DOMAIN held -> UNION {Grown(held[a], JobTime(work[w].job)) :
                                            a \in DOMAIN held}] :
          /\ \A a \in DOMAIN held : new[a] \in Grown(held[a], JobTime(work[w].job))
          /\ row' = [a \in Animals |-> IF a \in DOMAIN held THEN new[a] ELSE row[a]]
    BY <1>3 DEF SaveAnimals
  <2>2. \A a \in DOMAIN held : Shaped(held[a]) /\ held[a].state # "yield"
    BY <1>3 DEF SaveAnimals, At, FloorInv, HeldKept, Kept
  <2>3. \A a \in DOMAIN held : Kept(new[a])
    BY <2>1, <2>2, GrownKept
  <2>4. /\ row' = [a \in Animals |-> row'[a]]
        /\ \A a \in Animals : row'[a] = row[a] \/ Kept(row'[a])
    BY <2>1, <2>3
  <2>5. work'[w] = [job |-> work[w].job, stage |-> "saved", held |-> Nothing,
                    again |-> work[w].again]
    <3>1. work' = [work EXCEPT ![w].stage = "saved", ![w].held = Nothing]
      BY <1>3 DEF SaveAnimals
    <3>2. work[w] = [f \in {"job", "stage", "held", "again"} |-> work[w][f]]
      BY <1>3 DEF SaveAnimals, At, FloorInv, HeldKept
    <3>3. work = [v \in Workers |-> work[v]]
      BY DEF FloorInv
    <3> HIDE DEF held
    <3> QED BY <3>1, <3>2, <3>3
  <2>6. HeldKept'
    BY <1>0, <2>5 DEF FloorInv, HeldKept
  <2> QED BY <1>0, <2>4, <2>6, RowsStayKept DEF FloorInv
<1>4. CASE CompleteJob(w) \/ FailJob(w)
  <2>1. row' = row /\ work'[w] = Idle
    BY <1>4 DEF CompleteJob, FailJob, FloorInv
  <2>2. HeldKept'
    BY <1>0, <2>1 DEF FloorInv, HeldKept
  <2> QED BY <1>0, <2>1, <2>2, RowsStayKept DEF FloorInv
<1>5. CASE CrashWorker(w)
  <2>1. /\ row' = row
        /\ \/ work'[w] = Idle
           \/ work'[w] = [job |-> work[w].job, stage |-> "taken", held |-> Nothing,
                          again |-> TRUE]
    <3> DEFINE retry == [work[w] EXCEPT !.stage = "taken", !.held = Nothing, !.again = TRUE]
    <3>1. /\ row' = row /\ work[w] # Idle
          /\ work' = [work EXCEPT ![w] = IF work[w].again THEN Idle ELSE retry]
      BY <1>5 DEF CrashWorker
    <3>2. work[w] = [job |-> work[w].job, stage |-> work[w].stage, held |-> work[w].held,
                     again |-> work[w].again]
      BY <3>1 DEF FloorInv, HeldKept
    <3>3. work = [v \in Workers |-> work[v]]
      BY DEF FloorInv
    <3>4. retry = [job |-> work[w].job, stage |-> "taken", held |-> Nothing, again |-> TRUE]
      <4>1. retry = [[job |-> work[w].job, stage |-> work[w].stage,
                      held |-> work[w].held, again |-> work[w].again]
                        EXCEPT !.stage = "taken", !.held = Nothing, !.again = TRUE]
        BY <3>2, Zenon
      <4> HIDE DEF retry
      <4> QED BY <4>1, RetriedJob, Zenon
    <3> HIDE DEF retry
    <3>5. work'[w] = IF work[w].again THEN Idle ELSE retry
      BY <3>1, <3>3
    <3>6. work'[w] = Idle \/ work'[w] = retry
      BY <3>5
    <3> QED BY <3>1, <3>4, <3>6, Zenon
  <2>2. HeldKept'
    BY <1>0, <2>1 DEF FloorInv, HeldKept
  <2> QED BY <1>0, <2>1, <2>2, RowsStayKept DEF FloorInv
<1> QED BY <1>1, <1>2, <1>3, <1>4, <1>5

(* A request keeps the floor: a purchase is of a row that does not yield,  *)
(* a thief leaves the floor of what it saw, and the others write no yield. *)
LEMMA PurchaseKeeps ==
    ASSUME FloorInv, NEW a \in Animals, BuyAnimal(a)
    PROVE  FloorInv'
<1>1. /\ work' = work /\ request' = request
      /\ row' = [row EXCEPT ![a] = NewlyBought(clock + 1)]
  BY DEF BuyAnimal
<1>2. Kept(NewlyBought(clock + 1))
  BY DEF Kept, Shaped, Fields, NewlyBought
<1>3. HeldKept'
  BY <1>1 DEF FloorInv, HeldKept
<1>4. /\ row' = [b \in Animals |-> row'[b]]
      /\ \A b \in Animals : row'[b] = row[b] \/ Kept(row'[b])
  BY <1>1, <1>2 DEF FloorInv
<1> QED BY <1>1, <1>3, <1>4, RowsStayKept DEF FloorInv

LEMMA ReadKeeps ==
    ASSUME FloorInv, NEW q \in Requests, NEW op \in {"feed", "cure", "thief"},
           NEW a \in Animals, NEW state, Read(q, op, a, state),
           op = "thief" => state = "yield"
    PROVE  FloorInv'
<1>1. /\ work' = work /\ row' = row /\ Bought(a) /\ row[a].state = state
      /\ request' = [request EXCEPT ![q] =
                       [op |-> op, animal |-> a,
                        seen |-> [c \in Columns[op] |-> row[a][c]]]]
  BY DEF Read
<1>2. Kept(row[a])
  BY <1>1 DEF FloorInv, RowsKept
<1>3. op = "thief" => Spared([c \in Columns[op] |-> row[a][c]].quantity)
  BY <1>1, <1>2 DEF Kept, Columns
<1>4. RowsKept' /\ HeldKept'
  BY <1>1 DEF FloorInv, RowsKept, Bought, HeldKept
<1>5. SeenKept'
  BY <1>1, <1>2, <1>3 DEF FloorInv, SeenKept
<1> QED BY <1>1, <1>4, <1>5 DEF FloorInv

LEMMA WriteKeeps ==
    ASSUME FloorInv, NEW q \in Requests, request[q] # NoRequest,
           \/ FeedAnimal(q) \/ CureAnimal(q) \/ ThiefAnimalProduct(q) \/ AbortRequest(q)
    PROVE  FloorInv'
<1>1. work' = work /\ request' = [request EXCEPT ![q] = NoRequest]
  BY DEF FeedAnimal, CureAnimal, ThiefAnimalProduct, AbortRequest, Done
<1>2. /\ request[q].animal \in Animals /\ Kept(row[request[q].animal])
      /\ request[q].op = "thief" => Spared(request[q].seen.quantity)
  BY DEF FloorInv, SeenKept
<1>3. HeldKept'
  BY <1>1 DEF FloorInv, HeldKept
<1>4. /\ row' = [b \in Animals |-> row'[b]]
      /\ \A b \in Animals : row'[b] = row[b] \/ Kept(row'[b])
  <2> DEFINE a == request[q].animal
             seen == request[q].seen.quantity
  <2>1. CASE FeedAnimal(q)
    <3>1. row' = [row EXCEPT ![a].state = "normal", ![a].hunger = 0]
      BY <2>1 DEF FeedAnimal
    <3>2. Kept([row[a] EXCEPT !.state = "normal", !.hunger = 0])
      BY <1>2 DEF Kept, Shaped, Fields
    <3> HIDE DEF a
    <3> QED BY <3>1, <3>2 DEF FloorInv
  <2>2. CASE CureAnimal(q)
    <3>1. row' = [row EXCEPT ![a].state = "normal"]
      BY <2>2 DEF CureAnimal
    <3>2. Kept([row[a] EXCEPT !.state = "normal"])
      BY <1>2 DEF Kept, Shaped, Fields
    <3> HIDE DEF a
    <3> QED BY <3>1, <3>2 DEF FloorInv
  <2>3. CASE ThiefAnimalProduct(q)
    <3>1. PICK computed \in 1 .. 3 :
            row' = [row EXCEPT ![a].quantity = seen - Min2(computed, seen - MinHarvest)]
      BY <2>3 DEF ThiefAnimalProduct
    <3>2. Spared(seen)
      BY <1>2, <2>3 DEF ThiefAnimalProduct, Asks
    <3>3. Spared(seen - Min2(computed, seen - MinHarvest))
      BY <3>2, AnimalAssumption DEF Spared, Min2
    <3>4. Kept([row[a] EXCEPT !.quantity = seen - Min2(computed, seen - MinHarvest)])
      BY <1>2, <3>3 DEF Kept, Shaped, Fields
    <3> HIDE DEF a, seen
    <3> QED BY <3>1, <3>4 DEF FloorInv
  <2>4. CASE AbortRequest(q)
    BY <2>4 DEF AbortRequest, FloorInv
  <2> QED BY <2>1, <2>2, <2>3, <2>4
<1>5. request' = [p \in Requests |-> request'[p]]
      /\ \A p \in Requests : request'[p] = NoRequest \/ request'[p] = request[p]
  BY <1>1 DEF FloorInv
<1>6. RowsKept' /\ SeenKept'
  BY <1>4, <1>5, RowsStayKept
<1> QED BY <1>1, <1>3, <1>4, <1>5, <1>6 DEF FloorInv

LEMMA RequestKeeps ==
    ASSUME FloorInv, NEW q \in Requests, RequestStep(q)
    PROVE  FloorInv'
<1>1. ASSUME NEW a \in Animals, ReadFeedAnimal(q, a)
      PROVE  FloorInv'
  BY <1>1, ReadKeeps DEF ReadFeedAnimal
<1>2. ASSUME NEW a \in Animals, ReadCureAnimal(q, a) \/ ReadHelpCureAnimal(q, a)
      PROVE  FloorInv'
  BY <1>2, ReadKeeps DEF ReadCureAnimal, ReadHelpCureAnimal
<1>3. ASSUME NEW a \in Animals, ReadThiefAnimalProduct(q, a)
      PROVE  FloorInv'
  BY <1>3, ReadKeeps DEF ReadThiefAnimalProduct
<1>4. CASE FeedAnimal(q) \/ CureAnimal(q) \/ ThiefAnimalProduct(q) \/ AbortRequest(q)
  <2>1. request[q] # NoRequest
    BY <1>4 DEF FeedAnimal, CureAnimal, ThiefAnimalProduct, AbortRequest, Asks
  <2> QED BY <1>4, <2>1, WriteKeeps
<1> QED BY <1>1, <1>2, <1>3, <1>4 DEF RequestStep

LEMMA FloorInit == Init => FloorInv
<1> SUFFICES ASSUME Init
             PROVE  FloorInv
  OBVIOUS
<1>1. /\ row \in [Animals -> {NoRow, NewlyBought(0), GrownUp(0, "normal"),
                              GrownUp(YieldTime \div 2, "sick")}]
      /\ work = [w \in Workers |-> Idle]
      /\ request = [q \in Requests |-> NoRequest]
  BY DEF Init
<1>2. \A r \in {NewlyBought(0), GrownUp(0, "normal"), GrownUp(YieldTime \div 2, "sick")} :
        Kept(r)
  <2>1. Kept(NewlyBought(0))
    BY DEF NewlyBought, Kept, Shaped, Fields
  <2>2. ASSUME NEW seconds, NEW state, state # "yield"
        PROVE  Kept(GrownUp(seconds, state))
    <3>1. \A r : Shaped(r) => Kept([r EXCEPT !.isAdult = TRUE, !.growth = GrowthTime,
                                            !.yield = seconds, !.state = state])
      BY <2>2 DEF Kept, Shaped, Fields
    <3>2. Shaped(NewlyBought(0))
      BY <2>1 DEF Kept
    <3> QED BY <3>1, <3>2 DEF GrownUp
  <2> QED BY <2>1, <2>2
<1>3. RowsKept
  BY <1>1, <1>2 DEF RowsKept, Bought
<1>4. HeldKept /\ SeenKept
  BY <1>1 DEF HeldKept, SeenKept
<1> QED BY <1>1, <1>3, <1>4 DEF FloorInv

LEMMA FloorStep == FloorInv /\ [Next]_vars => FloorInv'
<1> SUFFICES ASSUME FloorInv, [Next]_vars
             PROVE  FloorInv'
  OBVIOUS
<1>1. CASE UNCHANGED animals
  BY <1>1 DEF animals, FloorInv, RowsKept, Bought, HeldKept, SeenKept
<1>2. CASE AnimalServiceStep \/ UNCHANGED vars
  BY <1>1, <1>2 DEF AnimalServiceStep, vars
<1>3. ASSUME NEW w \in Workers,
             \/ TakeJob(w) \/ ReadAnimals(w) \/ SaveAnimals(w)
             \/ CompleteJob(w) \/ FailJob(w) \/ CrashWorker(w)
      PROVE  FloorInv'
  BY <1>3, WorkerKeeps
<1>4. ASSUME NEW a \in Animals, BuyAnimal(a)
      PROVE  FloorInv'
  BY <1>4, PurchaseKeeps
<1>5. ASSUME NEW q \in Requests, RequestStep(q)
      PROVE  FloorInv'
  BY <1>5, RequestKeeps
<1> QED BY <1>2, <1>3, <1>4, <1>5 DEF Next

(* Whatever workers, owners and thieves do at the same time, an animal     *)
(* that yields holds at least the minimal harvest for its owner.           *)
THEOREM AnimalFloorKept == Spec => []QuantityFloor
<1>1. FloorInv => QuantityFloor
  BY DEF FloorInv, RowsKept, Kept, Spared, QuantityFloor
<1> QED BY <1>1, FloorInit, FloorStep, PTL DEF Spec
----------------------------------------------------------------------------
(* The books of the harvest.  Until an animal yields nothing is on its     *)
(* account; as it yields the quantity opens it, and every theft moves as   *)
(* much from the row to the thieves.                                       *)
Account(r, taken) ==
    IF r = NoRow THEN taken = 0
    ELSE IF r.state # "yield" THEN taken = 0 /\ r.alreadySick = FALSE
    ELSE r.quantity + taken = IF r.alreadySick THEN AverageHarvest ELSE MaxHarvest

HarvestInv ==
    /\ FloorInv
    /\ stolen \in [Animals -> Nat]
    /\ \A a \in Animals \ clobbered : Account(row[a], stolen[a])

(* A job that finds a row with nothing on its account leaves nothing on    *)
(* it, or the harvest of the row it brings to yield.                       *)
LEMMA GrownAccount ==
    ASSUME NEW r, Kept(r), r.state # "yield", Account(r, 0),
           NEW seconds, NEW new \in Grown(r, seconds)
    PROVE  Account(new, 0)
<1> DEFINE Unpaid(s) == Shaped(s) /\ s.state # "yield" /\ s.alreadySick = FALSE
<1>1. \A s : Shaped(s) => s # NoRow
  <2>1. \A s : Shaped(s) => DOMAIN s = Fields
    BY DEF Shaped
  <2>2. DOMAIN NoRow = {"none"}
    BY DEF NoRow
  <2>3. "state" \in Fields /\ "state" \notin {"none"}
    BY DEF Fields
  <2> QED BY <2>1, <2>2, <2>3
<1>2. Unpaid(r)
  BY <1>1 DEF Kept, Account
<1>3. \A s : Unpaid(s) => Account(s, 0)
  BY <1>1 DEF Account
<1>4. Account(Yielded(r), 0)
  <2>1. /\ Shaped(Yielded(r))
        /\ Yielded(r).state = "yield"
        /\ Yielded(r).quantity = IF r.state = "sick" THEN AverageHarvest ELSE MaxHarvest
        /\ Yielded(r).alreadySick = (r.alreadySick \/ r.state = "sick")
    BY <1>2 DEF Shaped, Fields, Yielded
  <2>2. AverageHarvest \in Int /\ MaxHarvest \in Int
    BY AnimalAssumption DEF AverageHarvest
  <2>3. r.alreadySick = FALSE
    BY <1>2
  <2>4. Yielded(r).quantity = IF Yielded(r).alreadySick THEN AverageHarvest ELSE MaxHarvest
    BY <2>1, <2>3
  <2>5. Yielded(r).quantity + 0 = Yielded(r).quantity
    BY <2>1, <2>2
  <2>6. Yielded(r) # NoRow
    BY <1>1, <2>1
  <2> QED BY <2>1, <2>4, <2>5, <2>6 DEF Account
<1>5. \A older : older = [r EXCEPT !.yield = r.yield + seconds] =>
          Unpaid(older) /\ Unpaid([older EXCEPT !.state = "sick"])
  BY <1>2 DEF Shaped, Fields
<1>6. Unpaid(Young(r, seconds)) /\ Unpaid(Matured(r))
  BY <1>2 DEF Shaped, Fields, Young, Matured
<1>. HIDE DEF Unpaid
<1> QED BY <1>3, <1>4, <1>5, <1>6 DEF Grown, Adult

(* The accounts stay true when every row is untouched, written from an     *)
(* outdated read, or given a true account.                                 *)
LEMMA AccountsStay ==
    ASSUME HarvestInv, FloorInv', stolen' \in [Animals -> Nat],
           clobbered \subseteq clobbered',
           \A a \in Animals \ clobbered' :
               \/ row'[a] = row[a] /\ stolen'[a] = stolen[a]
               \/ Account(row'[a], stolen'[a])
    PROVE  HarvestInv'
<1>1. ASSUME NEW a \in Animals \ clobbered'
      PROVE  Account(row'[a], stolen'[a])
  <2>1. Account(row[a], stolen[a])
    BY <1>1 DEF HarvestInv
  <2> QED BY <1>1, <2>1
<1> QED BY <1>1 DEF HarvestInv

(* A worker that saves what is still in the rows keeps their accounts.     *)
LEMMA SaveAccounts ==
    ASSUME HarvestInv, FloorInv', NEW w \in Workers, SaveAnimals(w)
    PROVE  HarvestInv'
<1> DEFINE held == work[w].held
           outdated == {a \in DOMAIN held : held[a] # row[a]}
<1>1. PICK new \in [DOMAIN held -> UNION {Grown(held[a], JobTime(work[w].job)) :
                                          a \in DOMAIN held}] :
        /\ \A a \in DOMAIN held : new[a] \in Grown(held[a], JobTime(work[w].job))
        /\ row' = [a \in Animals |-> IF a \in DOMAIN held THEN new[a] ELSE row[a]]
  BY DEF SaveAnimals
<1>2. stolen' = stolen /\ clobbered' = clobbered \cup outdated
  BY DEF SaveAnimals
<1>3. \A a \in DOMAIN held : Kept(held[a]) /\ held[a].state # "yield"
  BY DEF SaveAnimals, At, HarvestInv, FloorInv, HeldKept
<1>4. ASSUME NEW a \in Animals \ clobbered'
      PROVE  \/ row'[a] = row[a] /\ stolen'[a] = stolen[a]
             \/ Account(row'[a], stolen'[a])
  <2>1. CASE a \notin DOMAIN held
    BY <1>1, <1>2, <2>1
  <2>2. CASE a \in DOMAIN held
    <3>1. held[a] = row[a] /\ a \in Animals \ clobbered
      BY <1>2, <1>4, <2>2
    <3>2. Account(held[a], stolen[a])
      BY <3>1 DEF HarvestInv
    <3>3. stolen[a] = 0
      <4>1. held[a].state # "yield"
        BY <1>3, <2>2
      <4>. HIDE DEF held
      <4> QED BY <3>2, <4>1 DEF Account
    <3>4. row'[a] = new[a] /\ new[a] \in Grown(held[a], JobTime(work[w].job))
      BY <1>1, <2>2
    <3>5. Account(new[a], 0)
      BY <1>3, <2>2, <3>2, <3>3, <3>4, GrownAccount
    <3> QED BY <1>2, <3>3, <3>4, <3>5
  <2> QED BY <2>1, <2>2
<1>. HIDE DEF outdated
<1> QED BY <1>2, <1>4, AccountsStay DEF HarvestInv

(* A request that finds what it read keeps the account of its animal.      *)
LEMMA WriteAccounts ==
    ASSUME HarvestInv, FloorInv', NEW q \in Requests, request[q] # NoRequest,
           FeedAnimal(q) \/ CureAnimal(q) \/ ThiefAnimalProduct(q)
    PROVE  HarvestInv'
<1> DEFINE a == request[q].animal
           seen == request[q].seen.quantity
<1>1. a \in Animals /\ Kept(row[a])
  BY DEF HarvestInv, FloorInv, SeenKept
<1>2. row[a] # NoRow
  <2>1. DOMAIN row[a] = Fields /\ DOMAIN NoRow = {"none"}
    BY <1>1 DEF Kept, Shaped, NoRow
  <2>2. "state" \in Fields /\ "state" \notin {"none"}
    BY DEF Fields
  <2> QED BY <2>1, <2>2
<1>3. CASE FeedAnimal(q) \/ CureAnimal(q)
  <2>1. PICK outdated \in BOOLEAN :
          /\ clobbered' = IF outdated THEN clobbered \cup {a} ELSE clobbered
          /\ ~outdated => row[a].state # "yield"
    <3>1. CASE FeedAnimal(q)
      <4>1. NotedIf(row[a].state # "hungry" \/ row[a].hunger # request[q].seen.hunger, q)
        BY <3>1 DEF FeedAnimal
      <4> QED BY <4>1 DEF NotedIf
    <3>2. CASE CureAnimal(q)
      <4>1. NotedIf(row[a].state # "sick", q)
        BY <3>2 DEF CureAnimal
      <4> QED BY <4>1 DEF NotedIf
    <3> QED BY <1>3, <3>1, <3>2
  <2>2. stolen' = stolen
    BY <1>3 DEF FeedAnimal, CureAnimal
  <2>3. /\ \A b \in Animals \ {a} : row'[b] = row[b]
        /\ row'[a] = [f \in Fields |-> row'[a][f]]
        /\ row'[a].state = "normal" /\ row'[a].alreadySick = row[a].alreadySick
    <3>1. row = [b \in Animals |-> row[b]]
      BY DEF HarvestInv, FloorInv
    <3>2. \/ row' = [row EXCEPT ![a].state = "normal", ![a].hunger = 0]
          \/ row' = [row EXCEPT ![a].state = "normal"]
      BY <1>3 DEF FeedAnimal, CureAnimal
    <3>3. \/ row' = [row EXCEPT ![a] = [row[a] EXCEPT !.state = "normal", !.hunger = 0]]
          \/ row' = [row EXCEPT ![a] = [row[a] EXCEPT !.state = "normal"]]
      BY <1>1, <3>1, <3>2
    <3>4. row[a] = [f \in Fields |-> row[a][f]]
      BY <1>1 DEF Kept, Shaped
    <3> DEFINE fed   == [row[a] EXCEPT !.state = "normal", !.hunger = 0]
               cured == [row[a] EXCEPT !.state = "normal"]
    <3>5. \A new \in {fed, cured} :
              /\ new = [f \in Fields |-> new[f]]
              /\ new.state = "normal" /\ new.alreadySick = row[a].alreadySick
      BY <3>4 DEF Fields
    <3>. HIDE DEF a, fed, cured
    <3>6. row' = [row EXCEPT ![a] = fed] \/ row' = [row EXCEPT ![a] = cured]
      BY <3>3 DEF fed, cured
    <3>7. \E new \in {fed, cured} : row' = [row EXCEPT ![a] = new]
      BY <3>6
    <3>8. \E new \in {fed, cured} :
              row'[a] = new /\ \A b \in Animals \ {a} : row'[b] = row[b]
      BY <1>1, <3>1, <3>7
    <3> QED BY <3>5, <3>8
  <2>4. row'[a] # NoRow
    <3>1. DOMAIN row'[a] = Fields /\ DOMAIN NoRow = {"none"}
      BY <2>3 DEF NoRow
    <3>2. "state" \in Fields /\ "state" \notin {"none"}
      BY DEF Fields
    <3> QED BY <3>1, <3>2
  <2>5. ASSUME NEW b \in Animals \ clobbered'
        PROVE  \/ row'[b] = row[b] /\ stolen'[b] = stolen[b]
               \/ Account(row'[b], stolen'[b])
    <3>1. CASE b # a
      BY <2>2, <2>3, <3>1
    <3>2. CASE b = a
      <4>1. row[a].state # "yield" /\ a \notin clobbered
        BY <2>1, <2>5, <3>2
      <4>2. Account(row[a], stolen[a])
        BY <1>1, <4>1 DEF HarvestInv
      <4>3. stolen[a] = 0 /\ row[a].alreadySick = FALSE
        <5>. HIDE DEF a
        <5> QED BY <1>2, <4>1, <4>2 DEF Account
      <4>. HIDE DEF a
      <4> QED BY <2>2, <2>3, <2>4, <3>2, <4>3 DEF Account
    <3> QED BY <3>1, <3>2
  <2>6. clobbered \subseteq clobbered' /\ stolen' \in [Animals -> Nat]
    BY <2>1, <2>2 DEF HarvestInv
  <2> QED BY <2>5, <2>6, AccountsStay
<1>4. CASE ThiefAnimalProduct(q)
  <2>1. PICK computed \in 1 .. 3 :
          LET actual == Min2(computed, seen - MinHarvest) IN
          /\ row' = [row EXCEPT ![a].quantity = seen - actual]
          /\ stolen' = [stolen EXCEPT ![a] = @ + actual]
    BY <1>4 DEF ThiefAnimalProduct
  <2> DEFINE actual == Min2(computed, seen - MinHarvest)
  <2>2. Spared(seen) /\ actual \in Nat
    <3>1. Spared(seen)
      BY <1>4 DEF ThiefAnimalProduct, Asks, HarvestInv, FloorInv, SeenKept
    <3>. HIDE DEF seen
    <3> QED BY <3>1, AnimalAssumption DEF Spared, Min2
  <2>3. /\ clobbered \subseteq clobbered'
        /\ a \notin clobbered' => /\ a \notin clobbered
                                  /\ row[a].quantity = seen /\ row[a].state = "yield"
    <3>1. NotedIf(row[a].quantity # seen \/ row[a].state # "yield", q)
      BY <1>4 DEF ThiefAnimalProduct
    <3> QED BY <3>1 DEF NotedIf
  <2>4. stolen \in [Animals -> Nat] /\ row = [b \in Animals |-> row[b]]
    BY DEF HarvestInv, FloorInv
  <2>5. /\ stolen' \in [Animals -> Nat]
        /\ stolen'[a] = stolen[a] + actual
        /\ \A b \in Animals \ {a} : row'[b] = row[b] /\ stolen'[b] = stolen[b]
    <3>. HIDE DEF a, seen, actual
    <3> QED BY <1>1, <2>1, <2>2, <2>4 DEF actual
  <2>6. /\ row'[a].quantity = seen - actual
        /\ row'[a].state = row[a].state
        /\ row'[a].alreadySick = row[a].alreadySick
        /\ DOMAIN row'[a] = Fields
    <3>1. row' = [row EXCEPT ![a] = [row[a] EXCEPT !.quantity = seen - actual]]
      BY <1>1, <2>1, <2>4
    <3>2. row[a] = [f \in Fields |-> row[a][f]]
      BY <1>1 DEF Kept, Shaped
    <3>. HIDE DEF a, seen, actual
    <3> QED BY <1>1, <2>4, <3>1, <3>2 DEF Fields
  <2>7. row'[a] # NoRow
    <3>1. DOMAIN NoRow = {"none"}
      BY DEF NoRow
    <3>2. "state" \in Fields /\ "state" \notin {"none"}
      BY DEF Fields
    <3> QED BY <2>6, <3>1, <3>2
  <2>8. ASSUME NEW b \in Animals \ clobbered'
        PROVE  \/ row'[b] = row[b] /\ stolen'[b] = stolen[b]
               \/ Account(row'[b], stolen'[b])
    <3>1. CASE b # a
      BY <2>5, <3>1
    <3>2. CASE b = a
      <4>1. /\ a \notin clobbered /\ row[a].quantity = seen /\ row[a].state = "yield"
        BY <2>3, <2>8, <3>2
      <4>2. Account(row[a], stolen[a])
        BY <1>1, <4>1 DEF HarvestInv
      <4>3. seen + stolen[a] = IF row[a].alreadySick THEN AverageHarvest ELSE MaxHarvest
        <5>. HIDE DEF a, seen
        <5> QED BY <1>2, <4>1, <4>2 DEF Account
      <4>4. (seen - actual) + (stolen[a] + actual) = seen + stolen[a]
        <5>1. stolen[a] \in Nat /\ seen \in Int
          BY <1>1, <2>2, <2>4 DEF Spared
        <5>. HIDE DEF a, seen, actual
        <5> QED BY <2>2, <5>1
      <4>5. Account(row'[a], stolen'[a])
        <5>. HIDE DEF a, seen, actual
        <5> QED BY <2>5, <2>6, <2>7, <4>1, <4>3, <4>4 DEF Account
      <4> QED BY <3>2, <4>5
    <3> QED BY <3>1, <3>2
  <2> QED BY <2>3, <2>5, <2>8, AccountsStay
<1> QED BY <1>3, <1>4

LEMMA HarvestInit == Init => HarvestInv
<1> SUFFICES ASSUME Init
             PROVE  HarvestInv
  OBVIOUS
<1>1. /\ row \in [Animals -> {NoRow, NewlyBought(0), GrownUp(0, "normal"),
                              GrownUp(YieldTime \div 2, "sick")}]
      /\ stolen = [a \in Animals |-> 0]
  BY DEF Init
<1>2. \A r \in {NewlyBought(0), GrownUp(0, "normal"), GrownUp(YieldTime \div 2, "sick")} :
        r.state # "yield" /\ r.alreadySick = FALSE
  <2>1. NewlyBought(0).state = "normal" /\ NewlyBought(0).alreadySick = FALSE
    BY DEF NewlyBought
  <2>2. ASSUME NEW seconds, NEW state, state # "yield"
        PROVE  /\ GrownUp(seconds, state).state # "yield"
               /\ GrownUp(seconds, state).alreadySick = FALSE
    BY <2>2 DEF GrownUp, NewlyBought
  <2> QED BY <2>1, <2>2
<1>3. ASSUME NEW a \in Animals
      PROVE  Account(row[a], stolen[a])
  <2>1. row[a] = NoRow \/ (row[a].state # "yield" /\ row[a].alreadySick = FALSE)
    BY <1>1, <1>2
  <2>2. stolen[a] = 0
    BY <1>1
  <2> QED BY <2>1, <2>2 DEF Account
<1> QED BY <1>1, <1>3, FloorInit DEF HarvestInv

LEMMA HarvestStep == HarvestInv /\ [Next]_vars => HarvestInv'
<1> SUFFICES ASSUME HarvestInv, [Next]_vars
             PROVE  HarvestInv'
  OBVIOUS
<1>0. FloorInv'
  BY FloorStep DEF HarvestInv
<1>1. CASE row' = row /\ stolen' = stolen /\ clobbered' = clobbered
  BY <1>0, <1>1 DEF HarvestInv
<1>2. CASE AnimalServiceStep \/ UNCHANGED vars
  BY <1>1, <1>2 DEF AnimalServiceStep, vars, animals, accounts
<1>3. ASSUME NEW w \in Workers,
             \/ TakeJob(w) \/ ReadAnimals(w) \/ CompleteJob(w)
             \/ FailJob(w) \/ CrashWorker(w)
      PROVE  HarvestInv'
  BY <1>1, <1>3 DEF TakeJob, ReadAnimals, CompleteJob, FailJob, CrashWorker, accounts
<1>4. ASSUME NEW w \in Workers, SaveAnimals(w)
      PROVE  HarvestInv'
  BY <1>0, <1>4, SaveAccounts
<1>5. ASSUME NEW a \in Animals, BuyAnimal(a)
      PROVE  HarvestInv'
  <2>1. /\ row[a] = NoRow /\ stolen' = stolen /\ clobbered' = clobbered
        /\ row' = [row EXCEPT ![a] = NewlyBought(clock + 1)]
    BY <1>5 DEF BuyAnimal, Bought
  <2>2. /\ NewlyBought(clock + 1) # NoRow
        /\ NewlyBought(clock + 1).state # "yield"
        /\ NewlyBought(clock + 1).alreadySick = FALSE
    <3>1. DOMAIN NewlyBought(clock + 1) = Fields /\ DOMAIN NoRow = {"none"}
      BY DEF NewlyBought, Fields, NoRow
    <3>2. "state" \in Fields /\ "state" \notin {"none"}
      BY DEF Fields
    <3>3. NewlyBought(clock + 1) # NoRow
      BY <3>1, <3>2
    <3> QED BY <3>3 DEF NewlyBought
  <2>3. /\ row'[a] = NewlyBought(clock + 1)
        /\ \A b \in Animals \ {a} : row'[b] = row[b]
    BY <2>1 DEF HarvestInv, FloorInv
  <2>4. ASSUME NEW b \in Animals \ clobbered'
        PROVE  \/ row'[b] = row[b] /\ stolen'[b] = stolen[b]
               \/ Account(row'[b], stolen'[b])
    <3>1. CASE b # a
      BY <2>1, <2>3, <3>1
    <3>2. CASE b = a
      <4>1. Account(row[a], stolen[a])
        BY <2>1, <2>4, <3>2 DEF HarvestInv
      <4>2. stolen[a] = 0
        BY <2>1, <4>1 DEF Account
      <4> QED BY <2>1, <2>2, <2>3, <3>2, <4>2 DEF Account
    <3> QED BY <3>1, <3>2
  <2> QED BY <1>0, <2>1, <2>4, AccountsStay DEF HarvestInv
<1>6. ASSUME NEW q \in Requests, RequestStep(q)
      PROVE  HarvestInv'
  <2>1. CASE FeedAnimal(q) \/ CureAnimal(q) \/ ThiefAnimalProduct(q)
    <3>1. request[q] # NoRequest
      BY <2>1 DEF FeedAnimal, CureAnimal, ThiefAnimalProduct, Asks
    <3> QED BY <1>0, <2>1, <3>1, WriteAccounts
  <2>2. CASE AbortRequest(q)
    BY <1>1, <2>2 DEF AbortRequest
  <2>3. ASSUME NEW a \in Animals,
               \/ ReadFeedAnimal(q, a) \/ ReadCureAnimal(q, a)
               \/ ReadHelpCureAnimal(q, a) \/ ReadThiefAnimalProduct(q, a)
        PROVE  HarvestInv'
    BY <1>1, <2>3 DEF ReadFeedAnimal, ReadCureAnimal, ReadHelpCureAnimal,
                      ReadThiefAnimalProduct, Read, accounts
  <2> QED BY <1>6, <2>1, <2>2, <2>3 DEF RequestStep
<1> QED BY <1>2, <1>3, <1>4, <1>5, <1>6 DEF Next

(* Nothing of a harvest gets lost: unless an animal's row was written from *)
(* an outdated read, what it holds and what thieves took from it make one  *)
(* harvest, the half one exactly when it was sick as it began to yield.    *)
THEOREM AnimalHarvestKept == Spec => []HarvestConserved
<1>1. HarvestInv => HarvestConserved
  BY DEF HarvestInv, Account, HarvestConserved, Bought
<1> QED BY <1>1, HarvestInit, HarvestStep, PTL DEF Spec

----------------------------------------------------------------------------
(* What is proved of GrowthScheduler, for the tick of the animals: its     *)
(* proofs hold of every number of rows, so of that of the growing animals. *)
Tick == INSTANCE GrowthScheduler_proofs WITH
    rows    <- Cardinality({a \in Animals : Growing(a)}),
    MaxRows <- Cardinality(Animals)

LEMMA TickConstants == Tick!ConstantsAssumption
<1>1. Cardinality(Animals) \in Nat
  BY AnimalAssumption, FS_CardinalityType
<1> QED BY <1>1, AnimalAssumption DEF Tick!ConstantsAssumption, IsFiniteSet, Tick!IsFiniteSet

LEMMA TickNext == Scheduler!Next => Tick!Next
<1> USE DEF Scheduler!Handlers, Scheduler!Busy, 
            Scheduler!table, Scheduler!locals, Scheduler!history,
            Tick!Handlers, Tick!Busy, 
            Tick!table, Tick!locals, Tick!history
<1>1. ASSUME NEW h \in Scheduler!Handlers, Scheduler!StartHandler(h)
      PROVE  Tick!StartHandler(h)
  BY <1>1 DEF Scheduler!StartHandler, Tick!StartHandler
<1>2. ASSUME NEW h \in Scheduler!Handlers, Scheduler!CountRows(h)
      PROVE  Tick!CountRows(h)
  BY <1>2 DEF Scheduler!CountRows, Tick!CountRows
<1>3. ASSUME NEW h \in Scheduler!Handlers, Scheduler!FindSpeedUps(h)
      PROVE  Tick!FindSpeedUps(h)
  BY <1>3 DEF Scheduler!FindSpeedUps, Tick!FindSpeedUps
<1>4. ASSUME NEW h \in Scheduler!Handlers, Scheduler!ReadLastSchedule(h)
      PROVE  Tick!ReadLastSchedule(h)
  BY <1>4 DEF Scheduler!End, Tick!End, Scheduler!ReadLastSchedule, Tick!ReadLastSchedule
<1>5. ASSUME NEW h \in Scheduler!Handlers, Scheduler!AddBulk(h)
      PROVE  Tick!AddBulk(h)
  BY <1>5 DEF Scheduler!AddBulk, Tick!AddBulk, Scheduler!Batches, Tick!Batches,
              Scheduler!BatchCount, Tick!BatchCount, Scheduler!Min2, Tick!Min2
<1>6. ASSUME NEW h \in Scheduler!Handlers, Scheduler!CommitSchedule(h)
      PROVE  Tick!CommitSchedule(h)
  BY <1>6 DEF Scheduler!End, Tick!End, Scheduler!CommitSchedule, Tick!CommitSchedule
<1>7. ASSUME NEW h \in Scheduler!Handlers, Scheduler!FailHandler(h)
      PROVE  Tick!FailHandler(h)
  <2>1. Scheduler!End({h}) => Tick!End({h})
    BY DEF Scheduler!End, Tick!End
  <2>2. Scheduler!CountUncommitted({h}) => Tick!CountUncommitted({h})
    BY DEF Scheduler!CountUncommitted, Tick!CountUncommitted, Cardinality, Tick!Cardinality,
         Scheduler!Cardinality, IsFiniteSet, Tick!IsFiniteSet, Scheduler!IsFiniteSet
  <2> QED BY <1>7, <2>1, <2>2 DEF Scheduler!FailHandler, Tick!FailHandler
<1>8. ASSUME NEW r \in Replicas, Scheduler!HandleLeaderElected(r) 
      PROVE  Tick!HandleLeaderElected(r)
  BY <1>8 DEF Scheduler!HandleLeaderElected, Tick!HandleLeaderElected
<1>12. ASSUME NEW r \in Replicas, Scheduler!HandleLeaderLost(r)
       PROVE  Tick!HandleLeaderLost(r)
  BY <1>12 DEF Scheduler!HandleLeaderLost, Tick!HandleLeaderLost
<1>13. ASSUME NEW r \in Replicas, Scheduler!Crash(r)
       PROVE  Tick!Crash(r)
  <2>1. Scheduler!End({r} \X Slots) => Tick!End({r} \X Slots)
    BY DEF Scheduler!End, Tick!End
  <2>2. Scheduler!CountUncommitted({r} \X Slots) => Tick!CountUncommitted({r} \X Slots)
    BY DEF Scheduler!CountUncommitted, Tick!CountUncommitted, Cardinality, Tick!Cardinality,
         Scheduler!Cardinality, IsFiniteSet, Tick!IsFiniteSet, Scheduler!IsFiniteSet
  <2> QED BY <1>13, <2>1, <2>2 DEF Scheduler!Crash, Tick!Crash
<1>9. ASSUME NEW s \in SpeedUps, Scheduler!InsertSpeedUp(s)
      PROVE  Tick!InsertSpeedUp(s)
  BY <1>9 DEF Scheduler!InsertSpeedUp, Tick!InsertSpeedUp
<1>10. ASSUME NEW n \in 0 .. Cardinality(Animals), Scheduler!ChangeRows(n)
       PROVE  Tick!ChangeRows(n)
  BY <1>10 DEF Scheduler!ChangeRows, Tick!ChangeRows
<1>11. Scheduler!TakeJob \/ Scheduler!Second => Tick!TakeJob \/ Tick!Second
  BY DEF Scheduler!TakeJob, Scheduler!Second, Tick!TakeJob, Tick!Second
<1> QED BY <1>1, <1>2, <1>3, <1>4, <1>5, <1>6, <1>7, <1>8, <1>9, <1>10, <1>11, <1>12, <1>13
        DEF Scheduler!Next, Tick!Next

(* Types, serial handlers and jobs of no negative time.                    *)
TickInv == Scheduler!TypeOK /\ Scheduler!SerialTick /\ Scheduler!ElapsedNotNegative

LEMMA TickInvariant == Spec => []TickInv
<1>1. Scheduler!Init => Tick!Init
  BY DEF Scheduler!Init, Tick!Init, Scheduler!Handlers, Tick!Handlers
<1>2. [Scheduler!Next]_(Scheduler!vars) => [Tick!Next]_(Tick!vars)
  BY TickNext DEF Scheduler!vars, Scheduler!table, Scheduler!locals, Scheduler!history,
                  Tick!vars, Tick!table, Tick!locals, Tick!history
<1>3. Tick!SerialInv /\ Tick!ElapsedNotNegative => TickInv
  BY DEF TickInv, Tick!SerialInv,
         Scheduler!TypeOK, Scheduler!SerialTick, Scheduler!ElapsedNotNegative,
         Tick!TypeOK, Tick!SerialTick, Tick!ElapsedNotNegative,
         Scheduler!Job, Scheduler!Handlers, Scheduler!Phases, Scheduler!Busy,
         Tick!Job, Tick!Handlers, Tick!Phases, Tick!Busy
<1>4. Tick!Spec => []Tick!SerialInv
  BY TickConstants, Tick!SerialInvariant
     DEF Tick!SerialInvariant, Tick!ConstantsAssumption
<1>5. Tick!Spec => []Tick!ElapsedNotNegative
  BY TickConstants, Tick!ElapsedKept DEF Tick!ElapsedKept, Tick!ConstantsAssumption
<1> QED BY <1>1, <1>2, <1>3, <1>4, <1>5, AnimalTickRefinesGrowth, PTL
        DEF SchedulerImplemented, Scheduler!Spec, Tick!Spec

----------------------------------------------------------------------------
(* Types.  The theft of a request leaves a natural number because of the   *)
(* floor, and the time of a job is a number because speed-ups are finite.  *)
JobAtWork == [job : Scheduler!Job, stage : {"taken", "read", "saved"},
              held : UNION {[S -> AnimalInfo] : S \in SUBSET Animals}, again : BOOLEAN]
RequestRead(r) ==
    /\ r.op \in DOMAIN Columns /\ r.animal \in Animals
    /\ DOMAIN r.seen = Columns[r.op]

RowTypes == row \in [Animals -> AnimalInfo \cup {NoRow}]
WorkTypes == work \in [Workers -> JobAtWork \cup {Idle}]
RequestTypes == \A q \in Requests : request[q] # NoRequest => RequestRead(request[q])
HistoryTypes ==
    /\ origin \in [Animals -> Nat] /\ given \in [Animals -> Int]
    /\ clobbered \subseteq Animals /\ displaced \subseteq Animals
    /\ lostJobs \in BOOLEAN /\ rerunJobs \in BOOLEAN
AnimalTypes == RowTypes /\ herd \in Seq(Animals) /\ WorkTypes /\ RequestTypes /\ HistoryTypes

LEMMA JobTimeType ==
    ASSUME NEW job \in Scheduler!Job
    PROVE  JobTime(job) \in Int
<1>1. job.elapsed \in Int /\ job.boosts \subseteq SpeedUps
  BY DEF Scheduler!Job
<1>2. Cardinality(job.boosts) \in Nat
  BY <1>1, AnimalAssumption, FS_Subset, FS_CardinalityType
<1>3. SpeedUpTime \in Nat
  BY AnimalAssumption
<1>4. Cardinality(job.boosts) * SpeedUpTime \in Int
  BY <1>2, <1>3
<1> QED BY <1>1, <1>4 DEF JobTime

LEMMA ShapedIsBought == ASSUME NEW r, Shaped(r) PROVE r # NoRow
<1>1. DOMAIN r = Fields /\ DOMAIN NoRow = {"none"}
  BY DEF Shaped, NoRow
<1>2. "state" \in Fields /\ "state" \notin {"none"}
  BY DEF Fields
<1> QED BY <1>1, <1>2

(* A row, field by field.                                                  *)
Typed(r) ==
    /\ r.isAdult \in BOOLEAN /\ r.growth \in Int /\ r.hunger \in Int /\ r.yield \in Int
    /\ r.state \in States /\ r.quantity \in Nat /\ r.alreadySick \in BOOLEAN
    /\ r.createdAt \in Nat

LEMMA InfoIsTyped ==
    ASSUME NEW r
    PROVE  r \in AnimalInfo <=> Shaped(r) /\ Typed(r)
<1>1. r \in AnimalInfo => Shaped(r) /\ Typed(r)
  BY DEF AnimalInfo, Shaped, Fields, Typed
<1>2. Shaped(r) => r = [isAdult |-> r.isAdult, growth |-> r.growth, hunger |-> r.hunger,
                        yield |-> r.yield, state |-> r.state, quantity |-> r.quantity,
                        alreadySick |-> r.alreadySick, createdAt |-> r.createdAt]
  BY DEF Shaped, Fields
<1>3. Shaped(r) /\ Typed(r) => r \in AnimalInfo
  BY <1>2 DEF AnimalInfo, Typed
<1> QED BY <1>1, <1>3

(* Writing one field of a row, other than the date of its purchase.        *)
LEMMA FieldWritten ==
    ASSUME NEW r, Shaped(r), NEW f \in Fields, NEW v, NEW s, s = [r EXCEPT ![f] = v]
    PROVE  Shaped(s) /\ s[f] = v /\ \A g \in Fields \ {f} : s[g] = r[g]
BY DEF Shaped

Dated(r, at) == Shaped(r) /\ Typed(r) /\ r.createdAt = at

LEMMA DatedWritten ==
    ASSUME NEW r, NEW at, Dated(r, at)
    PROVE  /\ \A v \in BOOLEAN : Dated([r EXCEPT !.isAdult = v], at)
           /\ \A v \in Int : Dated([r EXCEPT !.growth = v], at)
           /\ \A v \in Int : Dated([r EXCEPT !.hunger = v], at)
           /\ \A v \in Int : Dated([r EXCEPT !.yield = v], at)
           /\ \A v \in States : Dated([r EXCEPT !.state = v], at)
           /\ \A v \in Nat : Dated([r EXCEPT !.quantity = v], at)
           /\ \A v \in BOOLEAN : Dated([r EXCEPT !.alreadySick = v], at)
<1>1. \A v \in BOOLEAN : Dated([r EXCEPT !.isAdult = v], at)
  BY FieldWritten DEF Fields, Typed, Dated
<1>2. \A v \in Int : Dated([r EXCEPT !.growth = v], at)
  BY FieldWritten DEF Fields, Typed, Dated
<1>3. \A v \in Int : Dated([r EXCEPT !.hunger = v], at)
  BY FieldWritten DEF Fields, Typed, Dated
<1>4. \A v \in Int : Dated([r EXCEPT !.yield = v], at)
  BY FieldWritten DEF Fields, Typed, Dated
<1>5. \A v \in States : Dated([r EXCEPT !.state = v], at)
  BY FieldWritten DEF Fields, Typed, Dated
<1>6. \A v \in Nat : Dated([r EXCEPT !.quantity = v], at)
  BY FieldWritten DEF Fields, Typed, Dated
<1>7. \A v \in BOOLEAN : Dated([r EXCEPT !.alreadySick = v], at)
  BY FieldWritten DEF Fields, Typed, Dated
<1> QED BY <1>1, <1>2, <1>3, <1>4, <1>5, <1>6, <1>7

LEMMA Changed ==
    ASSUME NEW r, NEW at, Dated(r, at), NEW quantity \in Nat
    PROVE  /\ Dated([r EXCEPT !.state = "normal", !.hunger = 0], at)
           /\ Dated([r EXCEPT !.state = "normal"], at)
           /\ Dated([r EXCEPT !.quantity = quantity], at)
<1> DEFINE state == [r EXCEPT !.state = "normal"]
<1>1. Dated(state, at) /\ Dated([r EXCEPT !.quantity = quantity], at)
  BY DatedWritten DEF States
<1>2. Dated([state EXCEPT !.hunger = 0], at)
  <2> HIDE DEF state
  <2> QED BY <1>1, DatedWritten
<1> QED BY <1>1, <1>2

(* A job writes rows of the right type, and no other date.                 *)
LEMMA GrownType ==
    ASSUME NEW r \in AnimalInfo, NEW seconds \in Int, NEW new \in Grown(r, seconds)
    PROVE  new \in AnimalInfo /\ new.createdAt = r.createdAt
<1>1. AverageHarvest \in Nat /\ MaxHarvest \in Nat
  BY AnimalAssumption DEF AverageHarvest
<1> DEFINE at == r.createdAt
<1>2. Dated(r, at) /\ Typed(r)
  BY InfoIsTyped DEF Dated
<1> HIDE DEF at
<1>3. Dated(Yielded(r), at)
  <2> DEFINE yield == [r EXCEPT !.yield = 0]
             state == [yield EXCEPT !.state = "yield"]
             many  == IF r.state = "sick" THEN AverageHarvest ELSE MaxHarvest
             quantity == [state EXCEPT !.quantity = many]
             already == r.alreadySick \/ r.state = "sick"
             alreadySick == [quantity EXCEPT !.alreadySick = already]
  <2>1. Dated(yield, at)
    BY <1>2, DatedWritten
  <2>2. Dated(state, at)
    <3> HIDE DEF yield
    <3> QED BY <2>1, DatedWritten DEF States
  <2>3. Dated(quantity, at)
    <3>1. many \in Nat
      BY <1>1
    <3> HIDE DEF many, state
    <3> QED BY <2>2, <3>1, DatedWritten
  <2>4. Dated(alreadySick, at)
    <3>1. already \in BOOLEAN
      OBVIOUS
    <3> HIDE DEF already, quantity
    <3> QED BY <2>3, <3>1, DatedWritten
  <2>5. Yielded(r) = alreadySick
    BY DEF Yielded
  <2> QED BY <2>4, <2>5
<1>4. Dated(Young(r, seconds), at)
  <2> DEFINE growth == [r EXCEPT !.growth = r.growth + seconds]
             more == r.hunger + seconds
             hunger == [growth EXCEPT !.hunger = more]
             after == IF more >= HungerTime THEN "hungry" ELSE r.state
             state == [hunger EXCEPT !.state = after]
  <2>1. Dated(growth, at)
    BY <1>2, DatedWritten DEF Typed
  <2>2. Dated(hunger, at)
    <3>1. more \in Int
      BY <1>2 DEF Typed
    <3> HIDE DEF growth, more
    <3> QED BY <2>1, <3>1, DatedWritten
  <2>3. Dated(state, at)
    <3>1. after \in States
      BY <1>2 DEF Typed, States
    <3> HIDE DEF hunger, after
    <3> QED BY <2>2, <3>1, DatedWritten
  <2>4. Young(r, seconds) = state
    BY DEF Young
  <2> QED BY <2>3, <2>4
<1>5. Dated(Matured(r), at)
  <2> DEFINE adult == [r EXCEPT !.isAdult = TRUE]
  <2>1. Dated(adult, at)
    BY <1>2, DatedWritten
  <2>2. Dated([adult EXCEPT !.state = "hungry"], at)
    <3> HIDE DEF adult
    <3> QED BY <2>1, DatedWritten DEF States
  <2> QED BY <2>2 DEF Matured
<1>6. \A older : older = [r EXCEPT !.yield = r.yield + seconds] =>
         Dated(older, at) /\ Dated([older EXCEPT !.state = "sick"], at)
  <2> SUFFICES ASSUME NEW older, older = [r EXCEPT !.yield = r.yield + seconds]
               PROVE  Dated(older, at) /\ Dated([older EXCEPT !.state = "sick"], at)
    OBVIOUS
  <2>1. r.yield + seconds \in Int
    BY <1>2 DEF Typed
  <2>2. Dated(older, at)
    BY <1>2, <2>1, DatedWritten
  <2> QED BY <2>2, DatedWritten DEF States
<1>7. Dated(new, at)
  BY <1>3, <1>4, <1>5, <1>6 DEF Grown, Adult
<1> QED BY <1>7, InfoIsTyped DEF Dated, at

LEMMA AnimalTypesInit == Init => AnimalTypes
<1> SUFFICES ASSUME Init
             PROVE  AnimalTypes
  OBVIOUS
<1>1. NewlyBought(0) \in AnimalInfo
  BY DEF NewlyBought, AnimalInfo, States
<1>2. \A seconds \in Int, state \in States : GrownUp(seconds, state) \in AnimalInfo
  <2>1. GrowthTime \in Int
    BY AnimalAssumption
  <2>2. Dated(NewlyBought(0), 0)
    BY <1>1, InfoIsTyped DEF Dated, NewlyBought
  <2>3. ASSUME NEW r, Dated(r, 0), NEW seconds \in Int, NEW state \in States
        PROVE  Dated([r EXCEPT !.isAdult = TRUE, !.growth = GrowthTime,
                               !.yield = seconds, !.state = state], 0)
    <3> DEFINE adult == [r EXCEPT !.isAdult = TRUE]
               growth == [adult EXCEPT !.growth = GrowthTime]
               yield == [growth EXCEPT !.yield = seconds]
    <3>1. Dated(adult, 0)
      BY <2>3, DatedWritten
    <3>2. Dated(growth, 0)
      <4> HIDE DEF adult
      <4> QED BY <2>1, <3>1, DatedWritten
    <3>3. Dated(yield, 0)
      <4> HIDE DEF growth
      <4> QED BY <3>2, DatedWritten
    <3>4. Dated([yield EXCEPT !.state = state], 0)
      <4> HIDE DEF yield
      <4> QED BY <3>3, DatedWritten
    <3> QED BY <3>4
  <2> QED BY <2>2, <2>3, InfoIsTyped DEF GrownUp, Dated
<1>3. GrownUp(0, "normal") \in AnimalInfo /\ GrownUp(YieldTime \div 2, "sick") \in AnimalInfo
  <2>1. YieldTime \div 2 \in Int
    BY AnimalAssumption
  <2> QED BY <1>2, <2>1 DEF States
<1>4. RowTypes
  BY <1>1, <1>3 DEF Init, RowTypes
<1>5. herd \in Seq(Animals)
  <2> DEFINE n == Cardinality({a \in Animals : Bought(a)})
  <2>1. n \in Nat
    BY AnimalAssumption, FS_Subset, FS_CardinalityType
  <2>2. herd \in [1 .. n -> Animals]
    BY DEF Init
  <2> HIDE DEF n
  <2> QED BY <2>1, <2>2
<1>6. WorkTypes /\ RequestTypes
  BY DEF Init, WorkTypes, RequestTypes
<1>7. HistoryTypes
  <2>1. /\ origin = [a \in Animals |-> 0] /\ given = [a \in Animals |-> 0]
        /\ clobbered = {} /\ displaced = {} /\ lostJobs = FALSE /\ rerunJobs = FALSE
    BY DEF Init
  <2>2. clobbered \subseteq Animals /\ displaced \subseteq Animals
        /\ lostJobs \in BOOLEAN /\ rerunJobs \in BOOLEAN
    BY <2>1
  <2>3. origin \in [Animals -> Nat] /\ given \in [Animals -> Int]
    BY <2>1
  <2> QED BY <2>2, <2>3 DEF HistoryTypes
<1> QED BY <1>4, <1>5, <1>6, <1>7 DEF AnimalTypes

LEMMA WorkerTypes ==
    ASSUME TickInv, FloorInv, AnimalTypes, NEW w \in Workers,
           \/ TakeJob(w) \/ ReadAnimals(w) \/ SaveAnimals(w)
           \/ CompleteJob(w) \/ FailJob(w) \/ CrashWorker(w)
    PROVE  AnimalTypes'
<1> USE DEF AnimalTypes
<1>0. work[w] # Idle => work[w] \in JobAtWork
  BY DEF WorkTypes
<1>1. CASE TakeJob(w)
  <2>1. Head(queue) \in Scheduler!Job
    BY <1>1 DEF TakeJob, Scheduler!TakeJob, TickInv, Scheduler!TypeOK
  <2>2. Nothing \in [{} -> AnimalInfo]
    BY DEF Nothing
  <2>3. work' = [work EXCEPT ![w] = [job |-> Head(queue), stage |-> "taken",
                                    held |-> Nothing, again |-> FALSE]]
    BY <1>1 DEF TakeJob
  <2>4. WorkTypes'
    BY <2>1, <2>2, <2>3 DEF WorkTypes, JobAtWork
  <2> QED BY <1>1, <2>4 DEF TakeJob, accounts, RowTypes, RequestTypes, HistoryTypes
<1>2. CASE ReadAnimals(w)
  <2>1. work[w] \in JobAtWork
    BY <1>0, <1>2 DEF ReadAnimals, At
  <2>2. [a \in Page(work[w].job) |-> row[a]] \in [Page(work[w].job) -> AnimalInfo]
    BY DEF Page, Growing, Bought, RowTypes
  <2>3. Page(work[w].job) \subseteq Animals
    BY DEF Page
  <2>4. work' = [work EXCEPT ![w].stage = "read",
                            ![w].held = [a \in Page(work[w].job) |-> row[a]]]
    BY <1>2 DEF ReadAnimals
  <2> DEFINE page == Page(work[w].job)
             read == [a \in page |-> row[a]]
  <2>5. read \in UNION {[S -> AnimalInfo] : S \in SUBSET Animals}
    BY <2>2, <2>3
  <2>6. WorkTypes'
    <3> HIDE DEF read
    <3> QED BY <2>1, <2>4, <2>5 DEF WorkTypes, JobAtWork, read
  <2> QED BY <1>2, <2>6 DEF ReadAnimals, accounts, RowTypes, RequestTypes, HistoryTypes
<1>3. CASE SaveAnimals(w)
  <2> DEFINE held == work[w].held
  <2>1. PICK new \in [DOMAIN held -> UNION {Grown(held[a], JobTime(work[w].job)) :
                                            a \in DOMAIN held}] :
          /\ \A a \in DOMAIN held : new[a] \in Grown(held[a], JobTime(work[w].job))
          /\ row' = [a \in Animals |-> IF a \in DOMAIN held THEN new[a] ELSE row[a]]
    BY <1>3 DEF SaveAnimals
  <2>2. work[w] \in JobAtWork
    BY <1>0, <1>3 DEF SaveAnimals, At
  <2>3. /\ DOMAIN held \subseteq Animals /\ \A a \in DOMAIN held : held[a] \in AnimalInfo
        /\ work[w].job \in Scheduler!Job /\ work[w].job.elapsed \in Int
    BY <2>2 DEF JobAtWork, Scheduler!Job
  <2>4. \A a \in DOMAIN held : new[a] \in AnimalInfo
    BY <2>1, <2>3, GrownType, JobTimeType
  <2>5. RowTypes'
    <3> HIDE DEF held
    <3> QED BY <2>1, <2>4 DEF RowTypes
  <2>6. WorkTypes'
    <3>1. Nothing \in [{} -> AnimalInfo]
      BY DEF Nothing
    <3>2. work' = [work EXCEPT ![w].stage = "saved", ![w].held = Nothing]
      BY <1>3 DEF SaveAnimals
    <3>3. [work[w] EXCEPT !.stage = "saved", !.held = Nothing] \in JobAtWork
      BY <2>2, <3>1 DEF JobAtWork
    <3>4. work' = [work EXCEPT ![w] = [work[w] EXCEPT !.stage = "saved", !.held = Nothing]]
      BY <3>2 DEF WorkTypes
    <3> QED BY <3>3, <3>4 DEF WorkTypes
  <2>7. given' \in [Animals -> Int]
    <3>1. given' = [a \in Animals |-> IF a \in DOMAIN held
                                   THEN given[a] + work[w].job.elapsed ELSE given[a]]
      BY <1>3 DEF SaveAnimals
    <3>2. given \in [Animals -> Int] /\ work[w].job.elapsed \in Int
      BY <2>3 DEF HistoryTypes
    <3> HIDE DEF held
    <3>3. \A a \in Animals : given[a] \in Int /\ given[a] + work[w].job.elapsed \in Int
      BY <3>2
    <3> QED BY <3>1, <3>3, Zenon
  <2>8. clobbered' \subseteq Animals /\ displaced' \subseteq Animals
    <3>1. clobbered' = clobbered \cup {a \in DOMAIN held : held[a] # row[a]}
      BY <1>3 DEF SaveAnimals
    <3>2. NoteDisplaced(Workers \ {w})
      BY <1>3 DEF SaveAnimals
    <3>3. displaced' \subseteq Animals
      BY <3>2 DEF NoteDisplaced, HistoryTypes
    <3> QED BY <2>3, <3>1, <3>3 DEF HistoryTypes
  <2>9. UNCHANGED <<herd, request, origin, lostJobs, rerunJobs>>
    BY <1>3 DEF SaveAnimals
  <2>10. HistoryTypes' /\ RequestTypes'
    BY <2>7, <2>8, <2>9 DEF HistoryTypes, RequestTypes
  <2> QED BY <2>5, <2>6, <2>9, <2>10
<1>4. CASE CompleteJob(w) \/ FailJob(w)
  <2>1. work' = [work EXCEPT ![w] = Idle]
    BY <1>4 DEF CompleteJob, FailJob
  <2>2. WorkTypes'
    BY <2>1 DEF WorkTypes
  <2> QED BY <1>4, <2>2 DEF CompleteJob, FailJob, accounts, RowTypes, RequestTypes, HistoryTypes
<1>5. CASE CrashWorker(w)
  <2>1. work[w] \in JobAtWork
    BY <1>0, <1>5 DEF CrashWorker
  <2>2. [work[w] EXCEPT !.stage = "taken", !.held = Nothing, !.again = TRUE] \in JobAtWork
    <3>1. Nothing \in [{} -> AnimalInfo]
      BY DEF Nothing
    <3> QED BY <2>1, <3>1 DEF JobAtWork
  <2>3. work' = [work EXCEPT ![w] = IF work[w].again THEN Idle
                     ELSE [work[w] EXCEPT !.stage = "taken", !.held = Nothing, !.again = TRUE]]
    BY <1>5 DEF CrashWorker, WorkTypes
  <2>4. WorkTypes'
    BY <2>2, <2>3 DEF WorkTypes
  <2>5. lostJobs' \in BOOLEAN /\ rerunJobs' \in BOOLEAN
    BY <1>5 DEF CrashWorker
  <2> QED BY <1>5, <2>4, <2>5 DEF CrashWorker, RowTypes, RequestTypes, HistoryTypes
<1> QED BY <1>1, <1>2, <1>3, <1>4, <1>5

LEMMA ReadTypes ==
    ASSUME AnimalTypes, FloorInv, NEW q \in Requests, NEW op \in DOMAIN Columns, NEW a \in Animals,
           NEW state, Read(q, op, a, state)
    PROVE  AnimalTypes'
<1>1. request' = [request EXCEPT ![q] =
                      [op |-> op, animal |-> a, seen |-> [c \in Columns[op] |-> row[a][c]]]]
  BY DEF Read
<1>2. request = [p \in Requests |-> request[p]]
  BY DEF FloorInv
<1>3. RequestTypes'
  BY <1>1, <1>2 DEF AnimalTypes, RequestTypes, RequestRead
<1> QED BY <1>3 DEF Read, accounts, AnimalTypes, RowTypes, WorkTypes, HistoryTypes

Writes(q) == FeedAnimal(q) \/ CureAnimal(q) \/ ThiefAnimalProduct(q)

(* A request writes one row, and back into the listing only from an        *)
(* outdated read.                                                          *)
LEMMA WriteEffect ==
    ASSUME AnimalTypes, FloorInv, NEW q \in Requests, Writes(q)
    PROVE  LET a == request[q].animal IN
           /\ a \in Animals /\ row[a] \in AnimalInfo /\ request[q] # NoRequest
           /\ \E s \in AnimalInfo :
               /\ row' = [row EXCEPT ![a] = s]
               /\ s.createdAt = row[a].createdAt
               /\ s.state # row[a].state /\ row[a].state = "yield" => a \in clobbered'
<1> DEFINE a == request[q].animal
           seen == request[q].seen.quantity
<1>1. request[q] # NoRequest
  BY DEF Writes, FeedAnimal, CureAnimal, ThiefAnimalProduct, Asks
<1>2. a \in Animals /\ row[a] \in AnimalInfo
  <2>1. a \in Animals /\ Kept(row[a])
    BY <1>1 DEF FloorInv, SeenKept
  <2>2. row[a] # NoRow
    BY <2>1, ShapedIsBought DEF Kept
  <2> QED BY <2>1, <2>2 DEF AnimalTypes, RowTypes
<1>3. Dated(row[a], row[a].createdAt)
  BY <1>2, InfoIsTyped DEF Dated
<1>4. row = [b \in Animals |-> row[b]]
  BY DEF FloorInv
<1>5. \A s : Dated(s, row[a].createdAt) => s \in AnimalInfo /\ s.createdAt = row[a].createdAt
  BY InfoIsTyped DEF Dated
<1>6. CASE FeedAnimal(q)
  <2> DEFINE fed == [row[a] EXCEPT !.state = "normal", !.hunger = 0]
  <2>1. row' = [row EXCEPT ![a] = fed]
    <3>1. row' = [row EXCEPT ![a].state = "normal", ![a].hunger = 0]
      BY <1>6 DEF FeedAnimal
    <3> HIDE DEF a
    <3> QED BY <1>2, <1>4, <3>1
  <2>2. Dated(fed, row[a].createdAt)
    <3> HIDE DEF a
    <3> QED BY <1>3, Changed
  <2>3. row[a].state = "yield" => a \in clobbered'
    BY <1>6 DEF FeedAnimal, NotedIf
  <2> HIDE DEF fed
  <2> QED BY <1>1, <1>2, <1>5, <2>1, <2>2, <2>3
<1>7. CASE CureAnimal(q)
  <2> DEFINE cured == [row[a] EXCEPT !.state = "normal"]
  <2>1. row' = [row EXCEPT ![a] = cured]
    BY <1>7 DEF CureAnimal
  <2>2. Dated(cured, row[a].createdAt)
    <3> HIDE DEF a
    <3> QED BY <1>3, Changed
  <2>3. row[a].state = "yield" => a \in clobbered'
    BY <1>7 DEF CureAnimal, NotedIf
  <2> HIDE DEF cured
  <2> QED BY <1>1, <1>2, <1>5, <2>1, <2>2, <2>3
<1>8. CASE ThiefAnimalProduct(q)
  <2>1. PICK computed \in 1 .. 3 :
          row' = [row EXCEPT ![a].quantity = seen - Min2(computed, seen - MinHarvest)]
    BY <1>8 DEF ThiefAnimalProduct
  <2>2. Spared(seen)
    BY <1>1, <1>8 DEF ThiefAnimalProduct, Asks, FloorInv, SeenKept
  <2>3. seen - Min2(computed, seen - MinHarvest) \in Nat
    <3> HIDE DEF seen
    <3> QED BY <2>2, AnimalAssumption DEF Spared, Min2
  <2> DEFINE left == seen - Min2(computed, seen - MinHarvest)
             poorer == [row[a] EXCEPT !.quantity = left]
  <2>4. row' = [row EXCEPT ![a] = poorer]
    BY <2>1
  <2>5. Dated(poorer, row[a].createdAt)
    <3> HIDE DEF a, left
    <3> QED BY <1>3, <2>3, Changed DEF left
  <2>6. poorer.state = row[a].state
    <3>1. Shaped(row[a])
      BY <1>3 DEF Dated
    <3> HIDE DEF a, left
    <3> QED BY <3>1, FieldWritten DEF Fields
  <2> HIDE DEF poorer
  <2> QED BY <1>1, <1>2, <1>5, <2>4, <2>5, <2>6
<1> QED BY <1>6, <1>7, <1>8 DEF Writes

LEMMA WriteTypes ==
    ASSUME AnimalTypes, FloorInv, NEW q \in Requests, Writes(q) \/ AbortRequest(q)
    PROVE  AnimalTypes'
<1> DEFINE a == request[q].animal
<1>1. /\ request' = [request EXCEPT ![q] = NoRequest]
      /\ UNCHANGED <<herd, work, origin, given, lostJobs, rerunJobs>>
  BY DEF Writes, FeedAnimal, CureAnimal, ThiefAnimalProduct, AbortRequest, Done
<1>2. RequestTypes'
  BY <1>1 DEF AnimalTypes, RequestTypes, FloorInv
<1>3. RowTypes' /\ clobbered' \subseteq Animals /\ displaced' \subseteq Animals
  <2>1. CASE AbortRequest(q)
    BY <2>1 DEF AbortRequest, AnimalTypes, RowTypes, HistoryTypes
  <2>2. CASE Writes(q)
    <3>1. PICK outdated : NotedIf(outdated, q)
      BY <2>2 DEF Writes, FeedAnimal, CureAnimal, ThiefAnimalProduct
    <3>2. a \in Animals /\ \E s \in AnimalInfo : row' = [row EXCEPT ![a] = s]
      BY <2>2, WriteEffect
    <3>3. clobbered' \subseteq clobbered \cup {a}
      BY <3>1 DEF NotedIf
    <3>4. displaced' \subseteq Animals
      BY <3>1 DEF NotedIf, NoteDisplaced, AnimalTypes, HistoryTypes
    <3> HIDE DEF a
    <3> QED BY <3>2, <3>3, <3>4 DEF AnimalTypes, RowTypes, HistoryTypes
  <2> QED BY <2>1, <2>2
<1> QED BY <1>1, <1>2, <1>3 DEF AnimalTypes, WorkTypes, HistoryTypes

LEMMA AnimalTypesStep == TickInv /\ FloorInv /\ AnimalTypes /\ [Next]_vars => AnimalTypes'
<1> SUFFICES ASSUME TickInv, FloorInv, AnimalTypes, [Next]_vars
             PROVE  AnimalTypes'
  OBVIOUS
<1>1. CASE AnimalServiceStep \/ UNCHANGED vars
  BY <1>1 DEF AnimalServiceStep, vars, animals, accounts, AnimalTypes,
              RowTypes, WorkTypes, RequestTypes, HistoryTypes
<1>2. ASSUME NEW w \in Workers,
             \/ TakeJob(w) \/ ReadAnimals(w) \/ SaveAnimals(w)
             \/ CompleteJob(w) \/ FailJob(w) \/ CrashWorker(w)
      PROVE  AnimalTypes'
  BY <1>2, WorkerTypes
<1>3. ASSUME NEW a \in Animals, BuyAnimal(a)
      PROVE  AnimalTypes'
  <2>1. clock + 1 \in Nat /\ lastSchedule \in Nat
    BY DEF TickInv, Scheduler!TypeOK
  <2>2. NewlyBought(clock + 1) \in AnimalInfo
    BY <2>1 DEF NewlyBought, AnimalInfo, States
  <2>3. /\ row' = [row EXCEPT ![a] = NewlyBought(clock + 1)]
        /\ herd' = Append(herd, a)
        /\ origin' = [origin EXCEPT ![a] = lastSchedule]
        /\ UNCHANGED <<work, request, given, clobbered, displaced, lostJobs, rerunJobs>>
    BY <1>3 DEF BuyAnimal
  <2>4. RowTypes' /\ herd' \in Seq(Animals)
    BY <2>2, <2>3 DEF AnimalTypes, RowTypes
  <2>5. HistoryTypes'
    BY <2>1, <2>3 DEF AnimalTypes, HistoryTypes
  <2> QED BY <2>3, <2>4, <2>5 DEF AnimalTypes, WorkTypes, RequestTypes
<1>4. ASSUME NEW q \in Requests, RequestStep(q)
      PROVE  AnimalTypes'
  <2>1. ASSUME NEW a \in Animals,
               \/ ReadFeedAnimal(q, a) \/ ReadCureAnimal(q, a)
               \/ ReadHelpCureAnimal(q, a) \/ ReadThiefAnimalProduct(q, a)
        PROVE  AnimalTypes'
    <3>1. PICK op \in DOMAIN Columns, state \in States : Read(q, op, a, state)
      BY <2>1 DEF ReadFeedAnimal, ReadCureAnimal, ReadHelpCureAnimal,
                  ReadThiefAnimalProduct, Columns, States
    <3> QED BY <3>1, ReadTypes
  <2>2. CASE FeedAnimal(q) \/ CureAnimal(q) \/ ThiefAnimalProduct(q) \/ AbortRequest(q)
    BY <2>2, WriteTypes DEF Writes
  <2> QED BY <1>4, <2>1, <2>2 DEF RequestStep
<1> QED BY <1>1, <1>2, <1>3, <1>4 DEF Next

BaseInv == TickInv /\ HarvestInv /\ AnimalTypes

LEMMA BaseInvariant == Spec => []BaseInv
<1>1. HarvestInv => FloorInv
  BY DEF HarvestInv
<1> QED BY <1>1, TickInvariant, HarvestInit, HarvestStep, AnimalTypesInit, AnimalTypesStep, PTL
        DEF Spec, BaseInv

(* Each variable holds a value the code can give it: no job, read or write *)
(* brings a value of a wrong kind to a row, and no theft a negative one.   *)
THEOREM AnimalTypeCorrect == Spec => []TypeOK
<1>1. BaseInv => TypeOK
  <2> SUFFICES ASSUME BaseInv
               PROVE  TypeOK
    OBVIOUS
  <2>1. /\ Scheduler!TypeOK /\ stolen \in [Animals -> Nat]
        /\ DOMAIN work = Workers /\ DOMAIN request = Requests
    BY DEF BaseInv, TickInv, HarvestInv, FloorInv
  <2>2. ASSUME NEW w \in Workers, work[w] # Idle
        PROVE  /\ work[w].job \in Scheduler!Job
               /\ work[w].stage \in {"taken", "read", "saved"}
               /\ DOMAIN work[w].held \subseteq Animals
               /\ work[w].held \in [DOMAIN work[w].held -> AnimalInfo]
               /\ work[w].again \in BOOLEAN
    <3>1. work[w] \in JobAtWork
      BY <2>2 DEF BaseInv, AnimalTypes, WorkTypes
    <3> QED BY <3>1 DEF JobAtWork
  <2> QED BY <2>1, <2>2 DEF BaseInv, AnimalTypes, RowTypes, RequestTypes, RequestRead,
                           HistoryTypes, TypeOK
<1> QED BY <1>1, BaseInvariant, PTL

----------------------------------------------------------------------------
(* The place of an animal in the listing of a job, and whether it falls on *)
(* the page of the job.                                                    *)
Listed(t) == {b \in Animals : Growing(b) /\ row[b].createdAt <= t}
Place(a, t) == Cardinality({b \in Listed(t) : Earlier(b, a)})
Hits(a, job) ==
    /\ Bought(a) /\ row[a].createdAt <= job.utcTime
    /\ Place(a, job.utcTime) \in job.skip .. job.skip + job.take - 1

LEMMA PageIsHits ==
    ASSUME NEW job
    PROVE  Page(job) = {a \in Animals : Growing(a) /\ Hits(a, job)}
BY DEF Page, Hits, Place, Listed, Growing

HerdInv ==
    /\ \A i, j \in DOMAIN herd : herd[i] = herd[j] => i = j
    /\ \A i \in DOMAIN herd : Bought(herd[i])

(* A worker holds rows of animals that are there, with their dates.        *)
HeldRows ==
    \A w \in Workers : At(w, "read") =>
        \A a \in DOMAIN work[w].held :
            Bought(a) /\ work[w].held[a].createdAt = row[a].createdAt

LEMMA PlaceType ==
    ASSUME NEW a, NEW t
    PROVE  IsFiniteSet({b \in Listed(t) : Earlier(b, a)}) /\ Place(a, t) \in Nat
<1>1. {b \in Listed(t) : Earlier(b, a)} \subseteq Animals
  BY DEF Listed
<1> QED BY <1>1, AnimalAssumption, FS_Subset, FS_CardinalityType DEF Place

----------------------------------------------------------------------------
(* What a step other than its purchase does to an animal.                  *)
RowFate(a) ==
    /\ Bought(a) => Bought(a)' /\ row'[a].createdAt = row[a].createdAt
    /\ ~Bought(a) => row'[a] = row[a]
    /\ ~Growing(a) /\ Growing(a)' => a \in clobbered'

LEMMA SameRow ==
    ASSUME NEW a, row'[a] = row[a]
    PROVE  RowFate(a)
BY DEF RowFate, Growing, Bought

LEMMA SaveFate ==
    ASSUME FloorInv, AnimalTypes, HeldRows, NEW w \in Workers, SaveAnimals(w), NEW a \in Animals
    PROVE  RowFate(a)
<1> DEFINE held == work[w].held
<1>1. PICK new \in [DOMAIN held -> UNION {Grown(held[b], JobTime(work[w].job)) :
                                          b \in DOMAIN held}] :
        /\ \A b \in DOMAIN held : new[b] \in Grown(held[b], JobTime(work[w].job))
        /\ row' = [b \in Animals |-> IF b \in DOMAIN held THEN new[b] ELSE row[b]]
  BY DEF SaveAnimals
<1>2. CASE a \notin DOMAIN held
  BY <1>1, <1>2, SameRow
<1>3. CASE a \in DOMAIN held
  <2>1. At(w, "read")
    BY DEF SaveAnimals
  <2>2. Shaped(held[a]) /\ held[a].state # "yield"
    BY <1>3, <2>1 DEF At, FloorInv, HeldKept, Kept
  <2>3. Bought(a) /\ held[a].createdAt = row[a].createdAt
    BY <1>3, <2>1 DEF HeldRows
  <2>4. row'[a] = new[a] /\ new[a] \in Grown(held[a], JobTime(work[w].job))
    BY <1>1, <1>3
  <2>5. held[a] \in AnimalInfo /\ work[w].job \in Scheduler!Job
    <3>1. work[w] \in JobAtWork
      BY <2>1 DEF At, AnimalTypes, WorkTypes
    <3> QED BY <1>3, <3>1 DEF JobAtWork
  <2>6. row'[a] \in AnimalInfo /\ row'[a].createdAt = row[a].createdAt
    BY <2>3, <2>4, <2>5, JobTimeType, GrownType
  <2>7. Bought(a)'
    BY <2>6, InfoIsTyped, ShapedIsBought DEF Bought
  <2>8. ~Growing(a) => a \in clobbered'
    <3>1. ~Growing(a) => held[a] # row[a]
      BY <2>2, <2>3 DEF Growing
    <3>2. clobbered' = clobbered \cup {b \in DOMAIN held : held[b] # row[b]}
      BY DEF SaveAnimals
    <3> QED BY <1>3, <3>1, <3>2
  <2> QED BY <2>3, <2>6, <2>7, <2>8 DEF RowFate
<1> QED BY <1>2, <1>3

LEMMA WriteFate ==
    ASSUME FloorInv, AnimalTypes, NEW q \in Requests, Writes(q), NEW b \in Animals
    PROVE  RowFate(b)
<1> DEFINE a == request[q].animal
<1>1. a \in Animals /\ row[a] \in AnimalInfo
  BY WriteEffect
<1>2. PICK s \in AnimalInfo :
        /\ row' = [row EXCEPT ![a] = s]
        /\ s.createdAt = row[a].createdAt
        /\ s.state # row[a].state /\ row[a].state = "yield" => a \in clobbered'
  BY WriteEffect
<1>3. row = [c \in Animals |-> row[c]]
  BY DEF FloorInv
<1> HIDE DEF a
<1>4. CASE b # a
  <2>1. row'[b] = row[b]
    BY <1>2, <1>3, <1>4
  <2> QED BY <2>1, SameRow
<1>5. CASE b = a
  <2>1. row'[b] = s
    BY <1>1, <1>2, <1>3, <1>5
  <2>2. Bought(b) /\ Bought(b)'
    BY <1>1, <1>2, <1>5, <2>1, InfoIsTyped, ShapedIsBought DEF Bought
  <2>3. ~Growing(b) /\ Growing(b)' => b \in clobbered'
    BY <1>2, <1>5, <2>1, <2>2 DEF Growing
  <2> QED BY <1>2, <1>5, <2>1, <2>2, <2>3 DEF RowFate
<1> QED BY <1>4, <1>5

(* Only saves, requests and purchases write rows.                          *)
LEMMA RowsWritten ==
    ASSUME [Next]_vars
    PROVE  \/ UNCHANGED <<row, herd, clobbered, displaced>>
           \/ \E w \in Workers : SaveAnimals(w)
           \/ \E q \in Requests : Writes(q)
           \/ \E a \in Animals : BuyAnimal(a)
<1>1. CASE AnimalServiceStep \/ UNCHANGED vars
  BY <1>1 DEF AnimalServiceStep, vars, animals, accounts
<1>2. ASSUME NEW w \in Workers,
             \/ TakeJob(w) \/ ReadAnimals(w)
             \/ CompleteJob(w) \/ FailJob(w) \/ CrashWorker(w)
      PROVE  UNCHANGED <<row, herd, clobbered, displaced>>
  BY <1>2 DEF TakeJob, ReadAnimals, CompleteJob, FailJob, CrashWorker, accounts
<1>3. ASSUME NEW q \in Requests, RequestStep(q)
      PROVE  \/ UNCHANGED <<row, herd, clobbered, displaced>>
             \/ Writes(q)
  <2>1. ASSUME NEW a \in Animals,
               \/ ReadFeedAnimal(q, a) \/ ReadCureAnimal(q, a)
               \/ ReadHelpCureAnimal(q, a) \/ ReadThiefAnimalProduct(q, a)
        PROVE  UNCHANGED <<row, herd, clobbered, displaced>>
    BY <2>1 DEF ReadFeedAnimal, ReadCureAnimal, ReadHelpCureAnimal,
                ReadThiefAnimalProduct, Read, accounts
  <2>2. CASE Writes(q)
    BY <2>2
  <2>3. CASE AbortRequest(q)
    BY <2>3 DEF AbortRequest, Done
  <2> QED BY <1>3, <2>1, <2>2, <2>3 DEF RequestStep, Writes
<1> QED BY <1>1, <1>2, <1>3 DEF Next

LEMMA RowFates ==
    ASSUME FloorInv, AnimalTypes, HeldRows, [Next]_vars, NEW a \in Animals, ~BuyAnimal(a)
    PROVE  RowFate(a)
<1>1. CASE row' = row
  BY <1>1, SameRow
<1>2. ASSUME NEW b \in Animals, BuyAnimal(b)
      PROVE  RowFate(a)
  <2>1. row'[a] = row[a]
    BY <1>2 DEF BuyAnimal, FloorInv
  <2> QED BY <2>1, SameRow
<1> QED BY <1>1, <1>2, RowsWritten, SaveFate, WriteFate

(* A purchase is of a new animal, listed after all others.                 *)
LEMMA PurchaseEffect ==
    ASSUME FloorInv, NEW a \in Animals, BuyAnimal(a)
    PROVE  /\ ~Bought(a) /\ Bought(a)' /\ Growing(a)' /\ row'[a].createdAt = clock + 1
           /\ herd' = Append(herd, a)
           /\ origin' = [origin EXCEPT ![a] = lastSchedule]
           /\ UNCHANGED <<scheduler, work, request, given, clobbered, displaced,
                          lostJobs, rerunJobs>>
<1>1. /\ row' = [row EXCEPT ![a] = NewlyBought(clock + 1)]
      /\ row = [b \in Animals |-> row[b]]
  BY DEF BuyAnimal, FloorInv
<1>2. /\ Shaped(NewlyBought(clock + 1)) /\ NewlyBought(clock + 1).state # "yield"
      /\ NewlyBought(clock + 1).createdAt = clock + 1
  BY DEF NewlyBought, Shaped, Fields
<1>3. row'[a] = NewlyBought(clock + 1)
  BY <1>1
<1> QED BY <1>2, <1>3, ShapedIsBought DEF BuyAnimal, Bought, Growing

LEMMA MarksGrow ==
    ASSUME [Next]_vars
    PROVE  clobbered \subseteq clobbered' /\ displaced \subseteq displaced'
<1>1. ASSUME NEW w \in Workers, SaveAnimals(w)
      PROVE  clobbered \subseteq clobbered' /\ displaced \subseteq displaced'
  BY <1>1 DEF SaveAnimals, NoteDisplaced
<1>2. ASSUME NEW q \in Requests, Writes(q)
      PROVE  clobbered \subseteq clobbered' /\ displaced \subseteq displaced'
  BY <1>2 DEF Writes, FeedAnimal, CureAnimal, ThiefAnimalProduct, NotedIf, NoteDisplaced
<1>3. ASSUME NEW a \in Animals, BuyAnimal(a)
      PROVE  clobbered \subseteq clobbered' /\ displaced \subseteq displaced'
  BY <1>3 DEF BuyAnimal
<1> QED BY <1>1, <1>2, <1>3, RowsWritten

----------------------------------------------------------------------------
(* The herd.                                                               *)
LEMMA HerdStep ==
    ASSUME FloorInv, AnimalTypes, HeldRows, HerdInv, [Next]_vars
    PROVE  /\ HerdInv'
           /\ \A a \in Animals : Bought(a) =>
                \A b \in Animals : Earlier(b, a)' <=> Earlier(b, a)
           /\ \A a, b \in Animals : Earlier(b, a) => Bought(a) /\ Bought(b)
<1>1. \A i \in DOMAIN herd : herd[i] \in Animals
  BY DEF AnimalTypes
<1>2. \A a \in Animals : Bought(a) => Bought(a)'
  BY RowFates, PurchaseEffect DEF RowFate
<1>3. CASE UNCHANGED herd
  BY <1>1, <1>2, <1>3 DEF HerdInv, Earlier
<1>4. ASSUME NEW c \in Animals, BuyAnimal(c)
      PROVE  /\ HerdInv'
             /\ \A a \in Animals : Bought(a) =>
                  \A b \in Animals : Earlier(b, a)' <=> Earlier(b, a)
  <2>1. ~Bought(c) /\ Bought(c)' /\ herd' = Append(herd, c)
    BY <1>4, PurchaseEffect
  <2>2. /\ DOMAIN herd' = DOMAIN herd \cup {Len(herd) + 1}
        /\ Len(herd) \in Nat /\ DOMAIN herd = 1 .. Len(herd)
        /\ \A i \in DOMAIN herd : herd'[i] = herd[i]
        /\ herd'[Len(herd) + 1] = c
    BY <2>1
  <2>3. \A i \in DOMAIN herd : herd[i] # c
    BY <2>1 DEF HerdInv
  <2>4. HerdInv'
    BY <1>1, <1>2, <2>1, <2>2, <2>3 DEF HerdInv
  <2>5. ASSUME NEW a \in Animals, Bought(a), NEW b \in Animals
        PROVE  Earlier(b, a)' <=> Earlier(b, a)
    <3>1. a # c
      BY <2>1, <2>5
    <3>2. Earlier(b, a) => Earlier(b, a)'
      BY <2>2 DEF Earlier
    <3>3. ASSUME NEW i \in DOMAIN herd', NEW j \in DOMAIN herd', i < j, herd'[i] = b, herd'[j] = a
          PROVE  Earlier(b, a)
      <4>1. j \in DOMAIN herd
        BY <2>2, <3>1, <3>3
      <4>2. i \in DOMAIN herd
        BY <2>2, <3>3, <4>1
      <4> QED BY <2>2, <3>3, <4>1, <4>2 DEF Earlier
    <3> QED BY <3>2, <3>3 DEF Earlier
  <2> QED BY <2>4, <2>5
<1>5. UNCHANGED herd \/ \E a \in Animals : BuyAnimal(a)
  BY RowsWritten DEF SaveAnimals, Writes, FeedAnimal, CureAnimal, ThiefAnimalProduct, Done
<1>6. \A a, b \in Animals : Earlier(b, a) => Bought(a) /\ Bought(b)
  BY DEF HerdInv, Earlier
<1> QED BY <1>3, <1>4, <1>5, <1>6

(* The animals before a given one neither leave nor enter the listing.     *)
Undisturbed(a) == \A b \in Animals : Earlier(b, a) => (Growing(b) <=> Growing(b)')

LEMMA PlaceStays ==
    ASSUME FloorInv, AnimalTypes, HeldRows, HerdInv, [Next]_vars,
           NEW a \in Animals, Bought(a), Undisturbed(a)
    PROVE  /\ \A t : Place(a, t)' = Place(a, t)
           /\ \A job : Hits(a, job)' <=> Hits(a, job)
<1>1. \A b \in Animals : Earlier(b, a)' <=> Earlier(b, a)
  BY HerdStep
<1>2. \A b \in Animals : Bought(b) => Bought(b)' /\ row'[b].createdAt = row[b].createdAt
  BY RowFates, PurchaseEffect DEF RowFate
<1>3. ASSUME NEW t
      PROVE  {b \in Listed(t)' : Earlier(b, a)'} = {b \in Listed(t) : Earlier(b, a)}
  <2>1. \A b \in Animals : Earlier(b, a) => (b \in Listed(t)' <=> b \in Listed(t))
    BY <1>2, HerdStep DEF Undisturbed, Listed
  <2>2. Listed(t) \subseteq Animals /\ Listed(t)' \subseteq Animals
    BY DEF Listed
  <2> QED BY <1>1, <2>1, <2>2
<1>4. \A t : Place(a, t)' = Place(a, t)
  BY <1>3 DEF Place
<1> QED BY <1>2, <1>4 DEF Hits

----------------------------------------------------------------------------
(* What the scheduler does, to a worker and to the books.                  *)
Pending(w) == At(w, "taken") \/ At(w, "read")

(* The second t is before the last schedule, or before the one that a      *)
(* handler has sent its jobs for and is about to commit.                   *)
Sent(t) ==
    \/ t < lastSchedule
    \/ \E h \in Scheduler!Handlers : phase[h] = "commit" /\ t < utcNow[h]

Quiet ==
    /\ queue' = queue
    /\ \A t \in Int : Sent(t)' => Sent(t)
    /\ uncommitted' = 0 => \A t \in Int : Sent(t) => Sent(t)'

Counted == {"speedUps", "last", "addBulk"}
Onwards(g) == phase[g] \in Counted /\ utcNow'[g] = utcNow[g] /\ count'[g] = count[g]
Counting(g) == phase'[g] \in Counted => Scheduler!CountRows(g) \/ Onwards(g)

Effect ==
    /\ overlapped => overlapped'
    /\ uncommitted' = 0 => uncommitted = 0
    /\ clock <= clock' /\ lastSchedule \in Nat
    /\ ~overlapped' => lastSchedule <= lastSchedule'
    /\ \A g \in Scheduler!Handlers : Counting(g)

LEMMA EndsEffect ==
    ASSUME TickInv, NEW S \in SUBSET Scheduler!Handlers, Scheduler!End(S)
    PROVE  /\ \A g \in S : phase'[g] = "idle"
           /\ \A g \in Scheduler!Handlers \ S :
                phase'[g] = phase[g] /\ utcNow'[g] = utcNow[g] /\ count'[g] = count[g]
BY DEF Scheduler!End

LEMMA LostEffect ==
    ASSUME TickInv, NEW S \in SUBSET Scheduler!Handlers, Scheduler!End(S),
           Scheduler!CountUncommitted(S),
           UNCHANGED <<clock, lastSchedule, queue, overlapped>>
    PROVE  Quiet /\ Effect
<1>1. IsFiniteSet(Scheduler!Handlers)
  BY AnimalAssumption, FS_Product DEF Scheduler!Handlers
<1> DEFINE lost == {h \in S : phase[h] = "commit"}
<1>2. IsFiniteSet(lost) /\ Cardinality(lost) \in Nat
  BY <1>1, FS_Subset, FS_CardinalityType
<1>3. uncommitted' = uncommitted + Cardinality(lost)
  BY DEF Scheduler!CountUncommitted, Cardinality, Scheduler!Cardinality,
         IsFiniteSet, Scheduler!IsFiniteSet
<1>4. uncommitted \in Nat /\ lastSchedule \in Nat /\ clock \in Nat
  BY DEF TickInv, Scheduler!TypeOK
<1>5. uncommitted' = 0 => uncommitted = 0 /\ lost = {}
  <2> HIDE DEF lost
  <2>1. Cardinality(lost) = 0 => lost = {}
    BY <1>2, FS_EmptySet
  <2> QED BY <1>2, <1>3, <1>4, <2>1
<1>6. \A t \in Int : Sent(t)' => Sent(t)
  BY EndsEffect DEF Sent
<1>7. uncommitted' = 0 => \A t \in Int : Sent(t) => Sent(t)'
  BY <1>5, EndsEffect DEF Sent
<1>8. \A g \in Scheduler!Handlers : Counting(g)
  BY EndsEffect DEF Counting, Onwards, Counted
<1> QED BY <1>4, <1>5, <1>6, <1>7, <1>8 DEF Quiet, Effect

(* Steps that touch neither dates nor jobs.                                *)
LEMMA SameBooks ==
    ASSUME TickInv, UNCHANGED <<lastSchedule, queue, phase, utcNow, count, uncommitted>>,
           clock <= clock', overlapped => overlapped'
    PROVE  Quiet /\ Effect
<1>1. lastSchedule \in Nat
  BY DEF TickInv, Scheduler!TypeOK
<1>2. Quiet
  BY DEF Quiet, Sent
<1>3. \A g \in Scheduler!Handlers : Counting(g)
  BY DEF Counting, Onwards
<1> QED BY <1>1, <1>2, <1>3 DEF Effect

(* A handler goes from one of its awaits to the next, short of the commit. *)
LEMMA MoveBooks ==
    ASSUME TickInv, NEW h \in Scheduler!Handlers, NEW next \in Scheduler!Phases,
           phase' = [phase EXCEPT ![h] = next], next # "commit", phase[h] # "commit",
           next \in Counted => Scheduler!CountRows(h) \/ Onwards(h),
           \A g \in Scheduler!Handlers \ {h} : utcNow'[g] = utcNow[g] /\ count'[g] = count[g],
           UNCHANGED <<clock, lastSchedule, queue, uncommitted>>, overlapped => overlapped'
    PROVE  Quiet /\ Effect
<1>1. phase \in [Scheduler!Handlers -> Scheduler!Phases] /\ lastSchedule \in Nat /\ clock \in Nat
  BY DEF TickInv, Scheduler!TypeOK
<1>2. \A t \in Int : Sent(t)' <=> Sent(t)
  BY <1>1 DEF Sent
<1>3. \A g \in Scheduler!Handlers : Counting(g)
  BY <1>1 DEF Counting, Onwards
<1> QED BY <1>1, <1>2, <1>3 DEF Quiet, Effect

LEMMA CommitBooks ==
    ASSUME TickInv, NEW h \in Scheduler!Handlers, Scheduler!CommitSchedule(h)
    PROVE  queue' = queue /\ (~overlapped => Quiet) /\ Effect
<1>1. /\ phase[h] = "commit" /\ Scheduler!End({h}) /\ lastSchedule' = utcNow[h]
      /\ UNCHANGED <<clock, queue, uncommitted, overlapped>>
  BY DEF Scheduler!CommitSchedule, Scheduler!history
<1>2. /\ lastSchedule \in Nat /\ utcNow[h] \in Nat /\ clock \in Nat
      /\ \A g \in Scheduler!Handlers : utcNow[g] \in Nat
  BY DEF TickInv, Scheduler!TypeOK
<1>3. ~overlapped => /\ lastSchedule <= utcNow[h]
                     /\ \A g \in Scheduler!Handlers : phase[g] = "commit" => g = h
  BY <1>1 DEF TickInv, Scheduler!SerialTick, Scheduler!Busy
<1>4. \A g \in Scheduler!Handlers \ {h} : phase'[g] = phase[g] /\ utcNow'[g] = utcNow[g]
                                          /\ count'[g] = count[g]
  BY <1>1, EndsEffect
<1>5. phase'[h] = "idle"
  BY <1>1, EndsEffect
<1>6. \A g \in Scheduler!Handlers : Counting(g)
  BY <1>4, <1>5 DEF Counting, Onwards, Counted
<1>7. ~overlapped => \A t \in Int : Sent(t)' <=> Sent(t)
  BY <1>1, <1>2, <1>3, <1>4, <1>5 DEF Sent
<1> QED BY <1>1, <1>2, <1>3, <1>6, <1>7 DEF Quiet, Effect

LEMMA AddBulkBooks ==
    ASSUME TickInv, NEW h \in Scheduler!Handlers, Scheduler!AddBulk(h)
    PROVE  /\ phase[h] = "addBulk" /\ phase' = [phase EXCEPT ![h] = "commit"]
           /\ queue' = queue \o Scheduler!Batches(count[h], utcNow[h] - date[h],
                                                  found[h], utcNow[h])
           /\ UNCHANGED <<clock, lastSchedule, utcNow, count, overlapped, uncommitted>>
           /\ Effect
<1>1. /\ phase[h] = "addBulk" /\ phase' = [phase EXCEPT ![h] = "commit"]
      /\ queue' = queue \o Scheduler!Batches(count[h], utcNow[h] - date[h],
                                                  found[h], utcNow[h])
      /\ UNCHANGED <<clock, lastSchedule, utcNow, count, overlapped, uncommitted>>
  BY DEF Scheduler!AddBulk, Scheduler!table, Scheduler!locals
<1>2. phase \in [Scheduler!Handlers -> Scheduler!Phases] /\ lastSchedule \in Nat /\ clock \in Nat
  BY DEF TickInv, Scheduler!TypeOK
<1>3. \A g \in Scheduler!Handlers : Counting(g)
  BY <1>1, <1>2 DEF Counting, Onwards, Counted
<1> QED BY <1>1, <1>2, <1>3 DEF Effect

(* Every step is quiet, or sends the jobs of a tick, or takes one.         *)
LEMMA SchedulerEffect ==
    ASSUME TickInv, [Next]_vars
    PROVE  /\ Effect
           /\ \/ queue' = queue /\ (~overlapped' => Quiet)
              \/ \E h \in Scheduler!Handlers :
                    Scheduler!AddBulk(h) /\ UNCHANGED <<animals, accounts>>
              \/ \E w \in Workers : TakeJob(w)
<1> DEFINE Kind ==
           /\ Effect
           /\ \/ queue' = queue /\ (~overlapped' => Quiet)
              \/ \E h \in Scheduler!Handlers :
                    Scheduler!AddBulk(h) /\ UNCHANGED <<animals, accounts>>
              \/ \E w \in Workers : TakeJob(w)
<1>0. clock \in Nat
  BY DEF TickInv, Scheduler!TypeOK
<1>1. ASSUME UNCHANGED scheduler
      PROVE  Kind
  BY <1>0, <1>1, SameBooks DEF scheduler, Quiet
<1>2. ASSUME NEW h \in Scheduler!Handlers, AnimalServiceStep,
             \/ Scheduler!StartHandler(h) \/ Scheduler!CountRows(h)
             \/ Scheduler!FindSpeedUps(h) \/ Scheduler!ReadLastSchedule(h)
             \/ Scheduler!AddBulk(h) \/ Scheduler!CommitSchedule(h)
             \/ Scheduler!FailHandler(h)
      PROVE  Kind
  <2> USE DEF Scheduler!table, Scheduler!locals, Scheduler!history
  <2>0. /\ utcNow \in [Scheduler!Handlers -> Nat]
        /\ count \in [Scheduler!Handlers -> 0 .. Cardinality(Animals)]
    BY DEF TickInv, Scheduler!TypeOK
  <2>1. CASE Scheduler!StartHandler(h)
    <3>1. /\ phase' = [phase EXCEPT ![h] = "count"] /\ phase[h] = "idle"
          /\ utcNow' = [utcNow EXCEPT ![h] = clock] /\ (overlapped => overlapped')
          /\ UNCHANGED <<clock, lastSchedule, queue, count, uncommitted>>
      BY <2>1 DEF Scheduler!StartHandler
    <3>2. "count" \in Scheduler!Phases /\ "count" \notin Counted /\ "count" # "commit"
          /\ phase[h] # "commit"
      BY <3>1 DEF Scheduler!Phases, Counted
    <3>3. \A g \in Scheduler!Handlers \ {h} : utcNow'[g] = utcNow[g] /\ count'[g] = count[g]
      BY <2>0, <3>1
    <3> QED BY <3>1, <3>2, <3>3, MoveBooks DEF Quiet
  <2>2. CASE Scheduler!CountRows(h)
    <3>1. /\ phase' = [phase EXCEPT ![h] = "speedUps"] /\ phase[h] = "count"
          /\ \A g \in Scheduler!Handlers \ {h} : utcNow'[g] = utcNow[g] /\ count'[g] = count[g]
          /\ UNCHANGED <<clock, lastSchedule, queue, uncommitted, overlapped>>
      BY <2>0, <2>2 DEF Scheduler!CountRows
    <3>2. "speedUps" \in Scheduler!Phases /\ "speedUps" # "commit" /\ phase[h] # "commit"
      BY <3>1 DEF Scheduler!Phases
    <3> QED BY <2>2, <3>1, <3>2, MoveBooks DEF Quiet
  <2>3. CASE Scheduler!FindSpeedUps(h)
    <3>1. /\ phase' = [phase EXCEPT ![h] = "last"] /\ phase[h] = "speedUps"
          /\ UNCHANGED <<clock, lastSchedule, queue, utcNow, count, uncommitted, overlapped>>
      BY <2>3 DEF Scheduler!FindSpeedUps
    <3>2. "last" \in Scheduler!Phases /\ "last" # "commit" /\ phase[h] # "commit" /\ Onwards(h)
      BY <3>1 DEF Scheduler!Phases, Onwards, Counted
    <3> QED BY <3>1, <3>2, MoveBooks DEF Quiet
  <2>4. CASE Scheduler!ReadLastSchedule(h)
    <3>1. CASE Scheduler!End({h})
      <4>1. /\ phase[h] = "last"
            /\ UNCHANGED <<clock, lastSchedule, queue, uncommitted, overlapped>>
        BY <2>4 DEF Scheduler!ReadLastSchedule
      <4>2. phase'[h] = "idle" /\ \A g \in Scheduler!Handlers \ {h} :
               phase'[g] = phase[g] /\ utcNow'[g] = utcNow[g] /\ count'[g] = count[g]
        BY <3>1, EndsEffect
      <4>3. /\ phase' = [phase EXCEPT ![h] = "idle"]
            /\ "idle" \in Scheduler!Phases /\ "idle" \notin Counted /\ "idle" # "commit"
            /\ phase[h] # "commit"
        <5>1. phase \in [Scheduler!Handlers -> Scheduler!Phases]
          BY DEF TickInv, Scheduler!TypeOK
        <5> QED BY <3>1, <4>1, <5>1 DEF Scheduler!End, Scheduler!Phases, Counted
      <4> QED BY <4>1, <4>2, <4>3, MoveBooks DEF Quiet
    <3>2. CASE ~Scheduler!End({h})
      <4>1. /\ phase' = [phase EXCEPT ![h] = "addBulk"] /\ phase[h] = "last"
            /\ UNCHANGED <<clock, lastSchedule, queue, utcNow, count, uncommitted, overlapped>>
        BY <2>4, <3>2 DEF Scheduler!ReadLastSchedule
      <4>2. "addBulk" \in Scheduler!Phases /\ "addBulk" # "commit" /\ phase[h] # "commit"
            /\ Onwards(h)
        BY <4>1 DEF Scheduler!Phases, Onwards, Counted
      <4> QED BY <4>1, <4>2, MoveBooks DEF Quiet
    <3> QED BY <3>1, <3>2
  <2>5. CASE Scheduler!AddBulk(h)
    BY <1>2, <2>5, AddBulkBooks DEF AnimalServiceStep
  <2>6. CASE Scheduler!CommitSchedule(h)
    <3>1. overlapped' = overlapped
      BY <2>6 DEF Scheduler!CommitSchedule
    <3> QED BY <2>6, <3>1, CommitBooks
  <2>7. CASE Scheduler!FailHandler(h)
    BY <2>7, LostEffect DEF Quiet, Scheduler!FailHandler
  <2> QED BY <1>2, <2>1, <2>2, <2>3, <2>4, <2>5, <2>6, <2>7
<1>3. ASSUME NEW r \in Replicas, Scheduler!Crash(r)
      PROVE  Kind
  <2>1. {r} \X Slots \in SUBSET Scheduler!Handlers
    BY DEF Scheduler!Handlers
  <2> QED BY <1>3, <2>1, LostEffect DEF Quiet, Scheduler!Crash, Scheduler!table
<1>4. ASSUME \/ \E r \in Replicas : Scheduler!HandleLeaderElected(r) \/ Scheduler!HandleLeaderLost(r)
             \/ \E s \in SpeedUps : Scheduler!InsertSpeedUp(s)
             \/ Scheduler!Second
      PROVE  Kind
  <2>1. /\ UNCHANGED <<lastSchedule, queue, phase, utcNow, count, uncommitted, overlapped>>
        /\ clock <= clock'
    <3> USE DEF Scheduler!table, Scheduler!locals, Scheduler!history
    <3>1. CASE Scheduler!Second
      BY <1>0, <3>1 DEF Scheduler!Second
    <3>2. ASSUME NEW s, Scheduler!InsertSpeedUp(s)
          PROVE  /\ UNCHANGED <<lastSchedule, queue, phase, utcNow, count, uncommitted, overlapped>>
                 /\ clock' = clock
      BY <3>2 DEF Scheduler!InsertSpeedUp
    <3>3. ASSUME NEW r, Scheduler!HandleLeaderElected(r) \/ Scheduler!HandleLeaderLost(r)
          PROVE  /\ UNCHANGED <<lastSchedule, queue, phase, utcNow, count, uncommitted, overlapped>>
                 /\ clock' = clock
      BY <3>3 DEF Scheduler!HandleLeaderElected, Scheduler!HandleLeaderLost
    <3> QED BY <1>0, <1>4, <3>1, <3>2, <3>3
  <2> QED BY <2>1, SameBooks DEF Quiet
<1>5. ASSUME NEW w \in Workers, TakeJob(w)
      PROVE  Kind
  <2>1. UNCHANGED <<clock, lastSchedule, phase, utcNow, count, uncommitted, overlapped>>
    BY <1>5 DEF TakeJob, Scheduler!TakeJob, Scheduler!table, Scheduler!locals, Scheduler!history
  <2>2. \A g \in Scheduler!Handlers : Counting(g)
    BY <2>1 DEF Counting, Onwards
  <2>3. lastSchedule \in Nat
    BY DEF TickInv, Scheduler!TypeOK
  <2>4. Effect
    BY <1>0, <2>1, <2>2, <2>3 DEF Effect
  <2> QED BY <1>5, <2>4
<1>6. \/ UNCHANGED scheduler \/ AnimalServiceStep
      \/ \E w \in Workers : TakeJob(w)
  BY DEF Next, vars, ReadAnimals, SaveAnimals, CompleteJob, FailJob, CrashWorker, BuyAnimal,
         RequestStep, ReadFeedAnimal, ReadCureAnimal, ReadHelpCureAnimal,
         ReadThiefAnimalProduct, Read, FeedAnimal, CureAnimal, ThiefAnimalProduct,
         AbortRequest, Done
<1> HIDE DEF Kind
<1>7. ASSUME AnimalServiceStep
      PROVE  Kind
  BY <1>2, <1>3, <1>4, <1>7 DEF AnimalServiceStep
<1>8. Kind
  BY <1>1, <1>5, <1>6, <1>7
<1> QED BY <1>8 DEF Kind

----------------------------------------------------------------------------
(* Dates and jobs are not of the future, unbought animals were given       *)
(* nothing, a worker holds the rows of its page, and a handler has counted *)
(* every animal that its jobs are to reach.                                *)
DatesInv ==
    \A a \in Animals :
        /\ Bought(a) => row[a].createdAt <= clock + 1
        /\ ~Bought(a) => given[a] = 0
        /\ ~overlapped => origin[a] <= lastSchedule

JobFine(job) == job.utcTime <= clock /\ (~overlapped => job.elapsed >= 0)
JobsInv ==
    /\ \A i \in DOMAIN queue : JobFine(queue[i])
    /\ \A w \in Workers : work[w] # Idle =>
          JobFine(work[w].job) /\ (work[w].again => rerunJobs)

HeldHits ==
    \A w \in Workers : At(w, "read") => \A job \in {work[w].job} :
        /\ \A a \in DOMAIN work[w].held \ displaced : Hits(a, job)
        /\ \A a \in Animals \ (clobbered \cup displaced) :
              Growing(a) /\ Hits(a, job) => a \in DOMAIN work[w].held

CountInv ==
    \A a \in Animals \ (clobbered \cup displaced), h \in Scheduler!Handlers :
        Growing(a) /\ phase[h] \in Counted =>
            \A now \in {utcNow[h]} :
                row[a].createdAt <= now => Place(a, now) < count[h]

PagesInv == HerdInv /\ HeldRows /\ DatesInv /\ JobsInv /\ HeldHits /\ CountInv

----------------------------------------------------------------------------
(* What a worker's step does to its own job.                               *)
LEMMA WorkEffect ==
    ASSUME FloorInv, NEW w \in Workers
    PROVE  /\ TakeJob(w) =>
                /\ work[w] = Idle /\ queue # <<>> /\ queue' = Tail(queue)
                /\ work'[w] = [job |-> Head(queue), stage |-> "taken", held |-> Nothing,
                               again |-> FALSE]
           /\ ReadAnimals(w) =>
                /\ At(w, "taken")
                /\ work'[w] = [job |-> work[w].job, stage |-> "read",
                               held |-> [a \in Page(work[w].job) |-> row[a]],
                               again |-> work[w].again]
           /\ SaveAnimals(w) =>
                /\ At(w, "read")
                /\ work'[w] = [job |-> work[w].job, stage |-> "saved", held |-> Nothing,
                               again |-> work[w].again]
           /\ CompleteJob(w) \/ FailJob(w) => work'[w] = Idle
           /\ CrashWorker(w) =>
                /\ work[w] # Idle
                /\ IF work[w].again THEN work'[w] = Idle
                   ELSE work'[w] = [job |-> work[w].job, stage |-> "taken", held |-> Nothing,
                                    again |-> TRUE]
<1>1. work = [v \in Workers |-> work[v]]
  BY DEF FloorInv
<1>2. work[w] # Idle =>
        work[w] = [f \in {"job", "stage", "held", "again"} |-> work[w][f]]
  BY DEF FloorInv, HeldKept
<1>3. TakeJob(w) =>
        /\ work[w] = Idle /\ queue # <<>> /\ queue' = Tail(queue)
        /\ work'[w] = [job |-> Head(queue), stage |-> "taken", held |-> Nothing,
                       again |-> FALSE]
  BY <1>1 DEF TakeJob, Scheduler!TakeJob
<1>4. ReadAnimals(w) =>
        /\ At(w, "taken")
        /\ work'[w] = [job |-> work[w].job, stage |-> "read",
                       held |-> [a \in Page(work[w].job) |-> row[a]],
                       again |-> work[w].again]
  BY <1>1, <1>2 DEF ReadAnimals, At
<1>5. SaveAnimals(w) =>
        /\ At(w, "read")
        /\ work'[w] = [job |-> work[w].job, stage |-> "saved", held |-> Nothing,
                       again |-> work[w].again]
  <2> SUFFICES ASSUME SaveAnimals(w)
               PROVE  /\ At(w, "read")
                      /\ work'[w] = [job |-> work[w].job, stage |-> "saved", held |-> Nothing,
                                     again |-> work[w].again]
    OBVIOUS
  <2>1. At(w, "read") /\ work' = [work EXCEPT ![w].stage = "saved", ![w].held = Nothing]
    BY DEF SaveAnimals
  <2> QED BY <1>1, <1>2, <2>1 DEF At
<1>6. CompleteJob(w) \/ FailJob(w) => work'[w] = Idle
  BY <1>1 DEF CompleteJob, FailJob
<1>7. CrashWorker(w) =>
        /\ work[w] # Idle
        /\ IF work[w].again THEN work'[w] = Idle
           ELSE work'[w] = [job |-> work[w].job, stage |-> "taken", held |-> Nothing,
                            again |-> TRUE]
  BY <1>1, <1>2 DEF CrashWorker
<1> QED BY <1>3, <1>4, <1>5, <1>6, <1>7

LEMMA WorkMoves ==
    ASSUME FloorInv, [Next]_vars, NEW v \in Workers
    PROVE  \/ work'[v] = work[v]
           \/ TakeJob(v) \/ ReadAnimals(v) \/ SaveAnimals(v)
           \/ CompleteJob(v) \/ FailJob(v) \/ CrashWorker(v)
<1>1. work = [w \in Workers |-> work[w]]
  BY DEF FloorInv
<1>2. ASSUME NEW w \in Workers,
             \/ TakeJob(w) \/ ReadAnimals(w) \/ SaveAnimals(w)
             \/ CompleteJob(w) \/ FailJob(w) \/ CrashWorker(w)
      PROVE  v # w => work'[v] = work[v]
  BY <1>1, <1>2 DEF TakeJob, ReadAnimals, SaveAnimals, CompleteJob, FailJob, CrashWorker
<1>3. ASSUME AnimalServiceStep \/ UNCHANGED vars
             \/ (\E a \in Animals : BuyAnimal(a)) \/ (\E q \in Requests : RequestStep(q))
      PROVE  work' = work
  BY <1>3 DEF AnimalServiceStep, vars, animals, BuyAnimal, RequestStep,
              ReadFeedAnimal, ReadCureAnimal, ReadHelpCureAnimal, ReadThiefAnimalProduct, Read,
              FeedAnimal, CureAnimal, ThiefAnimalProduct, AbortRequest, Done
<1> QED BY <1>2, <1>3 DEF Next

(* Where a job that is not saved yet comes from.                           *)
LEMMA PendingMoves ==
    ASSUME FloorInv, [Next]_vars, NEW v \in Workers
    PROVE  /\ At(v, "read")' => work'[v] = work[v] \/ ReadAnimals(v)
           /\ Pending(v)' => \/ TakeJob(v)
                             \/ Pending(v) /\ work'[v].job = work[v].job
                             \/ CrashWorker(v) /\ ~work[v].again
<1>1. CASE work'[v] = work[v]
  BY <1>1 DEF At, Pending
<1>2. CASE ReadAnimals(v)
  <2>1. /\ At(v, "taken")
        /\ work'[v] = [job |-> work[v].job, stage |-> "read",
                       held |-> [a \in Page(work[v].job) |-> row[a]], again |-> work[v].again]
    BY <1>2, WorkEffect
  <2> QED BY <1>2, <2>1 DEF Pending
<1>3. CASE TakeJob(v)
  <2>1. work'[v] = [job |-> Head(queue), stage |-> "taken", held |-> Nothing, again |-> FALSE]
    BY <1>3, WorkEffect
  <2> QED BY <1>3, <2>1 DEF At
<1>4. CASE SaveAnimals(v)
  <2>1. work'[v] = [job |-> work[v].job, stage |-> "saved", held |-> Nothing,
                    again |-> work[v].again]
    BY <1>4, WorkEffect
  <2> QED BY <2>1 DEF At, Pending
<1>5. CASE CompleteJob(v) \/ FailJob(v)
  <2>1. work'[v] = Idle
    BY <1>5, WorkEffect
  <2> QED BY <2>1 DEF At, Pending
<1>6. CASE CrashWorker(v)
  <2>1. CASE work[v].again
    <3>1. work'[v] = Idle
      BY <1>6, <2>1, WorkEffect
    <3> QED BY <3>1 DEF At, Pending
  <2>2. CASE ~work[v].again
    <3>1. work'[v] = [job |-> work[v].job, stage |-> "taken", held |-> Nothing, again |-> TRUE]
      BY <1>6, <2>2, WorkEffect
    <3> QED BY <1>6, <2>2, <3>1 DEF At
  <2> QED BY <2>1, <2>2
<1> QED BY <1>1, <1>2, <1>3, <1>4, <1>5, <1>6, WorkMoves

(* Once bought an animal stays, with its date, and comes back to the       *)
(* listing only through a write from an outdated read.                     *)
LEMMA GrewOn ==
    ASSUME FloorInv, AnimalTypes, HeldRows, [Next]_vars,
           NEW a \in Animals, Bought(a)
    PROVE  /\ Bought(a)' /\ row'[a].createdAt = row[a].createdAt
           /\ Growing(a)' /\ a \notin clobbered' => Growing(a)
<1>1. ~BuyAnimal(a)
  BY DEF BuyAnimal
<1> QED BY <1>1, RowFates DEF RowFate

LEMMA Steady ==
    ASSUME FloorInv, AnimalTypes, HeldRows, HerdInv, [Next]_vars,
           NEW a \in Animals, Bought(a), a \notin displaced'
    PROVE  /\ Undisturbed(a) \/ (queue' = <<>> /\ \A w \in Workers : ~Pending(w)')
           /\ (\E h \in Scheduler!Handlers : Scheduler!Busy(h)) =>
                \A t : Place(a, t)' <= Place(a, t)
<1> DEFINE Noted(b, others) ==
        \/ queue # <<>> \/ Unsaved(others) # {}
        \/ ~Growing(b) /\ \E h \in Scheduler!Handlers : Scheduler!Busy(h)
<1>1. ASSUME NEW others, NoteDisplaced(others), NEW b \in Animals, Earlier(b, a),
             Growing(b) # Growing(b)'
      PROVE  ~Noted(b, others)
  BY <1>1 DEF NoteDisplaced
<1>2. ASSUME NEW b \in Animals, Earlier(b, a), Growing(b) # Growing(b)'
      PROVE  /\ queue' = <<>> /\ \A w \in Workers : ~Pending(w)'
             /\ Growing(b) \/ ~\E h \in Scheduler!Handlers : Scheduler!Busy(h)
  <2>1. Bought(b) /\ row'[b] # row[b]
    BY <1>2, HerdStep DEF Growing, Bought
  <2>2. ASSUME NEW w \in Workers, SaveAnimals(w)
        PROVE  /\ queue' = <<>> /\ \A v \in Workers : ~Pending(v)'
               /\ Growing(b) \/ ~\E h \in Scheduler!Handlers : Scheduler!Busy(h)
    <3>1. ~Noted(b, Workers \ {w})
      BY <1>1, <1>2, <2>2 DEF SaveAnimals
    <3>2. queue' = queue
      BY <2>2 DEF SaveAnimals, scheduler
    <3>3. \A v \in Workers \ {w} : work'[v] = work[v]
      BY <2>2 DEF SaveAnimals, FloorInv
    <3>4. work'[w].stage = "saved"
      <4>1. work'[w] = [job |-> work[w].job, stage |-> "saved", held |-> Nothing,
                        again |-> work[w].again]
        BY <2>2, WorkEffect
      <4> QED BY <4>1
    <3>5. \A v \in Workers : ~Pending(v)'
      BY <3>1, <3>3, <3>4 DEF Pending, At, Unsaved
    <3> QED BY <3>1, <3>2, <3>5
  <2>3. ASSUME NEW q \in Requests, Writes(q)
        PROVE  /\ queue' = <<>> /\ \A v \in Workers : ~Pending(v)'
               /\ Growing(b) \/ ~\E h \in Scheduler!Handlers : Scheduler!Busy(h)
    <3>1. ~Noted(b, Workers)
      BY <1>1, <1>2, <2>3 DEF Writes, FeedAnimal, CureAnimal, ThiefAnimalProduct, NotedIf
    <3>2. queue' = queue /\ work' = work
      BY <2>3 DEF Writes, FeedAnimal, CureAnimal, ThiefAnimalProduct, Done, scheduler
    <3> QED BY <3>1, <3>2 DEF Pending, At, Unsaved
  <2>4. ASSUME NEW c \in Animals, BuyAnimal(c)
        PROVE  FALSE
    BY <2>1, <2>4 DEF BuyAnimal, FloorInv
  <2> QED BY <2>1, <2>2, <2>3, <2>4, RowsWritten
<1> HIDE DEF Noted
<1>3. Undisturbed(a) \/ (queue' = <<>> /\ \A w \in Workers : ~Pending(w)')
  BY <1>2 DEF Undisturbed
<1>4. ASSUME \E h \in Scheduler!Handlers : Scheduler!Busy(h), NEW t
      PROVE  Place(a, t)' <= Place(a, t)
  <2>1. \A b \in Animals : Earlier(b, a)' <=> Earlier(b, a)
    BY HerdStep
  <2>2. ASSUME NEW b \in Listed(t)', Earlier(b, a)'
        PROVE  b \in Listed(t) /\ Earlier(b, a)
    <3>1. b \in Animals /\ Growing(b)' /\ row'[b].createdAt <= t
      BY <2>2 DEF Listed
    <3>2. Earlier(b, a)
      BY <2>1, <2>2, <3>1
    <3>3. Growing(b)
      BY <1>2, <1>4, <3>1, <3>2
    <3>4. row'[b].createdAt = row[b].createdAt
      BY <3>1, <3>3, GrewOn DEF Growing
    <3> QED BY <3>1, <3>2, <3>3, <3>4 DEF Listed
  <2> DEFINE before == {b \in Listed(t) : Earlier(b, a)}
             after == {b \in Listed(t)' : Earlier(b, a)'}
  <2>3. after \subseteq before
    BY <2>2
  <2>4. IsFiniteSet(before)
    BY PlaceType
  <2>5. Cardinality(after) <= Cardinality(before)
    <3> HIDE DEF after, before
    <3> QED BY <2>3, <2>4, FS_Subset
  <2> QED BY <2>5 DEF Place
<1> QED BY <1>3, <1>4

(* While jobs are on their way, an undisplaced animal is hit by the same   *)
(* ones after a step as before.                                            *)
LEMMA HitsStay ==
    ASSUME FloorInv, AnimalTypes, HeldRows, HerdInv, [Next]_vars,
           NEW a \in Animals, Bought(a), a \notin displaced',
           queue' # <<>> \/ \E w \in Workers : Pending(w)'
    PROVE  \A job : Hits(a, job)' <=> Hits(a, job)
BY Steady, PlaceStays

----------------------------------------------------------------------------
(* The jobs a tick sends join the end of the queue; they carry the times   *)
(* of their handler, together reach every animal it counted, and no animal *)
(* twice as long as it counted at most two batches.                        *)
LEMMA TickJobs ==
    ASSUME TickInv, NEW h \in Scheduler!Handlers, Scheduler!AddBulk(h)
    PROVE  LET jobs == Scheduler!Batches(count[h], utcNow[h] - date[h], found[h], utcNow[h])
           IN  /\ \A i \in DOMAIN queue : i \in DOMAIN queue' /\ queue'[i] = queue[i]
               /\ \A i \in DOMAIN queue' \ DOMAIN queue :
                    i - Len(queue) \in DOMAIN jobs /\ queue'[i] = jobs[i - Len(queue)]
               /\ \A j \in DOMAIN jobs :
                    /\ Len(queue) + j \in DOMAIN queue' /\ queue'[Len(queue) + j] = jobs[j]
                    /\ jobs[j].utcTime = utcNow[h] /\ jobs[j].elapsed = utcNow[h] - date[h]
               /\ \A p \in 0 .. count[h] - 1 : \E j \in DOMAIN jobs :
                    p \in jobs[j].skip .. jobs[j].skip + jobs[j].take - 1
               /\ count[h] <= 2 * BatchSize => \A i, j \in DOMAIN jobs : i # j =>
                    \A p : ~ /\ p \in jobs[i].skip .. jobs[i].skip + jobs[i].take - 1
                             /\ p \in jobs[j].skip .. jobs[j].skip + jobs[j].take - 1
<1> DEFINE jobs == Scheduler!Batches(count[h], utcNow[h] - date[h], found[h], utcNow[h])
           n == count[h]
           last == Scheduler!BatchCount(n)
<1>1. /\ n \in Nat /\ utcNow[h] - date[h] \in Int /\ found[h] \in SUBSET SpeedUps
      /\ utcNow[h] \in Nat /\ queue \in Seq(Scheduler!Job)
  <2>1. Cardinality(Animals) \in Nat
    BY AnimalAssumption, FS_CardinalityType
  <2>2. n \in 0 .. Cardinality(Animals)
    BY DEF TickInv, Scheduler!TypeOK
  <2> QED BY <2>1, <2>2 DEF TickInv, Scheduler!TypeOK
<1>2. queue' = queue \o jobs
  BY AddBulkBooks
<1>3. /\ last \in Nat /\ (last - 1) * BatchSize < n
  <2>1. /\ Tick!BatchCount(n) \in Nat
        /\ (Tick!BatchCount(n) - 1) * BatchSize < n
    BY <1>1, TickConstants, Tick!BatchCountNat
       DEF Tick!ConstantsAssumption
  <2> QED BY <2>1 DEF Scheduler!BatchCount, Tick!BatchCount
<1>4. jobs = Tick!Batches(n, utcNow[h] - date[h], found[h], utcNow[h])
  BY DEF Scheduler!Batches, Tick!Batches, Scheduler!BatchCount, Tick!BatchCount,
         Scheduler!Min2, Tick!Min2
<1>5. jobs \in Seq(Scheduler!Job) /\ Len(jobs) \in Nat /\ DOMAIN jobs = 1 .. Len(jobs)
  <2>1. jobs \in Seq(Tick!Job)
    BY <1>1, <1>4, TickConstants, Tick!BatchesType DEF Tick!ConstantsAssumption
  <2>2. Tick!Job = Scheduler!Job
    BY DEF Tick!Job, Scheduler!Job
  <2> HIDE DEF jobs
  <2> QED BY <2>1, <2>2
<1>6. \A p \in 0 .. n - 1 : \E j \in DOMAIN jobs :
         jobs[j].skip <= p /\ p < jobs[j].skip + jobs[j].take
  BY <1>1, <1>4, TickConstants, Tick!BatchesCoverRows DEF Tick!ConstantsAssumption
<1>7. \A j \in DOMAIN jobs :
        /\ jobs[j].utcTime = utcNow[h] /\ jobs[j].elapsed = utcNow[h] - date[h]
        /\ jobs[j].skip = (j - 1) * BatchSize
        /\ jobs[j].take = Scheduler!Min2(j * BatchSize, n)
        /\ j \in 1 .. last
  BY DEF Scheduler!Batches
<1> HIDE DEF jobs, n, last
<1>8. \A j \in DOMAIN jobs : jobs[j] \in Scheduler!Job
  BY <1>5
<1>9. \A p \in 0 .. n - 1 : \E j \in DOMAIN jobs :
         p \in jobs[j].skip .. jobs[j].skip + jobs[j].take - 1
  BY <1>6, <1>8 DEF Scheduler!Job
<1>10. BatchSize \in Nat \ {0}
  BY AnimalAssumption
<1>11. ASSUME n <= 2 * BatchSize, NEW i \in DOMAIN jobs, NEW j \in DOMAIN jobs, i < j, NEW p,
              p \in jobs[i].skip .. jobs[i].skip + jobs[i].take - 1,
              p \in jobs[j].skip .. jobs[j].skip + jobs[j].take - 1
       PROVE  FALSE
  <2>1. last <= 2
    <3>1. last >= 3 => (last - 1) * BatchSize >= 2 * BatchSize
      BY <1>3, <1>10, SMT
    <3> QED BY <1>1, <1>3, <1>10, <1>11, <3>1, SMT
  <2>2. i = 1 /\ j = 2
    BY <1>3, <1>7, <1>11, <2>1
  <2>3. jobs[1].skip = 0 /\ jobs[1].take <= BatchSize /\ jobs[2].skip = BatchSize
        /\ jobs[1].take \in Int /\ jobs[2].take \in Int
    <3>1. 1 \in DOMAIN jobs /\ 2 \in DOMAIN jobs
      BY <1>11, <2>2
    <3>2. jobs[1].take \in Int /\ jobs[2].take \in Int
      BY <1>8, <3>1 DEF Scheduler!Job
    <3>3. jobs[1].skip = (1 - 1) * BatchSize /\ jobs[2].skip = (2 - 1) * BatchSize
          /\ jobs[1].take = Scheduler!Min2(1 * BatchSize, n)
      BY <1>7, <3>1
    <3>4. (1 - 1) * BatchSize = 0 /\ (2 - 1) * BatchSize = BatchSize /\ 1 * BatchSize = BatchSize
      BY <1>10
    <3> QED BY <1>1, <1>10, <3>2, <3>3, <3>4 DEF Scheduler!Min2
  <2>4. p \in 0 .. jobs[1].take - 1 /\ p \in BatchSize .. BatchSize + jobs[2].take - 1
    BY <1>11, <2>2, <2>3
  <2> QED BY <1>10, <2>3, <2>4, SMT
<1>12. n <= 2 * BatchSize => \A i, j \in DOMAIN jobs : i # j =>
         \A p : ~ /\ p \in jobs[i].skip .. jobs[i].skip + jobs[i].take - 1
                  /\ p \in jobs[j].skip .. jobs[j].skip + jobs[j].take - 1
  <2>1. \A i, j \in DOMAIN jobs : i # j => i < j \/ j < i
    BY <1>5
  <2> QED BY <1>11, <2>1
<1>13. /\ \A i \in DOMAIN queue : i \in DOMAIN queue' /\ queue'[i] = queue[i]
       /\ \A i \in DOMAIN queue' \ DOMAIN queue :
            i - Len(queue) \in DOMAIN jobs /\ queue'[i] = jobs[i - Len(queue)]
       /\ \A j \in DOMAIN jobs :
            Len(queue) + j \in DOMAIN queue' /\ queue'[Len(queue) + j] = jobs[j]
  BY <1>1, <1>2, <1>5
<1> QED BY <1>7, <1>9, <1>12, <1>13 DEF jobs, n

----------------------------------------------------------------------------
LEMMA HeldRowsStep ==
    ASSUME FloorInv, AnimalTypes, HeldRows, [Next]_vars
    PROVE  HeldRows'
<1> SUFFICES ASSUME NEW v \in Workers, At(v, "read")', NEW a \in DOMAIN work'[v].held
             PROVE  Bought(a)' /\ work'[v].held[a].createdAt = row'[a].createdAt
  BY DEF HeldRows
<1>1. CASE work'[v] = work[v]
  <2>1. At(v, "read") /\ a \in DOMAIN work[v].held
    BY <1>1 DEF At
  <2>2. Bought(a) /\ work[v].held[a].createdAt = row[a].createdAt
    BY <2>1 DEF HeldRows
  <2>3. a \in Animals
    <3>1. work[v] \in JobAtWork
      BY <2>1 DEF At, AnimalTypes, WorkTypes
    <3> QED BY <2>1, <3>1 DEF JobAtWork
  <2> QED BY <1>1, <2>2, <2>3, GrewOn
<1>2. CASE ReadAnimals(v)
  <2>1. /\ work'[v] = [job |-> work[v].job, stage |-> "read",
                       held |-> [b \in Page(work[v].job) |-> row[b]], again |-> work[v].again]
        /\ row' = row
    BY <1>2, WorkEffect DEF ReadAnimals
  <2>2. a \in Page(work[v].job) /\ work'[v].held[a] = row[a]
    BY <2>1
  <2> QED BY <2>1, <2>2 DEF Page, Growing, Bought
<1> QED BY <1>1, <1>2, PendingMoves

(* Who is given time, and when.                                            *)
LEMMA GivenEffect ==
    ASSUME AnimalTypes, FloorInv, [Next]_vars, NEW a \in Animals
    PROVE  /\ \/ given'[a] = given[a]
              \/ \E w \in Workers : SaveAnimals(w) /\ a \in DOMAIN work[w].held
           /\ \A w \in Workers : SaveAnimals(w) =>
                given'[a] = IF a \in DOMAIN work[w].held
                            THEN given[a] + work[w].job.elapsed ELSE given[a]
<1>1. \A w \in Workers : SaveAnimals(w) =>
        given'[a] = IF a \in DOMAIN work[w].held
                    THEN given[a] + work[w].job.elapsed ELSE given[a]
  BY DEF SaveAnimals
<1>2. given' = given \/ \E w \in Workers : SaveAnimals(w)
  BY DEF Next, vars, AnimalServiceStep, accounts, TakeJob, ReadAnimals, CompleteJob, FailJob,
         CrashWorker, BuyAnimal, RequestStep, ReadFeedAnimal, ReadCureAnimal,
         ReadHelpCureAnimal, ReadThiefAnimalProduct, Read, FeedAnimal, CureAnimal,
         ThiefAnimalProduct, AbortRequest, Done
<1> QED BY <1>1, <1>2

LEMMA OriginEffect ==
    ASSUME [Next]_vars
    PROVE  origin' = origin \/ \E a \in Animals : BuyAnimal(a)
BY DEF Next, vars, AnimalServiceStep, accounts, TakeJob, ReadAnimals, SaveAnimals, CompleteJob,
       FailJob, CrashWorker, RequestStep, ReadFeedAnimal, ReadCureAnimal,
       ReadHelpCureAnimal, ReadThiefAnimalProduct, Read, FeedAnimal, CureAnimal,
       ThiefAnimalProduct, AbortRequest, Done

LEMMA DatesStep ==
    ASSUME TickInv, TickInv', FloorInv, AnimalTypes, HeldRows, DatesInv, [Next]_vars
    PROVE  DatesInv'
<1> SUFFICES ASSUME NEW a \in Animals
             PROVE  /\ Bought(a)' => row'[a].createdAt <= clock' + 1
                    /\ ~Bought(a)' => given'[a] = 0
                    /\ ~overlapped' => origin'[a] <= lastSchedule'
  BY DEF DatesInv
<1>1. /\ clock <= clock' /\ (overlapped => overlapped')
      /\ ~overlapped' => lastSchedule <= lastSchedule'
  BY SchedulerEffect DEF Effect
<1>2. clock \in Nat /\ clock' \in Nat /\ lastSchedule \in Nat /\ lastSchedule' \in Nat
  BY DEF TickInv, Scheduler!TypeOK
<1>3. CASE BuyAnimal(a)
  <2>1. /\ Bought(a)' /\ row'[a].createdAt = clock + 1
        /\ origin' = [origin EXCEPT ![a] = lastSchedule]
    BY <1>3, PurchaseEffect
  <2>2. origin'[a] = lastSchedule
    BY <2>1 DEF AnimalTypes, HistoryTypes
  <2>3. clock + 1 <= clock' + 1
    <3>1. clock <= clock'
      BY <1>1
    <3>2. \A m, n \in Nat : m <= n => m + 1 <= n + 1
      OBVIOUS
    <3> QED BY <1>2, <3>1, <3>2, Zenon
  <2>4. ASSUME ~overlapped'
        PROVE  origin'[a] <= lastSchedule'
    <3>1. lastSchedule <= lastSchedule'
      BY <1>1, <2>4
    <3> QED BY <2>2, <3>1
  <2> QED BY <2>1, <2>3, <2>4
<1>4. CASE ~BuyAnimal(a)
  <2>1. Bought(a)' => row'[a].createdAt <= clock' + 1
    <3>1. ASSUME Bought(a)'
          PROVE  Bought(a)
      BY <1>4, <3>1, RowFates DEF RowFate, Bought
    <3>2. ASSUME Bought(a)
          PROVE  row'[a].createdAt <= clock' + 1
      <4>1. row'[a].createdAt = row[a].createdAt
        BY <3>2, GrewOn
      <4>2. row[a].createdAt <= clock + 1
        BY <3>2 DEF DatesInv
      <4>3. row[a].createdAt \in Nat
        BY <3>2 DEF AnimalTypes, RowTypes, AnimalInfo, Bought
      <4> QED BY <1>1, <1>2, <4>1, <4>2, <4>3
    <3> QED BY <3>1, <3>2
  <2>2. ASSUME ~Bought(a)'
        PROVE  given'[a] = 0
    <3>1. ~Bought(a)
      BY <2>2, GrewOn
    <3>2. \A w \in Workers : SaveAnimals(w) => a \notin DOMAIN work[w].held
      BY <3>1 DEF SaveAnimals, HeldRows
    <3> QED BY <3>1, <3>2, GivenEffect DEF DatesInv
  <2>3. ASSUME ~overlapped'
        PROVE  origin'[a] <= lastSchedule'
    <3>1. origin'[a] = origin[a]
      <4>1. ASSUME NEW b \in Animals, BuyAnimal(b)
            PROVE  origin'[a] = origin[a]
        <5>1. origin' = [origin EXCEPT ![b] = lastSchedule] /\ b # a
          BY <1>4, <4>1 DEF BuyAnimal
        <5> QED BY <5>1 DEF AnimalTypes, HistoryTypes
      <4> QED BY <4>1, OriginEffect
    <3>2. origin[a] <= lastSchedule /\ origin[a] \in Nat
      BY <1>1, <2>3 DEF DatesInv, AnimalTypes, HistoryTypes
    <3> QED BY <1>1, <1>2, <2>3, <3>1, <3>2
  <2> QED BY <2>1, <2>2, <2>3
<1> QED BY <1>3, <1>4

(* What was lost or repeated stays on record.                              *)
LEMMA RerunKept ==
    ASSUME [Next]_vars
    PROVE  (rerunJobs => rerunJobs') /\ (lostJobs => lostJobs')
<1>1. ASSUME NEW w \in Workers,
             \/ TakeJob(w) \/ ReadAnimals(w) \/ SaveAnimals(w)
             \/ CompleteJob(w) \/ FailJob(w) \/ CrashWorker(w)
      PROVE  (rerunJobs => rerunJobs') /\ (lostJobs => lostJobs')
  <2>1. CASE TakeJob(w) \/ ReadAnimals(w) \/ SaveAnimals(w) \/ CompleteJob(w)
    BY <2>1 DEF TakeJob, ReadAnimals, SaveAnimals, CompleteJob, accounts
  <2>2. CASE FailJob(w)
    BY <2>2 DEF FailJob
  <2>3. CASE CrashWorker(w)
    <3>1. /\ lostJobs' = (lostJobs \/ (work[w].again /\ work[w].stage # "saved"))
          /\ rerunJobs' = (rerunJobs \/ ~work[w].again)
      BY <2>3 DEF CrashWorker
    <3> QED BY <3>1, Zenon
  <2> QED BY <1>1, <2>1, <2>2, <2>3
<1>2. ASSUME AnimalServiceStep \/ UNCHANGED vars
             \/ (\E a \in Animals : BuyAnimal(a)) \/ (\E q \in Requests : RequestStep(q))
      PROVE  rerunJobs' = rerunJobs /\ lostJobs' = lostJobs
  BY <1>2 DEF AnimalServiceStep, vars, accounts, BuyAnimal, RequestStep,
              ReadFeedAnimal, ReadCureAnimal, ReadHelpCureAnimal, ReadThiefAnimalProduct, Read,
              FeedAnimal, CureAnimal, ThiefAnimalProduct, AbortRequest, Done
<1> QED BY <1>1, <1>2 DEF Next

(* Where the job of a worker comes from.                                   *)
LEMMA JobMoves ==
    ASSUME FloorInv, [Next]_vars, NEW v \in Workers, work'[v] # Idle
    PROVE  \/ TakeJob(v)
           \/ /\ work[v] # Idle /\ work'[v].job = work[v].job
              /\ \/ work'[v].again = work[v].again
                 \/ CrashWorker(v) /\ ~work[v].again /\ rerunJobs'
<1>1. CASE work'[v] = work[v]
  BY <1>1
<1>2. CASE ReadAnimals(v)
  <2>1. /\ At(v, "taken")
        /\ work'[v] = [job |-> work[v].job, stage |-> "read",
                       held |-> [a \in Page(work[v].job) |-> row[a]], again |-> work[v].again]
    BY <1>2, WorkEffect
  <2> QED BY <2>1 DEF At
<1>3. CASE SaveAnimals(v)
  <2>1. /\ At(v, "read")
        /\ work'[v] = [job |-> work[v].job, stage |-> "saved", held |-> Nothing,
                       again |-> work[v].again]
    BY <1>3, WorkEffect
  <2> QED BY <2>1 DEF At
<1>4. CASE CompleteJob(v) \/ FailJob(v)
  BY <1>4, WorkEffect
<1>5. CASE CrashWorker(v)
  <2>1. /\ work[v] # Idle /\ ~work[v].again
        /\ work'[v] = [job |-> work[v].job, stage |-> "taken", held |-> Nothing,
                       again |-> TRUE]
    BY <1>5, WorkEffect
  <2>2. work'[v].job = work[v].job
    BY <2>1
  <2>3. rerunJobs'
    BY <1>5, <2>1 DEF CrashWorker
  <2> QED BY <1>5, <2>1, <2>2, <2>3
<1> QED BY <1>1, <1>2, <1>3, <1>4, <1>5, WorkMoves

LEMMA JobsStep ==
    ASSUME TickInv, TickInv', FloorInv, AnimalTypes, JobsInv, [Next]_vars
    PROVE  JobsInv'
<1>1. clock <= clock' /\ (overlapped => overlapped') /\ clock \in Nat /\ clock' \in Nat
  BY SchedulerEffect DEF Effect, TickInv, Scheduler!TypeOK
<1>2. queue \in Seq(Scheduler!Job) /\ queue' \in Seq(Scheduler!Job)
  BY DEF TickInv, Scheduler!TypeOK
<1>3. \A j \in DOMAIN queue : queue[j].utcTime <= clock'
  <2> SUFFICES ASSUME NEW j \in DOMAIN queue
               PROVE  queue[j].utcTime <= clock'
    OBVIOUS
  <2>1. queue[j].utcTime <= clock
    BY DEF JobsInv, JobFine
  <2>2. queue[j] \in Scheduler!Job
    BY <1>2
  <2>3. queue[j].utcTime \in Nat
    BY <2>2 DEF Scheduler!Job
  <2> QED BY <1>1, <2>1, <2>3
<1>4. ASSUME NEW i \in DOMAIN queue'
      PROVE  queue'[i].utcTime <= clock' /\ (~overlapped' => queue'[i].elapsed >= 0)
  <2>1. ~overlapped' => queue'[i].elapsed >= 0
    BY DEF TickInv, Scheduler!ElapsedNotNegative
  <2>2. CASE queue' = queue
    BY <1>3, <2>1, <2>2
  <2>3. ASSUME NEW w \in Workers, TakeJob(w)
        PROVE  queue'[i].utcTime <= clock'
    <3>1. queue # <<>> /\ queue' = Tail(queue)
      BY <2>3, WorkEffect
    <3>2. i + 1 \in DOMAIN queue /\ queue'[i] = queue[i + 1]
      BY <1>2, <3>1
    <3> QED BY <1>3, <3>2
  <2>4. ASSUME NEW h \in Scheduler!Handlers, Scheduler!AddBulk(h)
        PROVE  queue'[i].utcTime <= clock'
    <3>1. clock' = clock
      BY <2>4, AddBulkBooks
    <3>2. utcNow[h] <= clock
      BY DEF TickInv, Scheduler!SerialTick
    <3>3. queue'[i].utcTime = utcNow[h] \/ (i \in DOMAIN queue /\ queue'[i] = queue[i])
      BY <2>4, TickJobs
    <3> QED BY <1>3, <3>1, <3>2, <3>3
  <2> QED BY <2>1, <2>2, <2>3, <2>4, SchedulerEffect
<1>5. ASSUME NEW v \in Workers, work'[v] # Idle
      PROVE  /\ work'[v].job.utcTime <= clock' /\ (~overlapped' => work'[v].job.elapsed >= 0)
             /\ work'[v].again => rerunJobs'
  <2>1. CASE /\ work[v] # Idle /\ work'[v].job = work[v].job
             /\ work'[v].again = work[v].again \/ rerunJobs'
    <3>1. JobFine(work[v].job) /\ work[v].job \in Scheduler!Job
      <4>1. work[v] \in JobAtWork
        BY <2>1 DEF AnimalTypes, WorkTypes
      <4> QED BY <2>1, <4>1 DEF JobsInv, JobAtWork
    <3>2. work[v].job.utcTime \in Nat
      BY <3>1 DEF Scheduler!Job
    <3>3. work[v].job.utcTime <= clock' /\ (~overlapped' => work[v].job.elapsed >= 0)
      BY <1>1, <3>1, <3>2 DEF JobFine
    <3>4. work[v].again => rerunJobs
      BY <2>1 DEF JobsInv
    <3>5. work'[v].again => rerunJobs'
      BY <2>1, <3>4, RerunKept
    <3> QED BY <2>1, <3>3, <3>5
  <2>2. CASE TakeJob(v)
    <3>1. /\ queue # <<>>
          /\ work'[v] = [job |-> Head(queue), stage |-> "taken", held |-> Nothing, again |-> FALSE]
      BY <2>2, WorkEffect
    <3>2. /\ work'[v].job = Head(queue) /\ ~work'[v].again
      BY <3>1
    <3>3. 1 \in DOMAIN queue /\ Head(queue) = queue[1]
      BY <1>2, <3>1
    <3>4. ~overlapped' => queue[1].elapsed >= 0
      BY <1>1, <3>3 DEF TickInv, Scheduler!ElapsedNotNegative
    <3> QED BY <1>3, <3>2, <3>3, <3>4
  <2> QED BY <1>5, <2>1, <2>2, JobMoves
<1> QED BY <1>4, <1>5 DEF JobsInv, JobFine

----------------------------------------------------------------------------
LEMMA HeldHitsStep ==
    ASSUME TickInv, FloorInv, AnimalTypes, HerdInv, HeldRows, JobsInv, HeldHits, [Next]_vars
    PROVE  HeldHits'
<1> SUFFICES ASSUME NEW v \in Workers, At(v, "read")', NEW job, job = work'[v].job
             PROVE  /\ \A a \in DOMAIN work'[v].held \ displaced' : Hits(a, job)'
                    /\ \A a \in Animals \ (clobbered' \cup displaced') :
                          Growing(a)' /\ Hits(a, job)' => a \in DOMAIN work'[v].held
  BY DEF HeldHits
<1>1. Pending(v)'
  BY DEF Pending
<1>2. \A a \in Animals \ displaced' : Bought(a) => (Hits(a, job)' <=> Hits(a, job))
  BY <1>1, HitsStay
<1>3. clobbered \subseteq clobbered' /\ displaced \subseteq displaced'
  BY MarksGrow
<1>4. CASE work'[v] = work[v]
  <2>1. At(v, "read") /\ job = work[v].job /\ DOMAIN work'[v].held = DOMAIN work[v].held
    BY <1>4 DEF At
  <2>2. DOMAIN work[v].held \subseteq Animals
    <3>1. work[v] \in JobAtWork
      BY <2>1 DEF At, AnimalTypes, WorkTypes
    <3> QED BY <3>1 DEF JobAtWork
  <2>3. \A a \in DOMAIN work[v].held : Bought(a)
    BY <2>1 DEF HeldRows
  <2>4. \A a \in DOMAIN work[v].held \ displaced' : Hits(a, job)'
    BY <1>2, <1>3, <2>1, <2>2, <2>3 DEF HeldHits
  <2>5. ASSUME NEW a \in Animals \ (clobbered' \cup displaced'), Growing(a)', Hits(a, job)'
        PROVE  a \in DOMAIN work[v].held
    <3>1. CASE Bought(a)
      <4>1. Growing(a) /\ Hits(a, job)
        BY <1>2, <2>5, <3>1, GrewOn
      <4> QED BY <1>3, <2>1, <2>5, <4>1 DEF HeldHits
    <3>2. CASE ~Bought(a)
      <4>1. BuyAnimal(a)
        BY <2>5, <3>2, RowFates DEF RowFate, Growing, Bought
      <4>2. row'[a].createdAt = clock + 1
        BY <4>1, PurchaseEffect
      <4>3. job.utcTime <= clock /\ job.utcTime \in Nat /\ clock \in Nat
        <5>1. work[v] \in JobAtWork /\ work[v] # Idle
          BY <2>1 DEF At, AnimalTypes, WorkTypes
        <5>2. job \in Scheduler!Job
          BY <2>1, <5>1 DEF JobAtWork
        <5>3. clock \in Nat
          BY DEF TickInv, Scheduler!TypeOK
        <5> QED BY <2>1, <5>1, <5>2, <5>3 DEF JobsInv, JobFine, Scheduler!Job
      <4>4. row'[a].createdAt <= job.utcTime
        BY <2>5 DEF Hits
      <4> QED BY <4>2, <4>3, <4>4
    <3> QED BY <3>1, <3>2
  <2> QED BY <2>1, <2>4, <2>5
<1>5. CASE ReadAnimals(v)
  <2>1. /\ work'[v] = [job |-> work[v].job, stage |-> "read",
                       held |-> [b \in Page(work[v].job) |-> row[b]], again |-> work[v].again]
        /\ UNCHANGED <<row, herd>>
    BY <1>5, WorkEffect DEF ReadAnimals
  <2>2. work[v].job = job /\ DOMAIN work'[v].held = Page(job)
    BY <2>1
  <2>3. \A a : (Hits(a, job)' <=> Hits(a, job)) /\ (Growing(a)' <=> Growing(a))
    BY <2>1 DEF Hits, Place, Listed, Earlier, Growing, Bought
  <2> QED BY <2>2, <2>3, PageIsHits
<1> QED BY <1>4, <1>5, PendingMoves

(* Place in the listing is smaller than the number of growing animals.     *)
LEMMA PlaceBelow ==
    ASSUME AnimalTypes, HerdInv, NEW a \in Animals, Growing(a), NEW t
    PROVE  Place(a, t) < Cardinality({b \in Animals : Growing(b)})
<1> DEFINE before == {b \in Listed(t) : Earlier(b, a)}
           listed == {b \in Animals : Growing(b)}
<1>1. ~Earlier(a, a)
  <2> SUFFICES ASSUME NEW i \in DOMAIN herd, NEW j \in DOMAIN herd, i < j,
                      herd[i] = a, herd[j] = a
               PROVE  FALSE
    BY DEF Earlier
  <2>1. i = j
    BY DEF HerdInv
  <2>2. i \in Int
    BY DEF AnimalTypes
  <2> QED BY <2>1, <2>2
<1>2. before \subseteq listed \ {a} /\ a \in listed
  BY <1>1 DEF Listed
<1>3. IsFiniteSet(listed)
  BY AnimalAssumption, FS_Subset
<1> HIDE DEF before, listed
<1>4. Cardinality(listed \ {a}) = Cardinality(listed) - 1 /\ IsFiniteSet(listed \ {a})
  BY <1>2, <1>3, FS_RemoveElement
<1>5. Cardinality(before) <= Cardinality(listed \ {a}) /\ Cardinality(before) \in Nat
  BY <1>2, <1>4, FS_Subset, FS_CardinalityType
<1>6. Cardinality(listed) \in Nat
  BY <1>3, FS_CardinalityType
<1> QED BY <1>4, <1>5, <1>6 DEF Place, before, listed

LEMMA CountStep ==
    ASSUME TickInv, TickInv', FloorInv, AnimalTypes, HerdInv, HeldRows, DatesInv, CountInv,
           [Next]_vars
    PROVE  CountInv'
<1> SUFFICES ASSUME NEW a \in Animals \ (clobbered' \cup displaced'),
                    NEW h \in Scheduler!Handlers, Growing(a)', phase'[h] \in Counted,
                    NEW now, now = utcNow'[h], row'[a].createdAt <= now
             PROVE  Place(a, now)' < count'[h]
  BY DEF CountInv
<1>1. clobbered \subseteq clobbered' /\ displaced \subseteq displaced'
  BY MarksGrow
<1>2. CASE BuyAnimal(a)
  <2>1. row'[a].createdAt = clock + 1 /\ utcNow' = utcNow
    BY <1>2, PurchaseEffect DEF scheduler
  <2>2. utcNow[h] <= clock /\ utcNow[h] \in Nat /\ clock \in Nat
    BY DEF TickInv, Scheduler!SerialTick, Scheduler!TypeOK
  <2> QED BY <2>1, <2>2
<1>4. Place(a, now) \in Nat /\ Place(a, now)' \in Nat
  <2>1. IsFiniteSet({b \in Listed(now)' : Earlier(b, a)'})
    <3>1. {b \in Listed(now)' : Earlier(b, a)'} \subseteq Animals
      BY DEF Listed
    <3> QED BY <3>1, AnimalAssumption, FS_Subset
  <2> QED BY <2>1, PlaceType, FS_CardinalityType DEF Place
<1>3. CASE ~BuyAnimal(a)
  <2>1. Growing(a) /\ row'[a].createdAt = row[a].createdAt
    <3>1. Bought(a)
      BY <1>3, RowFates DEF RowFate, Growing, Bought
    <3> QED BY <3>1, GrewOn
  <2>2. CASE Scheduler!CountRows(h)
    <3>1. count'[h] = Cardinality({b \in Animals : Growing(b)}) /\ Scheduler!Busy(h)
      BY <2>2 DEF Scheduler!CountRows, Scheduler!Busy, TickInv, Scheduler!TypeOK
    <3>2. Place(a, now)' <= Place(a, now)
      BY <2>1, <3>1, Steady DEF Growing
    <3>3. Place(a, now) < Cardinality({b \in Animals : Growing(b)})
      BY <2>1, PlaceBelow
    <3>4. Cardinality({b \in Animals : Growing(b)}) \in Nat
      BY AnimalAssumption, FS_Subset, FS_CardinalityType
    <3> QED BY <1>4, <3>1, <3>2, <3>3, <3>4
  <2>3. CASE Onwards(h)
    <3>1. phase[h] \in Counted /\ now = utcNow[h] /\ count'[h] = count[h]
      BY <2>3 DEF Onwards
    <3>2. Place(a, now) < count[h]
      BY <1>1, <2>1, <3>1 DEF CountInv
    <3>3. Place(a, now)' <= Place(a, now)
      <4>1. Scheduler!Busy(h)
        BY <3>1 DEF Scheduler!Busy, Counted
      <4> QED BY <2>1, <4>1, Steady DEF Growing
    <3>4. count[h] \in Int
      <4>1. count \in [Scheduler!Handlers -> 0 .. Cardinality(Animals)]
        BY DEF TickInv, Scheduler!TypeOK
      <4> QED BY <4>1
    <3> QED BY <1>4, <3>1, <3>2, <3>3, <3>4
  <2> QED BY <2>2, <2>3, SchedulerEffect DEF Effect, Counting
<1> QED BY <1>2, <1>3

----------------------------------------------------------------------------
(* Dates, jobs, pages and counts are kept together.                        *)
LEMMA PagesInit == Init => PagesInv
<1> SUFFICES ASSUME Init
             PROVE  PagesInv
  OBVIOUS
<1> DEFINE bought == {a \in Animals : Bought(a)}
           n == Cardinality(bought)
<1>1. IsFiniteSet(bought) /\ n \in Nat
  BY AnimalAssumption, FS_Subset, FS_CardinalityType
<1>2. herd \in [1 .. n -> Animals] /\ {herd[i] : i \in DOMAIN herd} = bought
  BY DEF Init
<1> HIDE DEF bought, n
<1>3. herd \in Surjection(1 .. n, bought)
  BY <1>2, Fun_IsSurj
<1>4. IsFiniteSet(1 .. n) /\ Cardinality(1 .. n) = n
  BY <1>1, FS_Interval
<1>5. herd \in Injection(1 .. n, bought)
  BY <1>3, <1>4, FS_Surjection DEF n
<1>6. HerdInv
  <2>1. \A i, j \in DOMAIN herd : herd[i] = herd[j] => i = j
    BY <1>2, <1>5 DEF Injection, IsInjective
  <2>2. \A i \in DOMAIN herd : herd[i] \in bought
    BY <1>2
  <2> QED BY <2>1, <2>2 DEF HerdInv, bought
<1>7. /\ work = [w \in Workers |-> Idle] /\ queue = <<>> /\ clock = 0 /\ lastSchedule = 0
      /\ phase = [h \in Scheduler!Handlers |-> "idle"]
      /\ given = [a \in Animals |-> 0] /\ origin = [a \in Animals |-> 0]
  BY DEF Init, Scheduler!Init
<1>8. DatesInv
  <2> SUFFICES ASSUME NEW a \in Animals, Bought(a)
               PROVE  row[a].createdAt <= 1
    BY <1>7 DEF DatesInv
  <2>1. row[a] \in {NewlyBought(0), GrownUp(0, "normal"), GrownUp(YieldTime \div 2, "sick")}
    BY DEF Init, Bought
  <2>2. NewlyBought(0).createdAt = 0
    BY DEF NewlyBought
  <2>3. \A seconds, state : GrownUp(seconds, state).createdAt = 0
    BY DEF GrownUp, NewlyBought
  <2> QED BY <2>1, <2>2, <2>3
<1>9. \A w \in Workers : ~At(w, "read") /\ work[w] = Idle
  BY <1>7 DEF At
<1> QED BY <1>6, <1>7, <1>8, <1>9 DEF PagesInv, HeldRows, JobsInv, HeldHits, CountInv, Counted

LEMMA PagesStep ==
    BaseInv /\ BaseInv' /\ PagesInv /\ [Next]_vars => PagesInv'
<1> SUFFICES ASSUME BaseInv, BaseInv', PagesInv, [Next]_vars
             PROVE  PagesInv'
  OBVIOUS
<1>1. TickInv /\ TickInv' /\ FloorInv /\ AnimalTypes
  BY DEF BaseInv, HarvestInv
<1>2. HerdInv /\ HeldRows /\ DatesInv /\ JobsInv /\ HeldHits /\ CountInv
  BY DEF PagesInv
<1>3. HerdInv'
  BY <1>1, <1>2, HerdStep
<1>4. HeldRows' /\ DatesInv' /\ JobsInv'
  BY <1>1, <1>2, HeldRowsStep, DatesStep, JobsStep
<1>5. HeldHits' /\ CountInv'
  BY <1>1, <1>2, HeldHitsStep, CountStep
<1> QED BY <1>3, <1>4, <1>5 DEF PagesInv

LEMMA PagesInvariant == Spec => []PagesInv
BY BaseInvariant, PagesInit, PagesStep, PTL DEF Spec

----------------------------------------------------------------------------
(* The seconds a job gives, and who is yet to give second t to an animal:  *)
(* places of the queue, and workers that have not saved.                   *)
Span(job) == job.utcTime - job.elapsed .. job.utcTime - 1
Owes(job, a, t) == Hits(a, job) /\ t \in Span(job)
Waits(a, t) == {i \in DOMAIN queue : \A job \in {queue[i]} : Owes(job, a, t)}
Works(a, t) == {w \in Workers : Pending(w) /\ \A job \in {work[w].job} : Owes(job, a, t)}

(* What a step starts from.                                                *)
Ground == BaseInv /\ BaseInv' /\ PagesInv /\ [Next]_vars

LEMMA GroundParts ==
    ASSUME Ground
    PROVE  /\ TickInv /\ TickInv' /\ FloorInv /\ AnimalTypes /\ AnimalTypes' /\ [Next]_vars
           /\ HerdInv /\ HeldRows /\ DatesInv /\ JobsInv /\ HeldHits /\ CountInv
BY DEF Ground, BaseInv, HarvestInv, PagesInv

(* A step leaves what the jobs owe to an animal that is there and keeps    *)
(* its place.                                                              *)
LEMMA OwesStay ==
    ASSUME Ground, NEW a \in Animals, Bought(a), a \notin displaced',
           queue' # <<>> \/ \E w \in Workers : Pending(w)', NEW t, NEW job
    PROVE  Owes(job, a, t)' <=> Owes(job, a, t)
BY GroundParts, HitsStay DEF Owes, Span

LEMMA WaitsStay ==
    ASSUME Ground, NEW a \in Animals, Bought(a), a \notin displaced', NEW t, queue' = queue
    PROVE  Waits(a, t)' = Waits(a, t)
<1>1. CASE queue = <<>>
  BY <1>1 DEF Waits
<1>2. CASE queue # <<>>
  BY <1>2, OwesStay DEF Waits
<1> QED BY <1>1, <1>2

LEMMA WaitsTaken ==
    ASSUME Ground, NEW a \in Animals, Bought(a), a \notin displaced', NEW t,
           NEW w \in Workers, TakeJob(w)
    PROVE  /\ 1 \in DOMAIN queue
           /\ \A i : i \in Waits(a, t)' <=> i \in Nat \ {0} /\ i + 1 \in Waits(a, t)
           /\ \A v : v \in Works(a, t)' <=> v \in Works(a, t) \/ (v = w /\ 1 \in Waits(a, t))
           /\ w \notin Works(a, t)
<1>1. /\ work[w] = Idle /\ queue # <<>> /\ queue' = Tail(queue)
      /\ work'[w] = [job |-> Head(queue), stage |-> "taken", held |-> Nothing, again |-> FALSE]
  BY GroundParts, WorkEffect
<1>2. /\ queue \in Seq(Scheduler!Job) /\ DOMAIN queue = 1 .. Len(queue) /\ Len(queue) \in Nat
  BY GroundParts DEF TickInv, Scheduler!TypeOK
<1>3. /\ DOMAIN queue' = 1 .. Len(queue) - 1 /\ \A i \in DOMAIN queue' : queue'[i] = queue[i + 1]
      /\ 1 \in DOMAIN queue /\ Head(queue) = queue[1]
  BY <1>1, <1>2
<1>4. Pending(w)' /\ work'[w].job = queue[1] /\ ~Pending(w)
  BY <1>1, <1>3 DEF Pending, At, Idle
<1>5. \A job : Owes(job, a, t)' <=> Owes(job, a, t)
  BY <1>4, OwesStay
<1>6. \A v \in Workers \ {w} : work'[v] = work[v]
  BY GroundParts DEF TakeJob, FloorInv
<1>7. \A i : i \in Waits(a, t)' <=> i \in Nat \ {0} /\ i + 1 \in Waits(a, t)
  BY <1>2, <1>3, <1>5 DEF Waits
<1>8. \A v \in Workers \ {w} : v \in Works(a, t)' <=> v \in Works(a, t)
  BY <1>5, <1>6 DEF Works, Pending, At
<1>9. (w \in Works(a, t)' <=> 1 \in Waits(a, t)) /\ w \notin Works(a, t)
  BY <1>3, <1>4, <1>5 DEF Works, Waits
<1>10. Works(a, t) \subseteq Workers /\ Works(a, t)' \subseteq Workers
  BY DEF Works
<1> QED BY <1>3, <1>7, <1>8, <1>9, <1>10

(* Otherwise a worker owes what it owed, until it saves, fails or crashes. *)
LEMMA WorksMove ==
    ASSUME Ground, NEW a \in Animals, Bought(a), a \notin displaced', NEW t, NEW v \in Workers,
           ~TakeJob(v)
    PROVE  /\ v \in Works(a, t)' => v \in Works(a, t) \/ rerunJobs'
           /\ v \in Works(a, t) => v \in Works(a, t)' \/ SaveAnimals(v) \/ lostJobs'
           /\ SaveAnimals(v) => v \notin Works(a, t)'
<1>1. ASSUME v \in Works(a, t)'
      PROVE  v \in Works(a, t) \/ rerunJobs'
  <2>1. Pending(v)'
    BY <1>1 DEF Works
  <2>2. \/ Pending(v) /\ work'[v].job = work[v].job
        \/ CrashWorker(v) /\ ~work[v].again
    BY <2>1, GroundParts, PendingMoves
  <2>3. ASSUME Pending(v), work'[v].job = work[v].job
        PROVE  v \in Works(a, t)
    <3>1. \A job : Owes(job, a, t)' <=> Owes(job, a, t)
      BY <2>1, OwesStay
    <3>2. \A job \in {work'[v].job} : Owes(job, a, t)'
      BY <1>1 DEF Works
    <3>3. \A job \in {work[v].job} : Owes(job, a, t)
      BY <2>3, <3>1, <3>2
    <3> QED BY <2>3, <3>3 DEF Works
  <2>4. CrashWorker(v) /\ ~work[v].again => rerunJobs'
    BY DEF CrashWorker
  <2> QED BY <2>2, <2>3, <2>4
<1>2. ASSUME v \in Works(a, t), ~SaveAnimals(v), ~lostJobs'
      PROVE  v \in Works(a, t)'
  <2>1. Pending(v) /\ work[v] # Idle /\ work[v].stage # "saved"
    BY <1>2 DEF Works, Pending, At
  <2>2. ~CompleteJob(v) /\ ~FailJob(v)
    BY <1>2, <2>1 DEF CompleteJob, FailJob, At
  <2>3. Pending(v)' /\ work'[v].job = work[v].job
    <3>1. CASE work'[v] = work[v]
      BY <2>1, <3>1 DEF Pending, At
    <3>2. CASE ReadAnimals(v)
      <4>1. work'[v] = [job |-> work[v].job, stage |-> "read",
                        held |-> [b \in Page(work[v].job) |-> row[b]], again |-> work[v].again]
        BY <3>2, GroundParts, WorkEffect
      <4> QED BY <4>1 DEF Pending, At, Idle
    <3>3. CASE CrashWorker(v)
      <4>1. ~work[v].again
        BY <1>2, <2>1, <3>3 DEF CrashWorker
      <4>2. work'[v] = [job |-> work[v].job, stage |-> "taken", held |-> Nothing, again |-> TRUE]
        BY <3>3, <4>1, GroundParts, WorkEffect
      <4> QED BY <4>2 DEF Pending, At, Idle
    <3> QED BY <1>2, <2>2, <3>1, <3>2, <3>3, GroundParts, WorkMoves
  <2>4. \A job : Owes(job, a, t)' <=> Owes(job, a, t)
    BY <2>3, OwesStay
  <2> QED BY <1>2, <2>3, <2>4 DEF Works
<1>3. ASSUME SaveAnimals(v)
      PROVE  v \notin Works(a, t)'
  <2>1. work'[v] = [job |-> work[v].job, stage |-> "saved", held |-> Nothing,
                    again |-> work[v].again]
    BY <1>3, GroundParts, WorkEffect
  <2> QED BY <2>1 DEF Works, Pending, At
<1> QED BY <1>1, <1>2, <1>3

----------------------------------------------------------------------------
(* A tick gives the seconds since the last schedule, to every animal that  *)
(* is listed.                                                              *)
LEMMA TickWaits ==
    ASSUME Ground, NEW a \in Animals, NEW t \in Int, NEW h \in Scheduler!Handlers,
           Scheduler!AddBulk(h), UNCHANGED <<animals, accounts>>, ~overlapped
    PROVE  /\ Works(a, t)' = Works(a, t)
           /\ \A i \in DOMAIN queue : i \in Waits(a, t)' <=> i \in Waits(a, t)
           /\ Waits(a, t) \subseteq DOMAIN queue
           /\ \A i \in Waits(a, t)' \ DOMAIN queue : t \in lastSchedule .. utcNow[h] - 1
           /\ Cardinality(Animals) <= 2 * BatchSize =>
                \A i, j \in Waits(a, t)' \ DOMAIN queue : i = j
           /\ /\ a \notin clobbered \cup displaced /\ Growing(a) /\ row[a].createdAt <= t
              /\ t \in lastSchedule .. utcNow[h] - 1
              => Waits(a, t)' # {}
<1> DEFINE now == utcNow[h]
           jobs == Scheduler!Batches(count[h], utcNow[h] - date[h], found[h], utcNow[h])
<1>1. /\ date[h] = lastSchedule /\ lastSchedule \in Nat /\ now \in Nat
      /\ phase[h] = "addBulk"
  BY GroundParts, AddBulkBooks DEF TickInv, Scheduler!SerialTick, Scheduler!TypeOK
<1>2. /\ UNCHANGED <<row, herd, work>>
      /\ \A job : Owes(job, a, t)' <=> Owes(job, a, t)
  BY DEF animals, Owes, Span, Hits, Place, Listed, Earlier, Growing, Bought
<1>3. /\ \A i \in DOMAIN queue : i \in DOMAIN queue' /\ queue'[i] = queue[i]
      /\ \A i \in DOMAIN queue' \ DOMAIN queue :
           i - Len(queue) \in DOMAIN jobs /\ queue'[i] = jobs[i - Len(queue)]
      /\ \A j \in DOMAIN jobs :
           /\ Len(queue) + j \in DOMAIN queue' /\ queue'[Len(queue) + j] = jobs[j]
           /\ jobs[j].utcTime = now /\ jobs[j].elapsed = now - date[h]
      /\ \A p \in 0 .. count[h] - 1 : \E j \in DOMAIN jobs :
           p \in jobs[j].skip .. jobs[j].skip + jobs[j].take - 1
      /\ count[h] <= 2 * BatchSize => \A i, j \in DOMAIN jobs : i # j =>
           \A p : ~ /\ p \in jobs[i].skip .. jobs[i].skip + jobs[i].take - 1
                    /\ p \in jobs[j].skip .. jobs[j].skip + jobs[j].take - 1
  BY GroundParts, TickJobs
<1> HIDE DEF jobs
<1>4. \A j \in DOMAIN jobs : Span(jobs[j]) = lastSchedule .. now - 1
  <2> SUFFICES ASSUME NEW j \in DOMAIN jobs
               PROVE  Span(jobs[j]) = lastSchedule .. now - 1
    OBVIOUS
  <2>1. now - (now - lastSchedule) = lastSchedule
    BY <1>1
  <2> QED BY <1>1, <1>3, <2>1 DEF Span
<1>5. Works(a, t)' = Works(a, t)
  BY <1>2 DEF Works, Pending, At
<1>6. /\ \A i \in DOMAIN queue : i \in Waits(a, t)' <=> i \in Waits(a, t)
      /\ Waits(a, t) \subseteq DOMAIN queue
  BY <1>2, <1>3 DEF Waits
<1>7. ASSUME NEW i \in Waits(a, t)' \ DOMAIN queue
      PROVE  /\ i - Len(queue) \in DOMAIN jobs /\ Owes(jobs[i - Len(queue)], a, t)
             /\ t \in lastSchedule .. now - 1
             /\ Place(a, now) \in jobs[i - Len(queue)].skip ..
                    jobs[i - Len(queue)].skip + jobs[i - Len(queue)].take - 1
  <2>1. i \in DOMAIN queue' \ DOMAIN queue
    BY <1>7 DEF Waits
  <2>2. i - Len(queue) \in DOMAIN jobs /\ queue'[i] = jobs[i - Len(queue)]
    BY <1>3, <2>1
  <2>3. Owes(jobs[i - Len(queue)], a, t)
    BY <1>2, <1>7, <2>2 DEF Waits
  <2> QED BY <1>3, <1>4, <2>2, <2>3 DEF Owes, Hits
<1>8. ASSUME Cardinality(Animals) <= 2 * BatchSize,
             NEW i \in Waits(a, t)' \ DOMAIN queue, NEW j \in Waits(a, t)' \ DOMAIN queue
      PROVE  i = j
  <2>1. count[h] <= 2 * BatchSize
    <3>1. count[h] \in 0 .. Cardinality(Animals) /\ Cardinality(Animals) \in Nat
      BY GroundParts, AnimalAssumption, FS_CardinalityType DEF TickInv, Scheduler!TypeOK
    <3>2. BatchSize \in Nat
      BY AnimalAssumption
    <3> QED BY <1>8, <3>1, <3>2
  <2>2. i - Len(queue) = j - Len(queue)
    BY <1>3, <1>7, <2>1
  <2>3. i \in Int /\ j \in Int /\ Len(queue) \in Int
    <3>1. i \in DOMAIN queue' /\ j \in DOMAIN queue'
      BY DEF Waits
    <3>2. queue \in Seq(Scheduler!Job) /\ queue' \in Seq(Scheduler!Job)
      BY GroundParts DEF TickInv, Scheduler!TypeOK
    <3> QED BY <3>1, <3>2
  <2> QED BY <2>2, <2>3
<1>9. ASSUME a \notin clobbered \cup displaced, Growing(a), row[a].createdAt <= t,
             t \in lastSchedule .. now - 1
      PROVE  Waits(a, t)' # {}
  <2>1. row[a].createdAt <= now /\ Bought(a)
    <3>1. row[a].createdAt \in Nat
      BY <1>9, GroundParts DEF Growing, Bought, AnimalTypes, RowTypes, AnimalInfo
    <3> QED BY <1>1, <1>9, <3>1 DEF Growing
  <2>2. Place(a, now) < count[h]
    BY <1>1, <1>9, <2>1, GroundParts DEF CountInv, Counted
  <2>3. Place(a, now) \in 0 .. count[h] - 1
    <3>1. count[h] \in 0 .. Cardinality(Animals) /\ Cardinality(Animals) \in Nat
      BY GroundParts, AnimalAssumption, FS_CardinalityType DEF TickInv, Scheduler!TypeOK
    <3>2. Place(a, now) \in Nat
      BY PlaceType
    <3> QED BY <2>2, <3>1, <3>2
  <2>4. PICK j \in DOMAIN jobs :
           Place(a, now) \in jobs[j].skip .. jobs[j].skip + jobs[j].take - 1
    BY <1>3, <2>3
  <2>5. Owes(jobs[j], a, t)
    BY <1>3, <1>4, <1>9, <2>1, <2>4 DEF Owes, Hits
  <2>6. Len(queue) + j \in DOMAIN queue' /\ queue'[Len(queue) + j] = jobs[j]
    BY <1>3
  <2>7. Len(queue) + j \in Waits(a, t)'
    BY <1>2, <2>5, <2>6 DEF Waits
  <2> QED BY <2>7
<1> QED BY <1>5, <1>6, <1>7, <1>8, <1>9

----------------------------------------------------------------------------
(* Sent seconds are over.                                                  *)
LEMMA SentIsPast ==
    ASSUME TickInv, NEW t \in Int, Sent(t)
    PROVE  t < clock
<1>1. /\ lastSchedule <= clock /\ lastSchedule \in Nat /\ clock \in Nat
      /\ \A h \in Scheduler!Handlers : utcNow[h] <= clock /\ utcNow[h] \in Nat
  BY DEF TickInv, Scheduler!SerialTick, Scheduler!TypeOK
<1> QED BY <1>1 DEF Sent

(* One worker saves at a time, its job gives its seconds to the rows it    *)
(* holds, and these are the animals the job is for.                        *)
LEMMA SaveGives ==
    ASSUME Ground, NEW a \in Animals, Bought(a), a \notin displaced', NEW w \in Workers,
           SaveAnimals(w)
    PROVE  /\ \A v \in Workers : SaveAnimals(v) => v = w
           /\ \A v \in Workers : ~TakeJob(v)
           /\ work[w].job \in Scheduler!Job /\ (~overlapped => work[w].job.elapsed >= 0)
           /\ \A t : w \in Works(a, t) <=> Owes(work[w].job, a, t)
           /\ given'[a] = IF a \in DOMAIN work[w].held
                          THEN given[a] + work[w].job.elapsed ELSE given[a]
           /\ a \in DOMAIN work[w].held => Hits(a, work[w].job)
           /\ a \notin clobbered' /\ Growing(a) /\ Hits(a, work[w].job)
                => a \in DOMAIN work[w].held
<1>1. At(w, "read") /\ work[w] # Idle /\ Pending(w)
  BY DEF SaveAnimals, At, Pending
<1>2. \A v \in Workers \ {w} : work'[v] = work[v]
  BY GroundParts DEF SaveAnimals, FloorInv
<1>3. ASSUME NEW v \in Workers, SaveAnimals(v), v # w
      PROVE  FALSE
  <2>1. At(v, "read") /\ work'[v] = work[v]
    BY <1>2, <1>3 DEF SaveAnimals
  <2>2. work'[v] = [job |-> work[v].job, stage |-> "saved", held |-> Nothing,
                    again |-> work[v].again]
    BY <1>3, GroundParts, WorkEffect
  <2>3. work'[v].stage = "saved"
    BY <2>2
  <2> QED BY <2>1, <2>3 DEF At
<1>4. ASSUME NEW v \in Workers, TakeJob(v)
      PROVE  FALSE
  <2>1. /\ work[v] = Idle
        /\ work'[v] = [job |-> Head(queue), stage |-> "taken", held |-> Nothing, again |-> FALSE]
    BY <1>4, GroundParts, WorkEffect
  <2>2. work'[v] # Idle
    BY <2>1 DEF Idle
  <2> QED BY <1>1, <1>2, <2>1, <2>2
<1>5. work[w].job \in Scheduler!Job /\ (~overlapped => work[w].job.elapsed >= 0)
  <2>1. work[w] \in JobAtWork
    BY <1>1, GroundParts DEF AnimalTypes, WorkTypes
  <2>2. work[w].job \in Scheduler!Job
    BY <1>1, <2>1 DEF JobAtWork
  <2>3. JobFine(work[w].job)
    BY <1>1, GroundParts DEF JobsInv
  <2> QED BY <2>2, <2>3 DEF JobFine
<1>6. \A t : w \in Works(a, t) <=> Owes(work[w].job, a, t)
  BY <1>1 DEF Works
<1>7. given'[a] = IF a \in DOMAIN work[w].held
                  THEN given[a] + work[w].job.elapsed ELSE given[a]
  BY GroundParts, GivenEffect
<1>8. clobbered \subseteq clobbered' /\ displaced \subseteq displaced'
  BY GroundParts, MarksGrow
<1>9. /\ a \in DOMAIN work[w].held => Hits(a, work[w].job)
      /\ a \notin clobbered' /\ Growing(a) /\ Hits(a, work[w].job)
           => a \in DOMAIN work[w].held
  BY <1>1, <1>8, GroundParts DEF HeldHits
<1> QED BY <1>3, <1>4, <1>5, <1>6, <1>7, <1>9

LEMMA SpanSize ==
    ASSUME NEW job \in Scheduler!Job, job.elapsed >= 0
    PROVE  IsFiniteSet(Span(job)) /\ Cardinality(Span(job)) = job.elapsed /\ Span(job) \subseteq Int
<1>1. job.utcTime \in Nat /\ job.elapsed \in Nat
  BY DEF Scheduler!Job
<1>2. job.utcTime - job.elapsed \in Int /\ job.utcTime - 1 \in Int
  BY <1>1
<1>3. Cardinality(Span(job)) =
        IF job.utcTime - job.elapsed > job.utcTime - 1 THEN 0
        ELSE (job.utcTime - 1) - (job.utcTime - job.elapsed) + 1
  BY <1>2, FS_Interval DEF Span
<1>4. IsFiniteSet(Span(job))
  BY <1>2, FS_Interval DEF Span
<1>5. Cardinality(Span(job)) = job.elapsed
  BY <1>1, <1>3
<1> QED BY <1>2, <1>4, <1>5 DEF Span

----------------------------------------------------------------------------
(* Each second sent since the purchase of an animal was given to it, or is *)
(* waiting in the queue or with a worker.                                  *)
Reached(a, C) ==
    /\ IsFiniteSet(C) /\ Cardinality(C) <= given[a]
    /\ \A t \in Nat : row[a].createdAt <= t /\ Sent(t) =>
          t \in C \/ Waits(a, t) # {} \/ Works(a, t) # {}
ReachInv ==
    ~overlapped /\ ~lostJobs =>
        \A a \in Animals \ (clobbered \cup displaced) :
            Growing(a) => \E C : Reached(a, C)

LEMMA BoughtReached ==
    ASSUME Ground, NEW a \in Animals, BuyAnimal(a), ~overlapped'
    PROVE  Reached(a, {})'
<1>1. row'[a].createdAt = clock + 1 /\ given'[a] = given[a] /\ ~Bought(a)
      /\ UNCHANGED <<lastSchedule, phase, utcNow>>
  BY GroundParts, PurchaseEffect DEF scheduler
<1>2. given[a] = 0
  BY <1>1, GroundParts DEF DatesInv
<1>3. ASSUME NEW t \in Nat, Sent(t)', row'[a].createdAt <= t
      PROVE  FALSE
  <2>1. Sent(t)
    BY <1>1, <1>3 DEF Sent
  <2>2. t < clock
    BY <2>1, GroundParts, SentIsPast
  <2>3. clock \in Nat
    BY GroundParts DEF TickInv, Scheduler!TypeOK
  <2> QED BY <1>1, <1>3, <2>2, <2>3
<1> QED BY <1>1, <1>2, <1>3, FS_EmptySet DEF Reached

LEMMA TickReached ==
    ASSUME Ground, NEW a \in Animals, Growing(a), a \notin clobbered, a \notin displaced,
           NEW C, Reached(a, C), ~overlapped,
           NEW h \in Scheduler!Handlers, Scheduler!AddBulk(h), UNCHANGED <<animals, accounts>>
    PROVE  Reached(a, C)'
<1>1. UNCHANGED <<row, given>>
  BY DEF animals, accounts
<1>2. ASSUME NEW t \in Nat, Sent(t)', row[a].createdAt <= t, t \notin C
      PROVE  Waits(a, t)' # {} \/ Works(a, t)' # {}
  <2>1. CASE Sent(t)
    <3>1. Waits(a, t) # {} \/ Works(a, t) # {}
      BY <1>2, <2>1 DEF Reached
    <3>2. Works(a, t)' = Works(a, t) /\ Waits(a, t) \subseteq Waits(a, t)'
      <4>1. t \in Int
        OBVIOUS
      <4>2. /\ Works(a, t)' = Works(a, t) /\ Waits(a, t) \subseteq DOMAIN queue
            /\ \A i \in DOMAIN queue : i \in Waits(a, t)' <=> i \in Waits(a, t)
        BY <4>1, TickWaits
      <4> QED BY <4>2
    <3> QED BY <3>1, <3>2
  <2>2. CASE ~Sent(t)
    <3>1. /\ phase' = [phase EXCEPT ![h] = "commit"] /\ UNCHANGED <<lastSchedule, utcNow>>
          /\ lastSchedule \in Nat /\ utcNow[h] \in Nat
      BY GroundParts, AddBulkBooks DEF TickInv, Scheduler!TypeOK
    <3>2. t \in lastSchedule .. utcNow[h] - 1
      <4>1. t >= lastSchedule
        BY <2>2, <3>1 DEF Sent
      <4>2. t < utcNow[h]
        <5>1. \A g \in Scheduler!Handlers \ {h} : phase'[g] = phase[g]
          BY <3>1, GroundParts DEF TickInv, Scheduler!TypeOK
        <5>2. PICK g \in Scheduler!Handlers : phase'[g] = "commit" /\ t < utcNow'[g]
          BY <1>2, <3>1, <4>1 DEF Sent
        <5>3. g = h
          BY <2>2, <3>1, <5>1, <5>2 DEF Sent
        <5> QED BY <3>1, <5>2, <5>3
      <4> QED BY <3>1, <4>1, <4>2
    <3> QED BY <1>2, <3>2, TickWaits
  <2> QED BY <2>1, <2>2
<1> QED BY <1>1, <1>2 DEF Reached

LEMMA TakeReached ==
    ASSUME Ground, NEW a \in Animals, Growing(a), a \notin displaced',
           NEW C, Reached(a, C), NEW w \in Workers, TakeJob(w)
    PROVE  Reached(a, C)'
<1>1. UNCHANGED <<row, given, lastSchedule, phase, utcNow>>
  BY DEF TakeJob, Scheduler!TakeJob, Scheduler!table, Scheduler!locals, accounts
<1>2. ASSUME NEW t \in Nat, Sent(t)', row[a].createdAt <= t, t \notin C
      PROVE  Waits(a, t)' # {} \/ Works(a, t)' # {}
  <2>1. Sent(t)
    BY <1>1, <1>2 DEF Sent
  <2>2. \/ Works(a, t) # {}
        \/ \E i : i \in Waits(a, t)
    BY <1>2, <2>1 DEF Reached
  <2>3. \A i : i \in Waits(a, t)' <=> i \in Nat \ {0} /\ i + 1 \in Waits(a, t)
    BY WaitsTaken DEF Growing
  <2>4. \A v : v \in Works(a, t)' <=> v \in Works(a, t) \/ (v = w /\ 1 \in Waits(a, t))
    BY WaitsTaken DEF Growing
  <2>5. ASSUME NEW i \in Waits(a, t), i # 1
        PROVE  Waits(a, t)' # {}
    <3>1. i \in DOMAIN queue /\ queue \in Seq(Scheduler!Job)
      BY GroundParts DEF Waits, TickInv, Scheduler!TypeOK
    <3>2. i - 1 \in Nat \ {0} /\ (i - 1) + 1 = i
      BY <2>5, <3>1
    <3>3. i - 1 \in Waits(a, t)'
      BY <2>3, <3>2
    <3> QED BY <3>3
  <2> QED BY <2>2, <2>4, <2>5
<1> QED BY <1>1, <1>2 DEF Reached

----------------------------------------------------------------------------
LEMMA QuietReached ==
    ASSUME Ground, NEW a \in Animals, Growing(a), a \notin displaced',
           NEW C, Reached(a, C), queue' = queue, Quiet, ~lostJobs',
           \A w \in Workers : ~TakeJob(w) /\ ~SaveAnimals(w)
    PROVE  Reached(a, C)'
<1>1. Bought(a) /\ row'[a].createdAt = row[a].createdAt
  BY GroundParts, GrewOn DEF Growing
<1>2. given'[a] = given[a]
  BY GroundParts, GivenEffect
<1>3. ASSUME NEW t \in Nat, Sent(t)', row[a].createdAt <= t, t \notin C
      PROVE  Waits(a, t)' # {} \/ Works(a, t)' # {}
  <2>1. Sent(t)
    BY <1>3 DEF Quiet
  <2>2. Waits(a, t) # {} \/ Works(a, t) # {}
    BY <1>3, <2>1 DEF Reached
  <2>3. Waits(a, t)' = Waits(a, t)
    BY <1>1, WaitsStay
  <2>4. \A v \in Workers : v \in Works(a, t) => v \in Works(a, t)'
    BY <1>1, WorksMove
  <2>5. Works(a, t) \subseteq Workers
    BY DEF Works
  <2> QED BY <2>2, <2>3, <2>4, <2>5
<1> QED BY <1>1, <1>2, <1>3 DEF Reached

LEMMA SaveReached ==
    ASSUME Ground, NEW a \in Animals, Growing(a), a \notin clobbered', a \notin displaced',
           NEW C, Reached(a, C), queue' = queue, Quiet, ~lostJobs', ~overlapped,
           NEW w \in Workers, SaveAnimals(w)
    PROVE  \E D : Reached(a, D)'
<1> DEFINE job == work[w].job
<1>0. PICK D : D = IF Hits(a, job) THEN C \cup Span(job) ELSE C
  OBVIOUS
<1>1. Bought(a) /\ row'[a].createdAt = row[a].createdAt
  BY GroundParts, GrewOn DEF Growing
<1>2. /\ \A v \in Workers : SaveAnimals(v) => v = w
      /\ \A v \in Workers : ~TakeJob(v)
      /\ job \in Scheduler!Job /\ job.elapsed >= 0
      /\ \A t : w \in Works(a, t) <=> Owes(job, a, t)
      /\ given'[a] = IF Hits(a, job) THEN given[a] + job.elapsed ELSE given[a]
  BY <1>1, SaveGives
<1>3. /\ IsFiniteSet(Span(job)) /\ Cardinality(Span(job)) = job.elapsed
      /\ IsFiniteSet(C) /\ Cardinality(C) <= given[a]
  BY <1>2, SpanSize DEF Reached
<1>4. job.elapsed \in Int /\ given[a] \in Int
  BY <1>2, GroundParts DEF Scheduler!Job, AnimalTypes, HistoryTypes
<1> HIDE DEF job
<1>5. IsFiniteSet(D) /\ Cardinality(D) <= given'[a]
  <2>1. CASE Hits(a, job)
    <3>1. IsFiniteSet(C \cup Span(job))
      BY <1>3, FS_Union
    <3>2. /\ Cardinality(C \cup Span(job)) =
                Cardinality(C) + Cardinality(Span(job)) - Cardinality(C \cap Span(job))
          /\ IsFiniteSet(C \cap Span(job))
      BY <1>3, FS_Union, FS_Intersection
    <3>3. Cardinality(C) \in Nat /\ Cardinality(C \cap Span(job)) \in Nat
      BY <1>3, <3>2, FS_CardinalityType
    <3>4. Cardinality(C \cup Span(job)) <= given[a] + job.elapsed
      BY <1>3, <1>4, <3>2, <3>3
    <3> QED BY <1>0, <1>2, <2>1, <3>1, <3>4
  <2>2. CASE ~Hits(a, job)
    BY <1>0, <1>2, <1>3, <2>2
  <2> QED BY <2>1, <2>2
<1>6. ASSUME NEW t \in Nat, Sent(t)', row[a].createdAt <= t, t \notin D
      PROVE  Waits(a, t)' # {} \/ Works(a, t)' # {}
  <2>1. Sent(t) /\ t \notin C
    BY <1>0, <1>6 DEF Quiet
  <2>2. Waits(a, t) # {} \/ Works(a, t) # {}
    BY <1>6, <2>1 DEF Reached
  <2>3. Waits(a, t)' = Waits(a, t)
    BY <1>1, WaitsStay
  <2>4. w \notin Works(a, t)
    BY <1>0, <1>2, <1>6 DEF Owes
  <2>5. \A v \in Workers : v \in Works(a, t) => v \in Works(a, t)'
    <3>1. \A v \in Workers : v \in Works(a, t) => v \in Works(a, t)' \/ SaveAnimals(v)
      BY <1>1, <1>2, WorksMove
    <3> QED BY <1>2, <2>4, <3>1
  <2>6. Works(a, t) \subseteq Workers
    BY DEF Works
  <2> QED BY <2>2, <2>3, <2>5, <2>6
<1>7. Reached(a, D)'
  BY <1>1, <1>5, <1>6 DEF Reached
<1> QED BY <1>7

LEMMA ReachStep ==
    BaseInv /\ BaseInv' /\ PagesInv /\ ReachInv /\ [Next]_vars => ReachInv'
<1> SUFFICES ASSUME Ground, ReachInv, ~overlapped', ~lostJobs',
                    NEW a \in Animals \ (clobbered' \cup displaced'), Growing(a)'
             PROVE  \E C : Reached(a, C)'
  BY DEF Ground, ReachInv
<1>1. ~overlapped /\ ~lostJobs
  <2>1. overlapped => overlapped'
    BY GroundParts, SchedulerEffect DEF Effect
  <2>2. lostJobs => lostJobs'
    BY GroundParts, RerunKept
  <2> QED BY <2>1, <2>2
<1>2. a \notin clobbered /\ a \notin displaced
  BY GroundParts, MarksGrow
<1>3. CASE ~Bought(a)
  <2>1. BuyAnimal(a)
    BY <1>3, GroundParts, RowFates DEF RowFate, Growing, Bought
  <2> QED BY <2>1, BoughtReached
<1>4. CASE Bought(a)
  <2>1. Growing(a)
    BY <1>4, GroundParts, GrewOn
  <2>2. PICK C : Reached(a, C)
    BY <1>1, <1>2, <2>1 DEF ReachInv
  <2>3. ASSUME NEW h \in Scheduler!Handlers, Scheduler!AddBulk(h), UNCHANGED <<animals, accounts>>
        PROVE  Reached(a, C)'
    BY <1>1, <1>2, <2>1, <2>2, <2>3, TickReached
  <2>4. ASSUME NEW w \in Workers, TakeJob(w)
        PROVE  Reached(a, C)'
    BY <2>1, <2>2, <2>4, TakeReached
  <2>5. ASSUME queue' = queue, Quiet, NEW w \in Workers, SaveAnimals(w)
        PROVE  \E D : Reached(a, D)'
    BY <1>1, <2>1, <2>2, <2>5, SaveReached
  <2>6. ASSUME queue' = queue, Quiet, \A w \in Workers : ~TakeJob(w) /\ ~SaveAnimals(w)
        PROVE  Reached(a, C)'
    BY <2>1, <2>2, <2>6, QuietReached
  <2>7. \/ queue' = queue /\ Quiet
        \/ \E h \in Scheduler!Handlers : Scheduler!AddBulk(h) /\ UNCHANGED <<animals, accounts>>
        \/ \E w \in Workers : TakeJob(w)
    BY GroundParts, SchedulerEffect
  <2> QED BY <2>3, <2>4, <2>5, <2>6, <2>7
<1> QED BY <1>3, <1>4

(* No second is lost between the scheduler's date and a row: unless a job  *)
(* failed, an outdated write hit the animal or its place moved under a     *)
(* waiting job, an animal that no job is on its way to has been given all  *)
(* the time from its purchase to the last schedule.                        *)
THEOREM AnimalTimeReaches == Spec => []TimeReachesAnimals
<1>1. Init => ReachInv
  <2> SUFFICES ASSUME Init, NEW a \in Animals
               PROVE  Reached(a, {})
    BY DEF ReachInv
  <2>1. /\ given[a] = 0 /\ lastSchedule = 0
        /\ \A h \in Scheduler!Handlers : phase[h] = "idle"
    BY DEF Init, Scheduler!Init
  <2>2. \A t \in Nat : ~Sent(t)
    BY <2>1 DEF Sent
  <2> QED BY <2>1, <2>2, FS_EmptySet DEF Reached
<1>2. BaseInv /\ PagesInv /\ ReachInv => TimeReachesAnimals
  <2> SUFFICES ASSUME BaseInv, PagesInv, ReachInv, ~overlapped, ~lostJobs,
                      NEW a \in Animals \ (clobbered \cup displaced),
                      Growing(a), Due(a) = {}
               PROVE  given[a] >= lastSchedule - row[a].createdAt
    BY DEF TimeReachesAnimals
  <2>1. PICK C : Reached(a, C)
    BY DEF ReachInv
  <2>2. ASSUME NEW t, NEW i \in Waits(a, t)
        PROVE  FALSE
    <3>1. i \in DOMAIN queue /\ Hits(a, queue[i])
      BY <2>2 DEF Waits, Owes
    <3>2. a \in Page(queue[i])
      BY <3>1, PageIsHits
    <3>3. queue[i] \in Due(a)
      BY <3>1, <3>2 DEF Due
    <3> QED BY <3>3
  <2>3. ASSUME NEW t, NEW w \in Works(a, t)
        PROVE  FALSE
    <3>1. w \in Workers /\ Pending(w) /\ Hits(a, work[w].job)
      BY <2>3 DEF Works, Owes
    <3>2. At(w, "taken") => a \in Page(work[w].job)
      BY <3>1, PageIsHits
    <3>3. At(w, "read") => a \in DOMAIN work[w].held
      BY <3>1 DEF PagesInv, HeldHits
    <3>4. work[w].job \in Due(a)
      BY <3>1, <3>2, <3>3 DEF Due, Pending
    <3> QED BY <3>4
  <2>4. /\ row[a].createdAt \in Nat /\ lastSchedule \in Nat /\ given[a] \in Int
    BY DEF BaseInv, TickInv, Scheduler!TypeOK, AnimalTypes, RowTypes, HistoryTypes,
           AnimalInfo, Growing, Bought
  <2> DEFINE owed == row[a].createdAt .. lastSchedule - 1
  <2>5. owed \subseteq C
    <3> SUFFICES ASSUME NEW t \in owed
                 PROVE  t \in C
      OBVIOUS
    <3>1. t \in Nat /\ row[a].createdAt <= t /\ Sent(t)
      BY <2>4 DEF Sent
    <3> QED BY <2>1, <2>2, <2>3, <3>1 DEF Reached
  <2>6. /\ IsFiniteSet(C) /\ Cardinality(C) <= given[a] /\ Cardinality(C) \in Nat
    BY <2>1, FS_CardinalityType DEF Reached
  <2>7. Cardinality(owed) = IF row[a].createdAt > lastSchedule - 1 THEN 0
                            ELSE (lastSchedule - 1) - row[a].createdAt + 1
    BY <2>4, FS_Interval
  <2> HIDE DEF owed
  <2>8. Cardinality(owed) <= Cardinality(C) /\ Cardinality(owed) \in Nat
    BY <2>5, <2>6, FS_Subset, FS_CardinalityType
  <2> QED BY <2>4, <2>6, <2>7, <2>8
<1> QED BY <1>1, <1>2, BaseInvariant, PagesInvariant, ReachStep, PTL DEF Spec

----------------------------------------------------------------------------
(* A second given to an animal, or about to be, was sent, lies after the   *)
(* schedule before its purchase, and has one place only: the past, the     *)
(* queue, or a worker.                                                     *)
Once(a, C, t) ==
    /\ t \in C \/ Waits(a, t) # {} \/ Works(a, t) # {} => origin[a] <= t /\ Sent(t)
    /\ t \in C => Waits(a, t) = {} /\ Works(a, t) = {}
    /\ Waits(a, t) = {} \/ Works(a, t) = {}
    /\ \A i, j \in Waits(a, t) : i = j
    /\ \A v, w \in Works(a, t) : v = w
Earned(a, C) ==
    /\ IsFiniteSet(C) /\ C \subseteq Int /\ given[a] <= Cardinality(C)
    /\ \A t \in Int : Once(a, C, t)
Premise == Cardinality(Animals) <= 2 * BatchSize /\ ~overlapped /\ uncommitted = 0 /\ ~rerunJobs
EarnedInv ==
    Premise => \A a \in Animals \ displaced : Bought(a) => \E C : Earned(a, C)

LEMMA BoughtEarned ==
    ASSUME Ground, NEW a \in Animals, BuyAnimal(a)
    PROVE  Earned(a, {})'
<1>1. row'[a].createdAt = clock + 1 /\ given'[a] = given[a] /\ ~Bought(a)
      /\ UNCHANGED <<queue, work>>
  BY GroundParts, PurchaseEffect DEF scheduler
<1>2. given[a] = 0
  BY <1>1, GroundParts DEF DatesInv
<1>3. \A job \in Scheduler!Job : job.utcTime <= clock => ~Hits(a, job)'
  <2> SUFFICES ASSUME NEW job \in Scheduler!Job, job.utcTime <= clock, Hits(a, job)'
               PROVE  FALSE
    OBVIOUS
  <2>1. row'[a].createdAt <= job.utcTime
    BY DEF Hits
  <2>2. job.utcTime \in Nat /\ clock \in Nat
    BY GroundParts DEF Scheduler!Job, TickInv, Scheduler!TypeOK
  <2> QED BY <1>1, <2>1, <2>2
<1>4. ASSUME NEW t, NEW i \in Waits(a, t)'
      PROVE  FALSE
  <2>1. i \in DOMAIN queue /\ \A job \in {queue[i]} : Hits(a, job)'
    BY <1>1, <1>4 DEF Waits, Owes
  <2>2. queue[i] \in Scheduler!Job /\ queue[i].utcTime <= clock
    BY <2>1, GroundParts DEF TickInv, Scheduler!TypeOK, JobsInv, JobFine
  <2> QED BY <1>3, <2>1, <2>2
<1>5. ASSUME NEW t, NEW w \in Works(a, t)'
      PROVE  FALSE
  <2>1. w \in Workers /\ work[w] # Idle /\ \A job \in {work[w].job} : Hits(a, job)'
    BY <1>1, <1>5 DEF Works, Owes, Pending, At
  <2>2. work[w] \in JobAtWork
    BY <2>1, GroundParts DEF AnimalTypes, WorkTypes
  <2>3. work[w].job \in Scheduler!Job
    BY <2>2 DEF JobAtWork
  <2>4. work[w].job.utcTime <= clock
    BY <2>1, GroundParts DEF JobsInv, JobFine
  <2> QED BY <1>3, <2>1, <2>3, <2>4
<1>6. \A t \in Int : Waits(a, t)' = {} /\ Works(a, t)' = {}
  BY <1>4, <1>5
<1>7. \A t \in Int : Once(a, {}, t)'
  BY <1>6 DEF Once
<1> QED BY <1>1, <1>2, <1>7, FS_EmptySet DEF Earned

LEMMA TickEarned ==
    ASSUME Ground, Premise, NEW a \in Animals, Bought(a), a \notin displaced,
           NEW C, Earned(a, C),
           NEW h \in Scheduler!Handlers, Scheduler!AddBulk(h), UNCHANGED <<animals, accounts>>
    PROVE  Earned(a, C)'
<1>1. UNCHANGED <<row, given, origin>>
  BY DEF animals, accounts
<1>2. /\ phase[h] = "addBulk" /\ phase' = [phase EXCEPT ![h] = "commit"]
      /\ UNCHANGED <<lastSchedule, utcNow>>
      /\ lastSchedule \in Nat /\ utcNow[h] \in Nat
  BY GroundParts, AddBulkBooks DEF TickInv, Scheduler!TypeOK
<1>3. phase'[h] = "commit" /\ \A g \in Scheduler!Handlers \ {h} : phase'[g] = phase[g]
  BY <1>2, GroundParts DEF TickInv, Scheduler!TypeOK
<1>4. \A t \in Int : Sent(t) => t < lastSchedule /\ Sent(t)'
  <2>1. \A g \in Scheduler!Handlers : phase[g] # "commit"
    BY <1>2, GroundParts DEF Premise, TickInv, Scheduler!SerialTick, Scheduler!Busy
  <2> QED BY <1>2, <2>1 DEF Sent
<1>5. origin[a] <= lastSchedule /\ origin[a] \in Nat
  BY GroundParts DEF DatesInv, Premise, AnimalTypes, HistoryTypes
<1>6. ASSUME NEW t \in Int
      PROVE  Once(a, C, t)'
  <2>1. Once(a, C, t)
    BY DEF Earned
  <2>2. /\ Works(a, t)' = Works(a, t)
        /\ \A i \in DOMAIN queue : i \in Waits(a, t)' <=> i \in Waits(a, t)
        /\ Waits(a, t) \subseteq DOMAIN queue
        /\ \A i \in Waits(a, t)' \ DOMAIN queue : t \in lastSchedule .. utcNow[h] - 1
        /\ \A i, j \in Waits(a, t)' \ DOMAIN queue : i = j
    BY TickWaits DEF Premise
  <2>3. CASE t < lastSchedule
    <3>1. Waits(a, t)' = Waits(a, t)
      BY <1>2, <2>2, <2>3
    <3> QED BY <1>1, <1>4, <2>1, <2>2, <3>1 DEF Once
  <2>4. CASE ~(t < lastSchedule)
    <3>1. t \notin C /\ Waits(a, t) = {} /\ Works(a, t) = {}
      BY <1>4, <2>1, <2>4 DEF Once
    <3>2. \A i \in Waits(a, t)' : i \notin DOMAIN queue
      BY <2>2, <3>1
    <3>3. ASSUME Waits(a, t)' # {}
          PROVE  origin[a] <= t /\ Sent(t)'
      <4>1. t \in lastSchedule .. utcNow[h] - 1
        BY <2>2, <3>2, <3>3
      <4>2. Sent(t)'
        BY <1>2, <1>3, <4>1 DEF Sent
      <4> QED BY <1>2, <1>5, <4>1, <4>2
    <3> QED BY <1>1, <2>2, <3>1, <3>2, <3>3 DEF Once
  <2> QED BY <2>3, <2>4
<1> QED BY <1>1, <1>6 DEF Earned

LEMMA TakeEarned ==
    ASSUME Ground, NEW a \in Animals, Bought(a), a \notin displaced',
           NEW C, Earned(a, C), NEW w \in Workers, TakeJob(w)
    PROVE  Earned(a, C)'
<1>1. UNCHANGED <<given, origin, lastSchedule, phase, utcNow>>
  BY DEF TakeJob, Scheduler!TakeJob, Scheduler!table, Scheduler!locals, accounts
<1>2. \A t \in Int : Sent(t)' <=> Sent(t)
  BY <1>1 DEF Sent
<1>3. ASSUME NEW t \in Int
      PROVE  Once(a, C, t)'
  <2>1. Once(a, C, t)
    BY DEF Earned
  <2>2. /\ \A i : i \in Waits(a, t)' <=> i \in Nat \ {0} /\ i + 1 \in Waits(a, t)
        /\ \A v : v \in Works(a, t)' <=> v \in Works(a, t) \/ (v = w /\ 1 \in Waits(a, t))
        /\ w \notin Works(a, t)
    BY WaitsTaken
  <2>3. CASE 1 \in Waits(a, t)
    <3>1. Works(a, t) = {} /\ t \notin C /\ origin[a] <= t /\ Sent(t)
      BY <2>1, <2>3 DEF Once
    <3>2. \A i \in Waits(a, t) : i = 1
      BY <2>1, <2>3 DEF Once
    <3>3. Waits(a, t)' = {}
      <4>1. ASSUME NEW i \in Waits(a, t)'
            PROVE  FALSE
        <5>1. i \in Nat \ {0} /\ i + 1 = 1
          BY <2>2, <3>2, <4>1
        <5> QED BY <5>1
      <4> QED BY <4>1
    <3>4. \A v \in Works(a, t)' : v = w
      BY <2>2, <3>1
    <3> QED BY <1>1, <1>2, <3>1, <3>3, <3>4 DEF Once
  <2>4. CASE 1 \notin Waits(a, t)
    <3>1. \A v : v \in Works(a, t)' <=> v \in Works(a, t)
      BY <2>2, <2>4
    <3>2. Works(a, t)' = Works(a, t)
      BY <3>1
    <3>3. Waits(a, t) = {} => Waits(a, t)' = {}
      BY <2>2
    <3>4. \A i, j \in Waits(a, t)' : i = j
      <4> SUFFICES ASSUME NEW i \in Waits(a, t)', NEW j \in Waits(a, t)'
                   PROVE  i = j
        OBVIOUS
      <4>1. i \in Nat /\ j \in Nat /\ i + 1 = j + 1
        BY <2>1, <2>2 DEF Once
      <4> QED BY <4>1
    <3> QED BY <1>1, <1>2, <2>1, <3>2, <3>3, <3>4 DEF Once
  <2> QED BY <2>3, <2>4
<1> QED BY <1>1, <1>3 DEF Earned

----------------------------------------------------------------------------
LEMMA OriginKept ==
    ASSUME Ground, NEW a \in Animals, Bought(a)
    PROVE  origin'[a] = origin[a]
<1>1. ASSUME NEW b \in Animals, BuyAnimal(b)
      PROVE  origin'[a] = origin[a]
  <2>1. origin' = [origin EXCEPT ![b] = lastSchedule] /\ a # b
    BY <1>1 DEF BuyAnimal
  <2> QED BY <2>1, GroundParts DEF AnimalTypes, HistoryTypes
<1> QED BY <1>1, GroundParts, OriginEffect

LEMMA QuietEarned ==
    ASSUME Ground, NEW a \in Animals, Bought(a), a \notin displaced',
           NEW C, Earned(a, C), queue' = queue, Quiet, uncommitted' = 0, ~rerunJobs',
           \A w \in Workers : ~TakeJob(w) /\ ~SaveAnimals(w)
    PROVE  Earned(a, C)'
<1>1. origin'[a] = origin[a] /\ given'[a] = given[a]
  BY GroundParts, GivenEffect, OriginKept
<1>2. \A t \in Int : Sent(t) => Sent(t)'
  BY DEF Quiet
<1>3. ASSUME NEW t \in Int
      PROVE  Once(a, C, t)'
  <2>1. Once(a, C, t)
    BY DEF Earned
  <2>2. Waits(a, t)' = Waits(a, t)
    BY WaitsStay
  <2>3. Works(a, t)' \subseteq Works(a, t)
    <3>1. \A v \in Workers : v \in Works(a, t)' => v \in Works(a, t)
      BY WorksMove
    <3> QED BY <3>1 DEF Works
  <2> QED BY <1>1, <1>2, <2>1, <2>2, <2>3 DEF Once
<1> QED BY <1>1, <1>3 DEF Earned

LEMMA SaveEarned ==
    ASSUME Ground, Premise, NEW a \in Animals, Bought(a), a \notin displaced',
           NEW C, Earned(a, C), queue' = queue, Quiet, uncommitted' = 0, ~rerunJobs',
           NEW w \in Workers, SaveAnimals(w)
    PROVE  \E D : Earned(a, D)'
<1> DEFINE job == work[w].job
           held == a \in DOMAIN work[w].held
<1>0. PICK D : D = IF held THEN C \cup Span(job) ELSE C
  OBVIOUS
<1>1. /\ \A v \in Workers : ~TakeJob(v)
      /\ job \in Scheduler!Job /\ job.elapsed >= 0
      /\ \A t : w \in Works(a, t) <=> Owes(job, a, t)
      /\ given'[a] = IF held THEN given[a] + job.elapsed ELSE given[a]
      /\ held => Hits(a, job)
  BY SaveGives DEF Premise
<1>2. /\ IsFiniteSet(Span(job)) /\ Cardinality(Span(job)) = job.elapsed /\ Span(job) \subseteq Int
      /\ IsFiniteSet(C) /\ given[a] <= Cardinality(C) /\ C \subseteq Int
  BY <1>1, SpanSize DEF Earned
<1>3. job.elapsed \in Int /\ given[a] \in Int
  BY <1>1, GroundParts DEF Scheduler!Job, AnimalTypes, HistoryTypes
<1>4. origin'[a] = origin[a]
  BY OriginKept
<1>5. \A t \in Int : Sent(t) => Sent(t)'
  BY DEF Quiet
<1> HIDE DEF job, held
<1>6. ASSUME held, NEW t \in Int
      PROVE  t \in Span(job) <=> w \in Works(a, t)
  BY <1>1, <1>6 DEF Owes
<1>7. IsFiniteSet(D) /\ given'[a] <= Cardinality(D) /\ D \subseteq Int
  <2>1. CASE held
    <3>1. C \cap Span(job) = {}
      <4> SUFFICES ASSUME NEW t \in C \cap Span(job)
                   PROVE  FALSE
        OBVIOUS
      <4>1. t \in Int /\ Once(a, C, t)
        BY <1>2 DEF Earned
      <4> QED BY <1>6, <2>1, <4>1 DEF Once
    <3>2. IsFiniteSet(C \cup Span(job))
      BY <1>2, FS_Union
    <3>3. Cardinality(C \cup Span(job)) =
                Cardinality(C) + Cardinality(Span(job)) - Cardinality(C \cap Span(job))
      BY <1>2, FS_Union
    <3>4. Cardinality(C \cap Span(job)) = 0
      BY <3>1, FS_EmptySet
    <3>5. Cardinality(C) \in Nat
      BY <1>2, FS_CardinalityType
    <3>6. given[a] + job.elapsed <= Cardinality(C \cup Span(job))
      BY <1>2, <1>3, <3>3, <3>4, <3>5
    <3> QED BY <1>0, <1>1, <1>2, <2>1, <3>2, <3>6
  <2>2. CASE ~held
    BY <1>0, <1>1, <1>2, <2>2
  <2> QED BY <2>1, <2>2
<1>8. ASSUME NEW t \in Int
      PROVE  Once(a, D, t)'
  <2>1. Once(a, C, t)
    BY DEF Earned
  <2>2. Waits(a, t)' = Waits(a, t)
    BY WaitsStay
  <2>3. Works(a, t)' \subseteq Works(a, t) \ {w}
    <3>1. \A v \in Workers : v \in Works(a, t)' => v \in Works(a, t)
      BY <1>1, WorksMove
    <3>2. w \notin Works(a, t)'
      BY <1>1, WorksMove
    <3> QED BY <3>1, <3>2 DEF Works
  <2>4. t \in D => t \in C \/ w \in Works(a, t)
    BY <1>0, <1>6
  <2> QED BY <1>4, <1>5, <2>1, <2>2, <2>3, <2>4 DEF Once
<1>9. Earned(a, D)'
  BY <1>7, <1>8 DEF Earned
<1> QED BY <1>9

LEMMA EarnedStep ==
    BaseInv /\ BaseInv' /\ PagesInv /\ EarnedInv /\ [Next]_vars => EarnedInv'
<1> SUFFICES ASSUME Ground, EarnedInv, Premise', NEW a \in Animals \ displaced', Bought(a)'
             PROVE  \E C : Earned(a, C)'
  BY DEF Ground, EarnedInv
<1>1. Premise /\ ~overlapped' /\ uncommitted' = 0 /\ ~rerunJobs'
  <2>1. (overlapped => overlapped') /\ (uncommitted' = 0 => uncommitted = 0)
    BY GroundParts, SchedulerEffect DEF Effect
  <2>2. rerunJobs => rerunJobs'
    BY GroundParts, RerunKept
  <2> QED BY <2>1, <2>2 DEF Premise
<1>2. a \notin displaced
  BY GroundParts, MarksGrow
<1>3. CASE ~Bought(a)
  <2>1. BuyAnimal(a)
    BY <1>3, GroundParts, RowFates DEF RowFate, Bought
  <2> QED BY <2>1, BoughtEarned
<1>4. CASE Bought(a)
  <2>1. PICK C : Earned(a, C)
    BY <1>1, <1>2, <1>4 DEF EarnedInv
  <2>2. ASSUME NEW h \in Scheduler!Handlers, Scheduler!AddBulk(h), UNCHANGED <<animals, accounts>>
        PROVE  Earned(a, C)'
    BY <1>1, <1>2, <1>4, <2>1, <2>2, TickEarned
  <2>3. ASSUME NEW w \in Workers, TakeJob(w)
        PROVE  Earned(a, C)'
    BY <1>4, <2>1, <2>3, TakeEarned
  <2>4. ASSUME queue' = queue, Quiet, NEW w \in Workers, SaveAnimals(w)
        PROVE  \E D : Earned(a, D)'
    BY <1>1, <1>4, <2>1, <2>4, SaveEarned
  <2>5. ASSUME queue' = queue, Quiet, \A w \in Workers : ~TakeJob(w) /\ ~SaveAnimals(w)
        PROVE  Earned(a, C)'
    BY <1>1, <1>4, <2>1, <2>5, QuietEarned
  <2>6. \/ queue' = queue /\ Quiet
        \/ \E h \in Scheduler!Handlers : Scheduler!AddBulk(h) /\ UNCHANGED <<animals, accounts>>
        \/ \E w \in Workers : TakeJob(w)
    BY <1>1, GroundParts, SchedulerEffect
  <2> QED BY <2>2, <2>3, <2>4, <2>5, <2>6
<1> QED BY <1>3, <1>4

(* No second is given twice: within two batches of animals, unless a job   *)
(* ran twice, an enqueue was not committed or its place moved under a      *)
(* waiting job, an animal is given no more time than has passed since the  *)
(* schedule before its purchase.                                           *)
THEOREM AnimalTimeEarned == Spec => []NoUnearnedTime
<1>1. Init => EarnedInv
  <2> SUFFICES ASSUME Init, NEW a \in Animals
               PROVE  Earned(a, {})
    BY DEF EarnedInv
  <2>1. given[a] = 0 /\ queue = <<>> /\ \A w \in Workers : work[w] = Idle
    BY DEF Init, Scheduler!Init
  <2>2. \A t \in Int : Waits(a, t) = {} /\ Works(a, t) = {}
    BY <2>1 DEF Waits, Works, Pending, At
  <2> QED BY <2>1, <2>2, FS_EmptySet DEF Earned, Once
<1>2. BaseInv /\ PagesInv /\ EarnedInv => NoUnearnedTime
  <2> SUFFICES ASSUME BaseInv, PagesInv, EarnedInv, Premise,
                      NEW a \in Animals \ displaced, Bought(a)
               PROVE  given[a] <= clock - origin[a]
    BY DEF NoUnearnedTime, Premise
  <2>1. PICK C : Earned(a, C)
    BY DEF EarnedInv
  <2>2. /\ clock \in Nat /\ lastSchedule \in Nat /\ lastSchedule <= clock
        /\ given[a] \in Int /\ origin[a] \in Nat
    <3>1. clock \in Nat /\ lastSchedule \in Nat /\ lastSchedule <= clock
      BY DEF BaseInv, TickInv, Scheduler!TypeOK, Scheduler!SerialTick
    <3>2. given[a] \in Int /\ origin[a] \in Nat
      BY DEF BaseInv, AnimalTypes, HistoryTypes
    <3> QED BY <3>1, <3>2
  <2>3. origin[a] <= clock
    <3>1. origin[a] <= lastSchedule
      BY DEF PagesInv, DatesInv, Premise
    <3> QED BY <2>2, <3>1
  <2> DEFINE span == origin[a] .. clock - 1
  <2>4. C \subseteq span
    <3> SUFFICES ASSUME NEW t \in C
                 PROVE  t \in span
      OBVIOUS
    <3>1. t \in Int /\ origin[a] <= t /\ Sent(t)
      BY <2>1 DEF Earned, Once
    <3>2. t < clock
      BY <3>1, SentIsPast DEF BaseInv
    <3> QED BY <2>2, <3>1, <3>2
  <2>5. IsFiniteSet(span) /\ Cardinality(span) = IF origin[a] > clock - 1 THEN 0
                                                 ELSE (clock - 1) - origin[a] + 1
    <3>1. origin[a] \in Int /\ clock - 1 \in Int
      BY <2>2
    <3> QED BY <3>1, FS_Interval
  <2> HIDE DEF span
  <2>6. Cardinality(C) <= Cardinality(span) /\ Cardinality(C) \in Nat /\ given[a] <= Cardinality(C)
    BY <2>1, <2>4, <2>5, FS_Subset, FS_CardinalityType DEF Earned
  <2> QED BY <2>2, <2>3, <2>5, <2>6
<1> QED BY <1>1, <1>2, BaseInvariant, PagesInvariant, EarnedStep, PTL DEF Spec
=============================================================================
