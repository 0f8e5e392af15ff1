-------------------------- MODULE AnimalLifecycle --------------------------
(***************************************************************************)
(* The animal_infos rows end to end: the scheduler that turns seconds into *)
(* jobs (cron-scheduler/src/animal), the queue, the workers that make the  *)
(* animals grow, hunger, sicken and yield (cron-worker/src/animal), and    *)
(* the requests that feed, cure and steal (farming, community, shop).      *)
(*                                                                         *)
(* AnimalService.handle is the handler of GrowthScheduler over the rows    *)
(* that do not yield: its actions come from an instance of that module,    *)
(* and SchedulerImplemented says that all of this together is one.         *)
(*                                                                         *)
(* A definition marked (slip: ...) is a mistake a change of the code could *)
(* make in the definition that follows; no action uses it.                 *)
(***************************************************************************)
EXTENDS Integers, FiniteSets, Sequences

CONSTANTS
    Animals,      \* animals that may be bought
    Workers,      \* animal worker processes, one job each at a time
    Requests,     \* gameplay requests in flight
    GrowthTime, HungerTime, YieldTime,  \* the animals table
    MinHarvest, MaxHarvest,
    SpeedUpTime,  \* what one AnimalSpeedUp row adds to a job
    Replicas, Slots, SpeedUps, BatchSize,         \* of the scheduler
    MaxClock, MaxQueue, MaxUncommitted            \* bounds of the scheduler

ASSUME AnimalAssumption ==
    /\ IsFiniteSet(Animals)
    /\ GrowthTime \in Nat /\ HungerTime \in Nat \ {0} /\ YieldTime \in Nat \ {0}
    /\ MinHarvest \in Nat /\ MaxHarvest \in Nat /\ MinHarvest <= MaxHarvest
    /\ (MinHarvest + MaxHarvest) % 2 = 0
    /\ SpeedUpTime \in Nat
    /\ IsFiniteSet(Replicas) /\ IsFiniteSet(Slots) /\ IsFiniteSet(SpeedUps)
    /\ BatchSize \in Nat \ {0}
    /\ MaxClock \in Nat /\ MaxQueue \in Nat /\ MaxUncommitted \in Nat

VARIABLES   \* of the scheduler, see GrowthScheduler
    clock, speedUps, unsent, lastSchedule, queue, isLeader,
    phase, utcNow, count, found, date,
    credited, applied, repeated, exposed, overlapped, uncommitted

VARIABLES
    row,      \* the animal_infos row of each animal, NoRow until it is bought
    herd,     \* animals in the order of createdAt
    work,     \* the job each worker is at, and the rows it has read
    request   \* what each request has read, NoRequest when idle

(***************************************************************************)
(* History of the run, read by the properties and by no guard.             *)
(***************************************************************************)
VARIABLES
    origin,     \* the last schedule when an animal was bought
    given,      \* seconds of the saved jobs that read an animal, boosts apart
    stolen,     \* products thieves have taken from an animal
    clobbered,  \* animals whose row was written from an outdated read
    displaced,  \* animals whose place in the listing moved under a waiting job
    lostJobs,   \* jobs that failed or were given up
    rerunJobs   \* jobs that were handed out a second time

animals   == <<row, herd, work, request>>
accounts  == <<origin, given, stolen, clobbered, displaced, lostJobs, rerunJobs>>
scheduler == <<clock, speedUps, unsent, lastSchedule, queue, isLeader,
               phase, utcNow, count, found, date,
               credited, applied, repeated, exposed, overlapped, uncommitted>>
vars == <<scheduler, animals, accounts>>

States == {"normal", "hungry", "sick", "yield"}
AnimalInfo == [isAdult : BOOLEAN, growth : Int, hunger : Int, yield : Int,
               state : States, quantity : Nat, alreadySick : BOOLEAN,
               createdAt : Nat]
NoRow == [none |-> "row"]
NewlyBought(now) ==
    [isAdult |-> FALSE, growth |-> 0, hunger |-> 0, yield |-> 0,
     state |-> "normal", quantity |-> 0, alreadySick |-> FALSE, createdAt |-> now]

Bought(a) == row[a] # NoRow

(* Not(Hungry) && Not(Yield) is JavaScript's "and" of two objects, that is *)
(* Not(Yield): hungry animals go on growing.                               *)
Growing(a) == Bought(a) /\ row[a].state # "yield"

Scheduler == INSTANCE GrowthScheduler WITH
    rows    <- Cardinality({a \in Animals : Growing(a)}),
    MaxRows <- Cardinality(Animals)

Idle == [none |-> "job"]
NoRequest == [none |-> "request"]
Nothing == [a \in {} |-> NoRow]
At(w, stage) == work[w] # Idle /\ work[w].stage = stage
Min2(a, b) == IF a <= b THEN a ELSE b

----------------------------------------------------------------------------
(* What a job does to one row, AnimalWorker.process: the young grow, then  *)
(* turn adult and hungry at the first job after their growth; adults       *)
(* yield, sick ones half as much, and may sicken at exactly half time.     *)
AverageHarvest == (MinHarvest + MaxHarvest) \div 2

Young(r, seconds) ==
    LET hunger == r.hunger + seconds IN
    [r EXCEPT !.growth = r.growth + seconds,
              !.hunger = hunger,
              !.state = IF hunger >= HungerTime THEN "hungry" ELSE r.state]

Matured(r) == [r EXCEPT !.isAdult = TRUE, !.state = "hungry"]

(* (slip: the sick yield in full)                                          *)
YieldedInFull(r) ==
    [r EXCEPT !.yield = 0, !.state = "yield", !.quantity = MaxHarvest,
              !.alreadySick = r.alreadySick \/ r.state = "sick"]

Yielded(r) ==
    [r EXCEPT !.yield = 0,
              !.state = "yield",
              !.quantity = IF r.state = "sick" THEN AverageHarvest ELSE MaxHarvest,
              !.alreadySick = r.alreadySick \/ r.state = "sick"]

Adult(r, seconds) ==
    LET older == [r EXCEPT !.yield = r.yield + seconds] IN
    IF older.yield >= YieldTime THEN {Yielded(r)}
    ELSE {older} \cup {[older EXCEPT !.state = "sick"] : half \in
                           {2 * older.yield} \cap {YieldTime}}

Grown(r, seconds) ==
    IF r.isAdult THEN Adult(r, seconds)
    ELSE IF r.growth < GrowthTime THEN {Young(r, seconds)}
    ELSE {Matured(r)}

JobTime(job) == job.elapsed + Cardinality(job.boosts) * SpeedUpTime

(* The rows a job reads, oldest first; skip and take count within what the *)
(* where clause leaves.                                                    *)
Earlier(a, b) == \E i, j \in DOMAIN herd : i < j /\ herd[i] = a /\ herd[j] = b

(* (slip: skip is taken for the place of the last row before the page)     *)
PageFromNext(job) ==
    LET listed == {a \in Animals : Growing(a) /\ row[a].createdAt <= job.utcTime}
        place(a) == Cardinality({b \in listed : Earlier(b, a)})
    IN  {a \in listed : place(a) \in job.skip + 1 .. job.skip + job.take}

(* (slip: every job reads the whole listing)                               *)
PageOfAllRows(job) ==
    {a \in Animals : Growing(a) /\ row[a].createdAt <= job.utcTime}

Page(job) ==
    LET listed == {a \in Animals : Growing(a) /\ row[a].createdAt <= job.utcTime}
        place(a) == Cardinality({b \in listed : Earlier(b, a)})
    IN  {a \in listed : place(a) \in job.skip .. job.skip + job.take - 1}

----------------------------------------------------------------------------
(* An animal is there already, just bought or grown up and fed since, or   *)
(* may be bought.                                                          *)
GrownUp(seconds, state) ==
    [NewlyBought(0) EXCEPT !.isAdult = TRUE, !.growth = GrowthTime,
                           !.yield = seconds, !.state = state]

Init ==
    /\ row \in [Animals -> {NoRow, NewlyBought(0), GrownUp(0, "normal"),
                            GrownUp(YieldTime \div 2, "sick")}]
    /\ herd \in {s \in [1 .. Cardinality({a \in Animals : Bought(a)}) -> Animals] :
                    {s[i] : i \in DOMAIN s} = {a \in Animals : Bought(a)}}
    /\ work = [w \in Workers |-> Idle]
    /\ request = [q \in Requests |-> NoRequest]
    /\ origin = [a \in Animals |-> 0]
    /\ given = [a \in Animals |-> 0]
    /\ stolen = [a \in Animals |-> 0]
    /\ clobbered = {}
    /\ displaced = {}
    /\ lostJobs = FALSE
    /\ rerunJobs = FALSE
    /\ Scheduler!Init

(* AnimalService: each step of its handler, and what surrounds it.  Cron   *)
(* fires once a second, so not again in a second that is settled already.  *)
AnimalServiceStep ==
    /\ UNCHANGED <<animals, accounts>>
    /\ \/ \E h \in Scheduler!Handlers :
            \/ lastSchedule < clock /\ Scheduler!StartHandler(h)
            \/ Scheduler!CountRows(h)
            \/ Scheduler!FindSpeedUps(h)
            \/ Scheduler!ReadLastSchedule(h)
            \/ Scheduler!AddBulk(h)
            \/ Scheduler!CommitSchedule(h)
            \/ Scheduler!FailHandler(h)
       \/ \E r \in Replicas :
            \/ Scheduler!HandleLeaderElected(r)
            \/ Scheduler!HandleLeaderLost(r)
            \/ Scheduler!Crash(r)
       \/ \E s \in SpeedUps : Scheduler!InsertSpeedUp(s)
       \/ Scheduler!Second

----------------------------------------------------------------------------
(* The worker.                                                             *)
TakeJob(w) ==
    /\ work[w] = Idle
    /\ UNCHANGED <<row, herd, request, accounts>>
    /\ Scheduler!TakeJob
    /\ work' = [work EXCEPT ![w] = [job |-> Head(queue), stage |-> "taken",
                                    held |-> Nothing, again |-> FALSE]]

ReadAnimals(w) ==
    /\ At(w, "taken")
    /\ work' = [work EXCEPT ![w].stage = "read",
                            ![w].held = [a \in Page(work[w].job) |-> row[a]]]
    /\ UNCHANGED <<scheduler, row, herd, request, accounts>>

(* History: an animal that leaves or enters the listing moves the ones     *)
(* after it, which matters to the jobs that have not saved their page yet, *)
(* and, when it enters, to a handler that has counted already.             *)
Unsaved(S) == {w \in S : At(w, "taken") \/ At(w, "read")}
NoteDisplaced(others) ==
    displaced' = displaced \cup
        {a \in Animals : \E b \in Animals :
            /\ Earlier(b, a) /\ Growing(b) # Growing(b)'
            /\ \/ queue # <<>> \/ Unsaved(others) # {}
               \/ ~Growing(b) /\ \E h \in Scheduler!Handlers : Scheduler!Busy(h)}

(* The rows are written back whole, in one transaction.                    *)
SaveAnimals(w) ==
    LET held == work[w].held IN
    /\ At(w, "read")
    /\ \E new \in [DOMAIN held -> UNION {Grown(held[a], JobTime(work[w].job)) : a \in DOMAIN held}] :
        /\ \A a \in DOMAIN held : new[a] \in Grown(held[a], JobTime(work[w].job))
        /\ row' = [a \in Animals |-> IF a \in DOMAIN held THEN new[a] ELSE row[a]]
    /\ work' = [work EXCEPT ![w].stage = "saved", ![w].held = Nothing]
    /\ given' = [a \in Animals |-> IF a \in DOMAIN held
                                   THEN given[a] + work[w].job.elapsed ELSE given[a]]
    /\ clobbered' = clobbered \cup {a \in DOMAIN held : held[a] # row[a]}
    /\ NoteDisplaced(Workers \ {w})
    /\ UNCHANGED <<scheduler, herd, request, origin, stolen, lostJobs, rerunJobs>>

CompleteJob(w) ==
    /\ At(w, "saved")
    /\ work' = [work EXCEPT ![w] = Idle]
    /\ UNCHANGED <<scheduler, row, herd, request, accounts>>

(* (slip: a failed job goes back to the end of the queue)                  *)
FailJobRetried(w) ==
    /\ At(w, "taken") \/ At(w, "read")
    /\ work' = [work EXCEPT ![w] = Idle]
    /\ queue' = Append(queue, work[w].job)
    /\ UNCHANGED <<clock, speedUps, unsent, lastSchedule, isLeader, phase,
                   utcNow, count, found, date, credited, applied, repeated,
                   exposed, overlapped, uncommitted,
                   row, herd, request, accounts>>

(* An error rolls the transaction back and fails the job: one attempt.     *)
FailJob(w) ==
    /\ At(w, "taken") \/ At(w, "read")
    /\ work' = [work EXCEPT ![w] = Idle]
    /\ lostJobs' = TRUE
    /\ UNCHANGED <<scheduler, row, herd, request, origin, given, stolen,
                   clobbered, displaced, rerunJobs>>

(* The process dies, the rows it saved stay saved; the queue finds the job *)
(* stalled and hands it out again, once.                                   *)
CrashWorker(w) ==
    /\ work[w] # Idle
    /\ work' = [work EXCEPT ![w] = IF work[w].again THEN Idle
                                   ELSE [@ EXCEPT !.stage = "taken", !.held = Nothing,
                                                  !.again = TRUE]]
    /\ lostJobs' = (lostJobs \/ (work[w].again /\ work[w].stage # "saved"))
    /\ rerunJobs' = (rerunJobs \/ ~work[w].again)
    /\ UNCHANGED <<scheduler, row, herd, request, origin, given, stolen,
                   clobbered, displaced>>

----------------------------------------------------------------------------
(* The requests: a read with its guards, then a transaction.               *)
(* Ticks fall on whole seconds and purchases between them: createdAt, cut  *)
(* to seconds, is that of the next tick.                                   *)
BuyAnimal(a) ==
    /\ ~Bought(a)
    /\ row' = [row EXCEPT ![a] = NewlyBought(clock + 1)]
    /\ herd' = Append(herd, a)
    /\ origin' = [origin EXCEPT ![a] = lastSchedule]
    /\ UNCHANGED <<scheduler, work, request, given, stolen, clobbered,
                   displaced, lostJobs, rerunJobs>>

Columns == [feed |-> {"hunger"}, cure |-> {}, thief |-> {"quantity"}]

Read(q, op, a, state) ==
    /\ request[q] = NoRequest
    /\ Bought(a) /\ row[a].state = state
    /\ request' = [request EXCEPT ![q] =
                      [op |-> op, animal |-> a, seen |-> [c \in Columns[op] |-> row[a][c]]]]
    /\ UNCHANGED <<scheduler, row, herd, work, accounts>>

ReadFeedAnimal(q, a)     == Read(q, "feed", a, "hungry")
ReadCureAnimal(q, a)     == Read(q, "cure", a, "sick")
ReadHelpCureAnimal(q, a) == Read(q, "cure", a, "sick")
ReadThiefAnimalProduct(q, a) ==
    /\ Bought(a) /\ row[a].quantity # MinHarvest
    /\ Read(q, "thief", a, "yield")

Asks(q, op) == request[q] # NoRequest /\ request[q].op = op
Done(q) ==
    /\ request' = [request EXCEPT ![q] = NoRequest]
    /\ UNCHANGED <<scheduler, herd, work, origin, given, lostJobs, rerunJobs>>
NotedIf(outdated, q) ==
    /\ clobbered' = IF outdated THEN clobbered \cup {request[q].animal} ELSE clobbered
    /\ NoteDisplaced(Workers)

FeedAnimal(q) ==
    LET a == request[q].animal IN
    /\ Asks(q, "feed")
    /\ row' = [row EXCEPT ![a].state = "normal", ![a].hunger = 0]
    /\ NotedIf(row[a].state # "hungry" \/ row[a].hunger # request[q].seen.hunger, q)
    /\ Done(q)
    /\ UNCHANGED stolen

CureAnimal(q) ==
    /\ Asks(q, "cure")
    /\ row' = [row EXCEPT ![request[q].animal].state = "normal"]
    /\ NotedIf(row[request[q].animal].state # "sick", q)
    /\ Done(q)
    /\ UNCHANGED stolen

(* (slip: the floor is forgotten)                                          *)
ThiefAnimalProductNoFloor(q) ==
    LET a == request[q].animal IN
    /\ Asks(q, "thief")
    /\ \E computed \in 1 .. 3 :
        /\ row' = [row EXCEPT ![a].quantity = request[q].seen.quantity - computed]
        /\ stolen' = [stolen EXCEPT ![a] = @ + computed]
    /\ NotedIf(row[a].quantity # request[q].seen.quantity, q)
    /\ Done(q)

ThiefAnimalProduct(q) ==
    LET a    == request[q].animal
        seen == request[q].seen.quantity
    IN  /\ Asks(q, "thief")
        /\ \E computed \in 1 .. 3 :
            LET actual == Min2(computed, seen - MinHarvest) IN
            /\ row' = [row EXCEPT ![a].quantity = seen - actual]
            /\ stolen' = [stolen EXCEPT ![a] = @ + actual]
        /\ NotedIf(row[a].quantity # seen \/ row[a].state # "yield", q)
        /\ Done(q)

(* A later guard, an exception or the database refuses the request.        *)
AbortRequest(q) ==
    /\ request[q] # NoRequest
    /\ Done(q)
    /\ UNCHANGED <<row, stolen, clobbered, displaced>>

----------------------------------------------------------------------------
RequestStep(q) ==
    \/ \E a \in Animals :
        \/ ReadFeedAnimal(q, a)
        \/ ReadCureAnimal(q, a)
        \/ ReadHelpCureAnimal(q, a)
        \/ ReadThiefAnimalProduct(q, a)
    \/ FeedAnimal(q)
    \/ CureAnimal(q)
    \/ ThiefAnimalProduct(q)
    \/ AbortRequest(q)

Next ==
    \/ AnimalServiceStep
    \/ \E w \in Workers :
        \/ TakeJob(w)
        \/ ReadAnimals(w)
        \/ SaveAnimals(w)
        \/ CompleteJob(w)
        \/ FailJob(w)
        \/ CrashWorker(w)
    \/ \E a \in Animals : BuyAnimal(a)
    \/ \E q \in Requests : RequestStep(q)

Spec == Init /\ [][Next]_vars

----------------------------------------------------------------------------
(* Each variable holds a value the code can give it.                       *)
TypeOK ==
    /\ Scheduler!TypeOK
    /\ row \in [Animals -> AnimalInfo \cup {NoRow}]
    /\ herd \in Seq(Animals)
    /\ DOMAIN work = Workers
    /\ \A w \in Workers : work[w] # Idle =>
        /\ work[w].job \in Scheduler!Job
        /\ work[w].stage \in {"taken", "read", "saved"}
        /\ DOMAIN work[w].held \subseteq Animals
        /\ work[w].held \in [DOMAIN work[w].held -> AnimalInfo]
        /\ work[w].again \in BOOLEAN
    /\ DOMAIN request = Requests
    /\ \A q \in Requests : request[q] # NoRequest =>
        /\ request[q].op \in DOMAIN Columns /\ request[q].animal \in Animals
        /\ DOMAIN request[q].seen = Columns[request[q].op]
    /\ origin \in [Animals -> Nat]
    /\ given \in [Animals -> Int]
    /\ stolen \in [Animals -> Nat]
    /\ clobbered \subseteq Animals /\ displaced \subseteq Animals
    /\ lostJobs \in BOOLEAN /\ rerunJobs \in BOOLEAN

(* Workers, requests and scheduler together are the tick GrowthScheduler   *)
(* specifies, over the number of animals that do not yield: what is proved *)
(* of its Spec holds of the animal tick.                                   *)
SchedulerImplemented == Scheduler!Spec

(* Unless its row was written from an outdated read, what a yielding       *)
(* animal still holds and what thieves took make one harvest, the half one *)
(* exactly when it was sick as it began to yield.                          *)
HarvestConserved ==
    \A a \in Animals \ clobbered :
        Bought(a) /\ row[a].state = "yield"
        => row[a].quantity + stolen[a] =
               IF row[a].alreadySick THEN AverageHarvest ELSE MaxHarvest

(* Whatever overlaps, a yielding animal keeps the minimal harvest of its   *)
(* owner.                                                                  *)
QuantityFloor ==
    \A a \in Animals : Bought(a) /\ row[a].state = "yield"
                       => row[a].quantity >= MinHarvest

(* The jobs that are yet to give an animal their time.                     *)
Due(a) ==
    {queue[i] : i \in {j \in DOMAIN queue : a \in Page(queue[j])}}
    \cup {work[w].job : w \in {v \in Workers :
            \/ At(v, "taken") /\ a \in Page(work[v].job)
            \/ At(v, "read") /\ a \in DOMAIN work[v].held}}

(* No second is lost between the scheduler's date and a row: unless a job  *)
(* failed, an outdated write hit the animal or its place in the listing    *)
(* moved under a waiting job, an animal that does not yield has been given *)
(* the time from its purchase to the last schedule, or a job that reads it *)
(* is on its way.                                                          *)
TimeReachesAnimals ==
    ~overlapped /\ ~lostJobs =>
        \A a \in Animals \ (clobbered \cup displaced) :
            Growing(a) /\ Due(a) = {}
            => given[a] >= lastSchedule - row[a].createdAt

(* No second is given twice: as long as the animals make at most two       *)
(* batches (from the third on the pages of a tick overlap, PagesApart),    *)
(* unless a job ran twice, an enqueue was not committed or its place in    *)
(* the listing moved under a waiting job, the time an animal was given     *)
(* fits between its purchase and now, counted from the schedule before     *)
(* its purchase: the idle time since then is the only unearned time.       *)
NoUnearnedTime ==
    /\ Cardinality(Animals) <= 2 * BatchSize
    /\ ~overlapped /\ uncommitted = 0 /\ ~rerunJobs
    => \A a \in Animals \ displaced :
            Bought(a) => given[a] <= clock - origin[a]
=============================================================================
