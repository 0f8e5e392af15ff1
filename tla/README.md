# CiFarm server: a TLA+ model of its core

TLA+ modules, TLC configurations and TLAPS proofs for the CiFarm game server
(a NestJS monorepo: applications under `src/apps`, shared library under
`src/src`). Paths below are relative to those two roots. `PROJECT.json` maps
every definition to the lines it models, lists the runs, the slips each
property catches, the hazards of the code and the theorems.

Contents: 1 the system, 2 the modules, 3 the runs, 4 the proofs, 5 what the
model shows of the code, 6 what is left out, 7 what could follow.

## 1. The system

Players plant crops, raise animals, steal from and help neighbours, deliver
products. Requests go through a gateway to the **gameplay-service**, which
reads and writes one PostgreSQL database. Time passes in two other processes:
the **cron-scheduler**, replicated, of which the elected leader turns every
second into jobs of a Redis queue (bull); and the **cron-worker**, replicated,
which takes jobs and writes the same rows as the requests. **io-gameplay**
shows farms to connected clients, and the **cli** seeds the reference data.
There is no locking beyond the database's transactions: nearly every operation
reads outside a transaction, decides, and writes *absolute* values inside one.

| component | state it keeps | operations | what is hard | what makes it correct |
|---|---|---|---|---|
| crop scheduler (`cron-scheduler/src/crop`) | `TempEntity CropGrowthLastSchedule`, `CropSpeedUp` rows, the queue, its leader flag | the every-second `handle`; leader elected / lost | asynchronous handlers overlap; jobs are enqueued *before* the commit of the date; the transaction deletes every speed-up; crashes; two leaders | no second is lost or given twice; no speed-up is lost or applied twice; the date catches up with the clock; the batches cover the rows |
| animal, energy schedulers | the same, over animals and users | the same | the same; rows leave the listing while jobs wait | the same, down to the single row |
| delivery scheduler | the flag `DeliverInstantly` in the cache | one batch of jobs at midnight, or when asked | every replica deletes the flag, one enqueues | what is sent is settled |
| leader election (`src/kubernetes/leader-election`) | the Kubernetes Lease; per process a flag, a renewal timer, a watch | try at bootstrap, renew, release on SIGTERM, react to watch events | answers lost, events 2 s late, watches that end, replaces that race | the lease changes hands only when free; a leader without the lease finds out |
| crop, animal workers (`cron-worker`) | none but the rows they have read | `process` one job | whole rows are saved that were read earlier; pages over a set that changes; several stages in one job | a row's state accounts for the time it got; its quantity is one harvest |
| energy worker | the same, of users | `process` | it undoes purchases committed since | balances are what was earned and spent |
| delivery worker | the same, of parcels | `process` | writes nobody waits for; crashes between paying and deleting | a unit is kept, sent or paid for, once |
| crop and animal requests (`farming/*`, `community/*`) | rows of crops, animals, users, inventories | plant, water, herbicide, pesticide, fertilizer, feed, cure, the helps, thief | guard and write on different reads; thieves race each other and the worker | the owner's minimal harvest is kept; a cured crop stays cured |
| placement, follow | placed items, follow edges | move, place-tile, recover-tile, follow, unfollow | `move` and `unfollow` never commit; recover deletes a row a worker holds | an answer tells the truth; connections come back |
| delivery requests | delivering products | deliver, retain | race with the worker's payment | a product is either kept or sold |
| shop, upgrades, claims | golds, tokens, inventory, buildings | buy, construct, upgrade, daily reward, spin | lost updates of balances, stacks and buildings | no purchase is free, none is charged twice |
| gameplay rules (`src/gameplay`) | none | energy, level, balance and inventory arithmetic | boundaries of levels and stacks | quantities stay in their ranges |
| authentication | sessions; messages in the cache | request-message, generate-signature, verify, refresh | a session outlives its refresh; a first login beside others | a service acts for the user who logged in |
| rest-api-gateway and its contract | none | one route per operation, the guard, the gRPC client | four descriptions of one API, joined at run time | a request arrives whole, for its caller |
| io-gameplay | sockets and their rooms | connect, visit, return, pushes by timer, request and event | pushes overtake visits, changes and each other; Kafka repeats or loses | a client shows nothing undue and comes to show its farm as it is |
| seeding (`cli/src/database/seed`) | reference data, the table of the seeders that ran | run, force | a command that dies, a clear the keys refuse, players at work | what is tracked is there once; players keep what they own |
| subgraph, graphql-gateway, profile, bot, docker commands | none, or behind a call that cannot succeed | queries, commands | nothing of their own | not modelled |

Interaction: a scheduler counts rows and enqueues jobs; the workers read and
save these rows; the requests read and save the same rows on connections of one
pool; dev requests insert speed-ups that the scheduler deletes; the leader
election switches the schedulers on and off by events inside each process;
requests announce changes over Kafka to io-gameplay; everything reads what the
cli seeded.

## 2. The modules

### Time: scheduler, workers, leader election

**`GrowthScheduler`** is `CropService.handle` with one action per `await`:
`StartHandler` (the cron fires, the leader flag is asked once), `CountRows`,
`FindSpeedUps`, `ReadLastSchedule` (with the early return on count 0, after
the read and leaving the date), `AddBulk` (the jobs enter the queue),
`CommitSchedule` (delete every speed-up, store the date). `phase[h]` is the
await a handler stands at and `utcNow, count, found, date` its locals. A
replica has several `Slots` because cron does not wait for the handler it
started. `FailHandler` is an await that throws, `Crash` the death of a process
at any point, `HandleLeaderElected`/`HandleLeaderLost` the two event handlers;
any number of replicas may believe they lead. The time of a job is kept as
`elapsed` and the set `boosts` of the speed-ups added to it. `credited`,
`applied`, `repeated`, `exposed`, `overlapped`, `uncommitted` record history
for the properties; no guard but a bound reads them.

**`EnergyScheduler`** is `EnergyService.handle`: the same handler over users,
whose number only grows. Its steps are those of `GrowthScheduler`, so that what
is proved of the ticks of crops holds of those of users.

**`AnimalLifecycle`** composes the animal scheduler, its queue, the workers and
the requests over the `animal_infos` rows. The scheduler's actions are those
of an instance of `GrowthScheduler` whose `rows` is the number of animals that
do not yield. `herd` is the listing by `createdAt` that `Page` pages over, so
an animal that begins to yield moves those behind it. `TakeJob`, `ReadAnimals`,
`SaveAnimals`, `CompleteJob` are a worker's job, `FailJob` its failure and
`CrashWorker` the stalled job that bull hands out again, once.
`Grown` is the worker's computation; the random draws are choices.
`SchedulerImplemented` states that the composition is a `GrowthScheduler`; it
is checked and proved.

**`CropLifecycle`** is one `seed_growth_info` row per tile between planting and
recovery. `ReadPage`/`SaveRows`/`FailJob` are a worker's job; each request is
a `Read...` action (its reads and guards) and a commit (its transaction) or
`AbortRequest`. `held` and `request` keep what was read, so that every other
process can commit in between. The worker writes back whole rows; a request
only the columns it changes. `Grown` is the worker's `while` loop in closed
form: the stages passed are a division capped by the loop's bound
(`growthStages + 1`, not `growthStages`), the state is any the random draws
allow. The database's own guards are kept, because the code leans on them:
the unique `placed_item_id` (a tile has one row), the foreign key with cascade
(recovering a tile), the integer column (a fractional average harvest makes
the save fail). `given`, `boosted`, `stolen` account for what a row was given,
until the first write that rests on an outdated read (`clobbered`).

**`LeaseLock`** is what the lease promises: one holder, taken by another node
only when free or expired. **`LeaderElection`** is `LeaderElectionService` in
each process and the API server they talk to. Every call is two or three steps
(read, write, answer), so that a write may succeed and its answer be lost. A
replace carries the `resourceVersion` of its read: each write makes every
lease read before `outdated`. Watch events wait in `events` for their 2 s timer
(`HandleLeaseUpdate`, `HandleLeaseDeletion`); `FireBecomeLeader` is the second
2 s timer, that leads without asking again; `renewalTimer` is
`leaseRenewalTimeout`. `WatchEnds` loses the events up to `WatchRestarts`.
`Lock` instantiates `LeaseLock` with the lease's `holder` and `fresh`: the
refinement mapping is the identity on these two.

### Money and goods

**`DeliveryPromise`** is what a player is promised: a unit is kept, sent or
paid for. **`Delivery`** is the detailed system: `ReadDeliver`/`DeliverProduct`
and `ReadRetain`/`RetainProduct` (read, then transaction),
`HandleDeliveryProducts`/`TriggerDeliveryProducts` of the scheduler, and the
worker, which starts one payment per user (`FindProducts`, `FindUser`,
`UpdateTokens`, `DeleteProducts`) and waits for none: `CompleteJob` asks
nothing of the payments, a job handed out twice starts a second one beside the
first. `PaidFor` maps a payment between its update and its delete to the
abstract state in which its parcels are gone already. `troubled` collects the
users a request or payment of whom rested on an old read; to them the abstract
specification drops its promise (`Drop`, of several at once when a worker that
pays them dies). A delivery is only compared with the inventory, so `ReadDeliver`
asks for quantities down to `-BelowZero` and a parcel is an integer number of
units. `ClearSeeders` is the seed command as far as parcels lose their product
(`cleared`). A payment that is not `Payable` throws where nobody awaits it
(`RefusePayment`), and an unhandled rejection ends the process: the worker
`Dies` with all its payments, as in a crash.

**`GameplayRules`** is `src/gameplay` as operators on rows (`AddGolds`,
`AddExperiences`, `ToppedUp`, `Regenerated`, ...). **`Economy`** is a player's
`users`, `inventories`, tiles, building and animals with everything that
writes them: purchases (of nothing, too: the quantity has no minimum),
construction, upgrade, daily reward, spin, the farming and stealing requests as
far as they touch the player, and the energy worker, whose jobs carry times
below zero when handlers of the scheduler overlap. Where the code finds a row by
its id and not by its owner, the action has the neighbour's cases: `BuyAnimal`
pays for an animal in a neighbour's building or houses a neighbour's in the
player's, `PlantSeed` takes a neighbour's seed or is a neighbour taking the
player's, `RecoverTile` of a neighbour's tile deletes nothing and adds a tile.
A request is `Begin` (reads, guards, and the values it will write) and
`Commit` or `Rollback`; `Commit` writes columns and whole inventory rows as
TypeORM's `save` and `update` do (a removed row is inserted again, an update
of a missing row does nothing). `books` is what a bookkeeper adds up from what
was committed; `conflicts` the columns and kinds of goods ever written from an
outdated read.

**`ConnectionPool`** is the pool all requests share. A request is a `Program`
of statements; `move` and `unfollow` have no `Commit`. A transaction left open
stays with its connection (`open`, `pending`) and is ended by the next user of
it, or by `CloseIdle`; until then `Blocked` requests wait for its rows. Whether
they are ever answered depends on timeouts of node-postgres and PostgreSQL that
this code leaves at their defaults, so the module states no liveness.
`RefuseToken` is `refresh` throwing before its `try`.

### Edges: gateway, clients, reference data

**`GameplayApi`** writes down the API as the code has it four times: request
classes, controllers and the modules that gather them, the protobuf service,
the routes of the gateway. **`Gateway`** is a request on its way: `Refuse` and
`Passes` of the guard, `Send` (the body, the user id spread over it, cut to the
fields of the message type), `FailToCall` for a method the protobuf service
lacks, and its controller. Messages, access tokens and sessions have times of
their own. `Serve` stands for all services modelled elsewhere.

**`PlacedItemsSync`** is io-gameplay: `HandleConnection`, `HandleVisit` (return
is a visit of oneself), `HandleDisconnect`, and pushes that read
(`GetPlacedItems`) and emit (`EmitPlacedItems`) each in a step of its own,
begun by the timer, a visit, a request or a Kafka event. An event is sent after
its commit (`Announce`), may be lost, or be delivered again. `farm[u]` counts
the changes of a farm, so a version stands for its content; `due` is the version
a push must not fall behind: that of the farm when the push was begun or, for an
event, the change it tells of. A push that has read may be overtaken before it
emits and bring an older state back; that this does not last is `FarmIsShown`.

**`Schema`** holds the keys of the tables and what a delete does along them,
**`Entities`** the ids and the column types, **`SeedData`** the rows the seeders
write, with assumptions that TLC evaluates: every row fits its entity, and what
the code looks up by an id of its own is there (`SeededDataFitsTheCode`). **`Seeding`** is the seed command on a database in
use: `Run`, `ClearSeeders` (all deletes in one transaction, rolled back when a
key refuses one), `LoadPending`, `RunSeeder` and `TrackSeeder` as two
statements, `AbortCommand` at any point, and the players' requests as far as
they insert or delete rows that refer to reference data.

The `MC...` modules add symmetry sets and definitions for TLC; the
`..._proofs` modules hold the theorems. A definition marked as a slip is a
plausible mistake in the definition that follows it; no action uses it, and
`PROJECT.json` pairs each with the property that catches it.

## 3. The runs

| run | instance | shows |
|---|---|---|
| `scheduler_safety` | 2 replicas, 1 handler each, 1 speed-up, 1 row, 3 instants | `NoTimeLost`, `TimeExact`, `ElapsedNotNegative`: while handlers do not overlap no time is lost or negative, and it is exact when every enqueue was committed; `SpeedUpLostOnlyInFlight`, `SpeedUpAppliedOnce`: the only ways a speed-up is lost or doubled |
| `scheduler_catchup` | 1 replica, 2 handlers, failures | `ScheduleCatchesUp`: a leader left in peace brings the date to the clock |
| `crop_races` | 1 tile, 2 workers, 2 requests, 3 stages | `QuantityFloor` and `MatureOnlyAtLastStage` survive every stale write; `HarvestConserved`, `StageClock`, `NeverFallsBack` hold until the first one |
| `leader_safety` | 2 nodes, 3 writes, 2 routines per node or 1 fault | `LeaseTakenOnlyWhenFree` (refinement of `LeaseLock`), `FalseLeaderFindsOut` |
| `animal_pipeline` | 2 animals in batches of 1, 2 workers, 1 request, 2 instants | `TimeReachesAnimals`, `NoUnearnedTime`: which second reaches an animal or is given twice, through scheduler, queue and worker (for animals of at most two batches: section 5); `HarvestConserved`, `QuantityFloor`; `SchedulerImplemented` (refinement of `GrowthScheduler`) |
| `delivery_promise` | 1 user, 2 units, 2 parcels of -1 to 2, 2 workers, 1 request, 1 reward | `DeliveryPromiseKept` (refinement of `DeliveryPromise`): kept, sent or paid once, until a request or payment rests on an old read, a delivery is below zero or goods are cleared |
| `delivery_settles` | 1 user, 1 unit, 2 parcels of -1 to 1, 1 worker, 1 request | `SentIsSettled`: nothing stays sent for ever, unless again and again some user cannot be paid; `TypeOK`: no stock below zero |
| `economy_estate` | 2 requests and the energy worker, 4 operations, 3 stacks, jobs of -1 and 3 | `NothingOverdrawn` and `StacksInBounds` survive every stale write; `BooksBalance`, `BuildingHonest`, `SpinsOnceADay`, `ProgressKept` hold until the first on their columns |
| `pool_shared` | 4 requests of 6 kinds, 2 connections | `AnswersTrue`, `PoolExact`: what transactions left open do to others, and who holds the connections |
| `io_clients` | 1 client, 2 farms, 2 visits, 3 pushes | `ShownIsDue`: no push shows what was out of date when it was begun; `FarmIsShown`: in the end a client shows its farm as it is |
| `seeding_database` | the seeded database, one farm of each kind of row, 1 dead command | `TrackedIsSeeded`, `FarmsSurviveSeeding`, `SeedingEnds` |
| `gateway_contract` | 3 calls of 2 users | violation of `RequestsArriveWhole` (section 5) |

Several properties hold only up to a circumstance named in them. That is the
point: the code does give time twice when a process dies between enqueue and
commit, does lose speed-ups inserted during a handler, does overwrite balances
from old reads. The properties say that *nothing else* has that effect. The
history variables that name the circumstance (`overlapped`, `clobbered`,
`displaced`, `troubled`, `conflicts`, `unrecorded`) are read by no guard. The
hazards in `PROJECT.json` name a property only where it would catch the hazard,
and say so in a note where it merely names it as its exception.

**Bounds.** Two handlers are what it takes for one to be overtaken, in one
process or in two; three instants give an overtaken handler a start strictly
between two others. One row is enough where only `count = 0` matters; `MaxQueue`
1 lets a handler wait for the worker. In `crop_races` two workers and two
requests give every pair that can collide on a row (worker/worker,
worker/request, request/request) with a third party that commits in between,
and three stages give the first, last-but-one and last stage their different
treatment. Paging is the business of `animal_pipeline`: two animals in batches
of one are two jobs, so one animal can leave the listing between them or while
the job of the other waits. Three writes
of the lease are what a stale replace needs (taken, changed, written over); two
routines of a node overlap until the first fault, then one is at work at a time
(`OverlapOrFault`); the proofs cover any number of both. One user with two
parcels and two workers gives a job run twice, a second payment beside the
first, and a request in either of their gaps; users do not share rows. One unit
below zero (`BelowZero`; the code has no bound, and the width of `int4` is not
modelled) is what a negative parcel and a negative total need. Four
operations by two requests and the worker are what a lost update of a column
needs (two that read, a third that commits between) with one more that builds
on it; `MaxStack` 2 and up to 2 units a purchase make stacks fill, split and
open; the first of `Capacities` is 1, so the building fills. A job of -1 takes
`energyRegenTime` below zero. Four requests on
two connections are two that leave their transactions open, one that meets a
connection or the rows, and one that waits for both. In `crop_races` the
harvests 1 and 3 have an even sum, for with an odd one no crop that was in need
is ever saved; with three stages no crop gets thirsty after its watering, so a
second watering is only in the theorems. In `io_clients` two farms
and two visits are there and back, one change each and three pushes let one
push overtake another in both gaps. A seed command that dies once, at any step,
is followed by any number of whole ones. `MaxClock`, `MaxQueue`,
`MaxUncommitted`, `MaxRows`, `MaxStage`, `MaxWrites`, `MaxTimers`,
`MaxRoutines`, `MaxFaults`, `MaxRewards`, `BelowZero`, `MaxRequests`, `MaxDays`, `MaxVisits`,
`MaxChanges`, `MaxPushes`, `MaxAborts` are the only guards that are not the
code's.

**Constraints and view.** `SomebodyOrderly` stops `delivery_promise` where no
promise is left to be kept; `WishesAreHeard` leaves out that a wish for an
instant delivery waits while nobody leads, after which it is dropped or heard as
if it had been made then; `OverlapOrFault` is above. `delivery_settles` has the
view `Guarded`, of all that guards, fairness and the property read: without it
tokens grow without end when a worker dies each time it has paid.

**Deadlock** is checked except in four runs. `leader_safety`: with the writes
used up and the nodes idle nothing is left to do, and even unbounded a set of
nodes that all gave up waits for a restart. `economy_estate`, `pool_shared` and
`gateway_contract`: their requests are made a bounded number of times, and once
all are answered nothing is left to do.

**Fairness**, in the four runs with a liveness property:

- `scheduler_catchup`: weak of `StartHandler`, `TakeJob`, `Second` (cron, the
  workers and time go on); strong of each step of a handler (errors of the
  database and of Redis are transient). Nothing is assumed of crashes or of the
  leader election but what the property names: that from some time on every
  replica leads and there are rows.
- `delivery_settles`: strong of the midnight tick, the listing and each step of
  a payment (midnight comes again, errors are transient), weak of taking and
  completing a job and of `RefusePayment`: what cannot be paid throws when the
  payment comes to it, which no repetition cures. Crashes remain possible at any
  time.
- `io_clients`: weak of the timer and the emit, strong of the read.
- `seeding_database`: the command is run again until all is seeded, its stages
  go on, and its transaction ends. It is not assumed that commands do not die.

Every passing property has a slip of the code that violates it under the same
configuration.

## 4. The proofs

For every value of the constants, with the named assumptions of the modules
(`ConstantsAssumption`, also of `EnergyScheduler`; `CropAssumption`;
`AnimalAssumption`; `LeaderAssumption`; `PoolAssumption`; `DeliveryAssumption`;
`RulesAssumption` and `EconomyAssumption`; none of `Gateway` and
`PlacedItemsSync`; of `Schema` that no cascade has more than three keys, which TLC
computes from the keys) and nothing else. The others say that numbers are natural and sets
of rows finite (of the animals also replicas, their handlers and speed-ups), that
batches, stacks, durations and the first quota of experiences are not zero, that
a crop has more than two stages, that an animal's two harvests have an even sum,
that the capacities of a building do not shrink as it is upgraded, and that prizes are of
the four types of `SpinPrizeType`: all true of the seeded rows, and the one of the
capacities checked of them (`SeedData`).

| theorem | states | by |
|---|---|---|
| `GrowthScheduler_proofs!TypeCorrect` | `Spec => []TypeOK` | induction |
| `...!BatchesCoverRows` | the jobs of a tick together read every counted row | arithmetic of `ceil` |
| `...!TimeNeverLost`, `TimeGivenExactly` | `NoTimeLost`, `TimeExact` | `SerialInv` |
| `...!SpeedUpFate` | `SpeedUpLostOnlyInFlight` | `SpeedUpInv` |
| `...!ElapsedKept` | `ElapsedNotNegative` | `SerialInv` |
| `...!SpeedUpOnce` | `SpeedUpAppliedOnce` | `OnceInv` |
| `...!PagesApart` | the pages of a tick are disjoint if and only if there are at most two batches of rows | arithmetic |
| `...!EnergyTimeKept` | `NoTimeLost`, `TimeExact`, `ElapsedNotNegative`, `SpeedUpAppliedOnce` of the energy tick | its steps are those of `GrowthScheduler` |
| `...!EnergyPagesReal` | no job reads past the users there are | `Within` |
| `CropLifecycle_proofs!TypeCorrect`, `FloorKept`, `MatureAtLastStage` | `TypeOK`, `QuantityFloor`, `MatureOnlyAtLastStage` | `CropInv` |
| `...!HarvestKept`, `StageClockKept`, `NeverBack` | `HarvestConserved`, `StageClock`, `NeverFallsBack` | `BooksInv` |
| `AnimalLifecycle_proofs!AnimalTickRefinesGrowth` | `SchedulerImplemented`: the animals implement `GrowthScheduler` | each step is one of its steps |
| `...!AnimalFloorKept` | `QuantityFloor` of the animals | `FloorInv` |
| `...!AnimalHarvestKept` | `HarvestConserved` of the animals | `HarvestInv` |
| `...!AnimalTypeCorrect` | `TypeOK` of the animals | `BaseInv` |
| `...!AnimalTimeReaches` | `TimeReachesAnimals`: no second is lost between the schedule and a row | `PagesInv`, `ReachInv` |
| `...!AnimalTimeEarned` | `NoUnearnedTime`: no second is given twice | `PagesInv`, `EarnedInv` |
| `Delivery_proofs!TypeCorrect` | `TypeOK`, with quantities of any sign | induction |
| `...!DeliveryKeepsPromise` | `Spec => DeliveryPromiseKept`: `Delivery` implements `DeliveryPromise` | `DeliveryInv` |
| `...!EveryUserOnOnePage` | every user that waits is on one page of a night's jobs, and on one only | arithmetic of `skip` and `take` |
| `Economy_proofs!TypesKept`, `NothingOverdrawnKept`, `StacksKept`, `BuildingKept`, `SpinsKept` | `TypeOK`, `NothingOverdrawn`, `StacksInBounds`, `BuildingHonest`, `SpinsOnceADay` | `EconomyInv` |
| `...!AddedSum` | `inventoryService.add` adds exactly the quantity, however it is split over rows | sums over finite sets |
| `...!BalancesKept` | `BalancesBooked`: `BooksBalance` of golds, tokens and energy | `EconomyInv` |
| `...!BooksKept` | `BooksBalance`, goods of every kind included | `EconomyInv` |
| `...!ProgressIsKept` | `Spec => ProgressKept` | `EconomyInv` |
| `ConnectionPool_proofs!TypeCorrect`, `AnswersKept`, `PoolKept` | `TypeOK`, `AnswersTrue`, `PoolExact` | `PoolInv` |
| `LeaderElection_proofs!TypeCorrect` | `TypeOK` | `TypeInv` |
| `...!LeaseRefinesLock` | `Spec => LeaseTakenOnlyWhenFree`: `LeaderElection` implements `LeaseLock` | `LeaseInv` |
| `...!FalseLeaderCaught` | `FalseLeaderFindsOut` | `FindsOutInv` |
| `Gateway_proofs!CallersKept` | `ActsForCaller`: a service acts for the user whose token it was, for whom a login was served | `IInv` |
| `...!ShownKept` | `ShownIsDue` of `PlacedItemsSync` | `SyncInv` |
| `...!NoKeyDangles` | a delete leaves no key that names a missing row, in any database | three rounds of cascades are closed |
| `...!ContractKeptElsewhere` | every method but the seven of section 5 fits the protobuf service | cases over the controllers |

None of these invariants is inductive alone. Of the refinements,
`SchedulerImplemented` is the nearest to holding by construction: the scheduler's
actions are those of the instance, and what is shown is that no other action
touches its variables but as a change of the rows it counts.

- **Time** (`SerialInv`). That credited time reaches the stored date says
  nothing of a handler about to move it. `SerialTick` adds that a serial handler
  started no earlier than the stored date, that the date it read is still the
  stored one, and that once it has enqueued, the credit reaches its own start.
- **Speed-ups** (`SpeedUpInv`). A handler between its find and its commit has
  found every speed-up that was not inserted under its eyes, and one at its
  commit has enqueued what it found: the delete-all can only hit those or
  exposed ones.
- **Speed-ups applied once** (`OnceInv`). That no speed-up was repeated says
  nothing of one about to be: the invariant adds that a serial handler works on
  none that was enqueued before, and that none such is left in the table unless
  its handler stands before its commit.
- **Animals as a scheduler.** Whatever workers, owners and thieves write to the
  rows, the scheduler sees a change of how many match its count query, between
  0 and all animals (`RowsInRange`); its own steps are those of the instance.
- **Harvest of the owner** (`FloorInv`). As with the crops, the floor must hold
  of what is *carried*: a worker that has read a page holds rows that do not
  yield (the query's filter), so that what it writes late yields at least
  half a harvest (`GrownKept`), and a thief has seen at least the floor.
- **Energy** (`Within`). A count a handler holds and a page in the queue are
  older than the number of users; they stay within it because users are never
  deleted. The crops have no such invariant: their count falls.
- **Crops** (`CropInv`). A worker or a thief may write what it read long ago, so
  the floor and the maturity must hold of what they *carry*: held rows are at
  least the minimal harvest and not mature (`HeldGrows`, by the query's filter),
  the quantity a thief saw is at least the minimal harvest (`SeenTyped`).
  `GrownRow` shows that one job takes such a row to a legal one.
- **Accounts of a crop** (`BooksInv`). The conservation of a harvest speaks of
  mature crops, the clock of planted ones; the invariant adds that an immature
  crop holds its whole harvest with nothing stolen, that a tile which may yet
  be planted has empty accounts, and that a request under way saw the state its
  guard asks for (`RequestsKnow`). Then a write whose row is still the one read
  moves both sides of each account alike; every other write ends the promise for
  its tile (`clobbered`). The closed form `Grown` is what makes a job of many
  stages one step of arithmetic (`GrownBooks`).
- **Harvest of an animal** (`HarvestInv`). The same, with the sickness an animal
  had on its way to its yield (`alreadySick`) deciding which harvest is shared
  out: a growing animal has no thief's account and was never sick.
- **Seconds of an animal** (`PagesInv`, `ReachInv`, `EarnedInv`). That all time
  has arrived, or that none arrived twice, does not say where a second is on its
  way. The proofs keep a ledger: each second the schedule has moved over (`Sent`)
  is in a job of the queue whose page has the animal (`Waits`), with a worker at
  such a job (`Works`), or in the set of seconds the row was given. `ReachInv`
  says that each has a place, `EarnedInv` that none has two; the time given is
  compared with the size of that set. Two groups of facts carry this. `TickInv`
  are the types and serial handlers of the scheduler, taken from
  `GrowthScheduler_proofs` through an instance. `PagesInv` ties rows to pages: a
  handler has counted every animal its jobs are to reach (`CountInv`), a worker
  holds just the undisplaced animals of its page (`HeldHits`), and no date lies
  in the future. By `BatchesCoverRows` a counted animal is on some page of a tick; within
  two batches it is on no other.
- **Pool** (`PoolInv`). An answer says nothing of the statements before it. The
  invariant follows the program counter: what a request at work has written
  waits on its own connection until its last commit (`AtWork`, `WrittenKept`);
  nothing of it but an account is committed before that statement, after which
  it cannot fail (`CommittedKnown`); a request that fails stands at its release
  (`Failing`), where the rollback has emptied the connection; and what waits on a
  connection nobody works on was left by a `move` or an `unfollow`. A request
  that meets such a connection commits or rolls back more than its own, which is
  why writes are followed by who made them and not by where they wait.
- **Promise of a delivery** (`DeliveryInv`). What a request or a payment has read
  is either still there or its rows are deleted: as long as none of the rows a
  payment has found is, its total is their worth (`PaymentFits`), so the step that
  updates the tokens is a `Pay` of exactly the parcels the mapping removes. A read
  that no longer holds makes its user `troubled`, and the step a `Drop`.
- **Estate of a player** (`EconomyInv`). Nothing locks what a request has read,
  so the bounds must hold of what transactions *carry*. `Sound`: the columns to
  be written are within the bounds of the level reached by now, rows to be saved
  are legal stacks, and the entry for the bookkeeper is what the transaction
  changes with respect to what it has *seen* (`Entered`). A commit onto an
  unchanged column therefore moves balance and books alike, one onto a changed
  column makes it a conflict, and both leave legal values. Two more facts make it
  inductive: all transactions agree on the kind of a row (`Agree`), for ids are
  not used again, or a save could put seeds into what has become a stack of
  supplies; and bounds grow with the highest level (`FitsGrow`), or a level won
  meanwhile would invalidate what is carried.
- **Goods** (`Stocked` and `GoodsEntered`, of `EconomyInv`). What a player has of
  a kind is a sum over rows; a transaction removes rows, tops some up and opens
  others. The invariant says of each transaction that the stacks of its kind it
  will write differ from those it has seen by its entry for the bookkeeper;
  `AddedSum` shows this of the inventory service. The model counts the units in a
  set of rows (`Units`), so that a sum is a cardinality and the library's facts
  about finite sets apply (`SumStep`, `SumParts`). What holds of every finite set
  of rows is proved by induction over subsets (`SetsFromBelow`), which
  `WellFoundedInduction` allows without an operator as parameter: among the sets
  without the property one would be smallest.
- **Type of attempts** (`TypeInv`). The count of attempts stays a natural number
  only because an attempt at work is one of those left.
- **Lease** (`LeaseInv`). A routine about to replace a lease nobody has written
  since its read knows it: free or expired if it acquires, its own if it renews
  or releases. Every write empties everybody else's knowledge (`LeaseWritten`).
  The refinement follows: each write is a `Take`, `Renew` or `Release`.
- **False leaders** (`FindsOutInv`). A renewal whose write is done no longer
  counts as something that will tell the node: what tells it then is the event
  of the write that came after, which a watching node always gets
  (`FindsOutWrite`). This is the strengthening; without it the answer of the
  renewal would break the invariant.
- **Callers** (`IInv`). That a request in flight names its bearer says
  nothing of where tokens come from: the invariant adds that every token and
  every session, however often refreshed, is of a user for whom a login was
  served.
- **Clients** (`SyncInv`). The invariant follows a push from its start until the
  client shows something else: it is due no change that is not committed
  (`Timely`), since the event that began it was sent after the commit
  (`Committed`), and every other push is due what the farm was when it began;
  once it has read, it has what is due; and if its farm is not the one the client
  observes, the client has made a visit since it began.
- **Deletes** (`NoKeyDangles`). What a deleted row leaves of its keys depends on
  three rules. A row that cascades to it is gone because a further round of
  deletes would concern tables one key further (`NextRound`), and after three
  rounds there are none; one whose key is set null forgets it; one with no action
  would have refused the delete.

What the proofs found of the model. `PagesApart` is false without its bound: from
the third batch on the pages of a tick overlap (section 5), so `NoUnearnedTime`,
which TLC had checked for two batches, now says so. `NothingOverdrawn` needs a
first quota above zero, `BuildingHonest` capacities that do not shrink. A worker's
crash ends several payments at once, which `DeliveryPromise` has to allow in one
step.

Only model-checked:

- Liveness (`ScheduleCatchesUp`, `SentIsSettled`, `FarmIsShown`,
  `SeedingEnds`): reasoning from fairness needs ENABLED, which is
  out of the prover's reach.
- `TypeOK`, `TrackedIsSeeded` and `FarmsSurviveSeeding` of `Seeding`. They are
  about one database, the seeded one, and what a clear deletes is a fold over its
  tables; of `TypeOK` the step of a single delete is `NoKeyDangles`. But for the bound `MaxAborts` the module has no constant, so that TLC
  explores all of it.

That the closed form `Grown` of a crop is what the loop of the worker computes
rests on reading them side by side: a loop would be a recursive function or a
fold, and what these compute for every input needs induction with an operator as
parameter, which the installed provers cannot instantiate.

## 5. What the model shows of the code

**A finding with a run** (`gateway_contract`). The gateway's gRPC client is made
of the protobuf files, whose messages and methods nothing holds to the request
classes. `helpUseHerbicide` and `updateTutorial` are in no protobuf service, so
their routes fail; `helpWater`, `helpUsePesticide`, `helpCureAnimal`,
`thiefCrop` and `upgradeBuilding` lose the id of the row they are about, and
TypeORM drops the condition on `undefined`, so any row of the user is taken.

**Behaviour the modules take over as it is**, each at its line; none of them is
what its comment, message or test suggests:

- `crop.service.ts:90` "split into 10000 per batch": `take` (:111) grows with
  the batch, so job *i* asks for *i + 1* batches. With more than two batches of
  rows pages overlap (`PagesApart`), and rows on two pages are given the time of
  the tick twice; energy and animals page the same way.
- `crop.worker.ts:65-106` asks for equality with the last stage after a loop
  that can step over it; such a crop never matures (`CropLifecycle!Grown`).
- `harvest-crop.service.ts:49` and `collect-animal-product` refuse exactly the
  rows they are for: nothing is ever harvested or collected.
- `crop.worker.ts:101` halves `min + max`; five of the six seeded crops have an
  odd sum, and an integer column: the save of the whole batch fails.
- `leader-election.service.ts:241`: a renewal schedules no other; the watch
  event of its write does. A leader whose watch is down while its lease is
  renewed and deleted never renews again.
- `move.service.ts:37` and `unfollow` start a transaction and never commit it;
  `move.service.spec.ts:56` expects the move to be visible.
- `refresh.service.ts:34` throws before its `try` block: the connection of a
  refused token is never released, with whatever transaction it carries.
- `spin.service.ts`: the loop over the chances breaks in its first round, so
  only common prizes are drawn. `claim-daily-reward.service.ts:33` compares
  instants for equality, so the reward can be claimed at any time.
- `buy-animal.service.ts:106` indexes the upgrades from zero by a level that
  counts from one: the capacity is that of the level above.
- `level.service.ts`: the comment beside the quota gives 225 for the third
  level, the formula 250; a level-up takes the quota off the experiences from
  before the gain, below zero.
- `help-water` names its field `neighborUserId` and the consumer asks for
  `userId`: its event shows nobody anything.
- `retain-product.service.ts`: for a parcel whose product was cleared the
  condition is null and ignored, so it returns as a product of any type.
- `deliver-product.service.ts:38` only refuses more than the inventory has, the
  class of the request has `@IsInt` without a minimum and the message is a signed
  `int32`: a delivery of -5 adds 5 units (a stack may outgrow its limit) and makes a
  parcel of -5, and `inventory.service.ts:13` adds nothing when it is taken back.
- `delivery.worker.ts:80` and `:85` throw for a parcel that lost its product or a
  total below zero, in a callback nobody awaits: the process ends. The parcels
  stay, so each night nobody on that page of users is paid who was not paid first.
- `recover-tile.service.ts:32` finds any tile, `:63` deletes it for its owner
  only: of a neighbour's tile nothing is deleted and a tile is added (`:68`).
- `plant-seed.service.ts:37` and `buy-animal.service.ts:48` take a seed or a
  building by its id, whoever owns it.
- `energy.worker.ts:62` adds the time of a job that overlapped handlers made
  negative: `energyRegenTime` falls below zero.
- `seed.command.ts` reports "Seed data cleared successfully." also when the
  clear was rolled back; when it goes through, it takes every placed item of
  every player. Fertilizer is seeded with the type of animal feed.

## 6. What is left out, and why

- Clocks of different machines: `fresh` is one judgement of expiry for all
  nodes. Skew beyond the lease duration would break the lock, as with any lease.
- Real durations: a call may take, and a timer may be late, as long as it
  likes. This only adds behaviours.
- An answer to `createLease` so late that the attempt finds the lease it has just
  created expired and writes it again: the model has the attempt lead at once.
- The branch of the leader election that leads without a lease outside
  Kubernetes, and the `awaitLeadership` option (it delays other start-up code).
- The reads of one request are one step in `Economy`, `CropLifecycle` and
  `AnimalLifecycle`: no request writes between its reads, and what others
  commit between two of them gives a read that is partly outdated.
- Random draws are choices among their possible results; prices, harvests and
  times are small numbers in place of the seeded ones.
- `harvest-crop` and `collect-animal-product` change no row and have no action.
- Signatures: which account a message is signed for is taken from the request
  (`call.shows`). For EVM chains, Solana and Algorand the key names it;
  for Aptos, Polkadot and Near (`verify-signature.service.ts:99`, `:117`, `:127`)
  it is the field `accountAddress`, which is not signed nor tied to the key. The
  verification itself and the NFT readers (`src/blockchain`) are libraries' work. Two first logins of one account at
  the same moment, which make two users, are not in `Gateway`.
- Concurrent seed commands; rows of one table with the same keys are one row
  in `Seeding`.
- Profile: its one method cannot be called (section 5). Subgraph and
  graphql-gateway: queries. Telegram bot, docker commands, health checks and
  the reading of the environment: no state of this system.
- That somebody leads again after a crash, a release or a failed renewal: nodes
  try at bootstrap and on a deletion only, so this rests on pods that restart.

## 7. What could follow

- `LeaderElection` with pods that restart, and that somebody leads in the end.
- Two users in `Economy`: a thief and the one he steals from.
