-------------------------- MODULE GrowthScheduler --------------------------
(***************************************************************************)
(* The every-second growth tick of the cron-scheduler: CropService.handle  *)
(* (apps/cron-scheduler/src/crop/crop.service.ts).  The animal and energy  *)
(* services run the same handler over their own rows, so this module is    *)
(* instantiated by the modules that model them.                            *)
(*                                                                         *)
(* A handler is asynchronous and cron starts a new one every second        *)
(* whatever the earlier ones are doing, so a replica runs up to |Slots|    *)
(* of them at once; several replicas may believe they lead at once.        *)
(***************************************************************************)
EXTENDS Integers, FiniteSets, Sequences

CONSTANTS
    Replicas,   \* the scheduler processes
    Slots,      \* handlers one process may have in flight
    SpeedUps,   \* the CropSpeedUp rows the dev endpoint may insert
    BatchSize,  \* bullData[BullQueueName.Crop].batchSize
    MaxRows,    \* bound: rows the count query may return
    MaxClock,   \* bound: the last second of the model
    MaxQueue,   \* bound: jobs waiting in the queue
    MaxUncommitted \* bound: handlers that end between enqueue and commit

ASSUME ConstantsAssumption ==
    /\ IsFiniteSet(Replicas)
    /\ IsFiniteSet(Slots)
    /\ BatchSize \in Nat \ {0}
    /\ MaxRows \in Nat
    /\ MaxClock \in Nat
    /\ MaxQueue \in Nat
    /\ MaxUncommitted \in Nat

VARIABLES
    clock,         \* wall clock, in seconds since the seeding
    rows,          \* rows the count query matches
    speedUps,      \* CropSpeedUp rows now in the table
    unsent,        \* speed-ups not inserted yet
    lastSchedule,  \* TempEntity CropGrowthLastSchedule, seeded with 0
    queue,         \* jobs of the bull queue, oldest first
    isLeader,      \* CropService.isLeader of each replica
    phase,         \* the await each handler is at
    utcNow, count, found, date  \* the locals of each handler

(***************************************************************************)
(* History of the run, read by the properties and by no guard.             *)
(***************************************************************************)
VARIABLES
    credited,      \* seconds enqueued so far, speed-ups apart
    applied,       \* speed-ups enqueued at least once
    repeated,      \* speed-ups enqueued at least twice
    exposed,       \* speed-ups inserted while some handler was in flight
    overlapped,    \* two handlers have been in flight at once
    uncommitted    \* handlers that enqueued and never committed

table   == <<rows, speedUps, unsent, lastSchedule>>
locals  == <<utcNow, count, found, date>>
history == <<credited, applied, repeated, exposed, overlapped, uncommitted>>
vars    == <<clock, table, queue, isLeader, phase, locals, history>>

Handlers == Replicas \X Slots
Phases   == {"idle", "count", "speedUps", "last", "addBulk", "commit"}
Busy(h)  == phase[h] # "idle"

Job == [skip : Nat, take : Nat, elapsed : Int, boosts : SUBSET SpeedUps,
        utcTime : Nat]

----------------------------------------------------------------------------
(* The jobs of one tick: ceil(count / BatchSize) of them.  The time of a   *)
(* job is elapsed plus the times of its boosts, kept apart here.           *)
BatchCount(n) == (n + BatchSize - 1) \div BatchSize

Min2(a, b) == IF a <= b THEN a ELSE b

Batches(n, elapsed, boosts, now) ==
    [i \in 1 .. BatchCount(n) |->
        [skip    |-> (i - 1) * BatchSize,
         take    |-> Min2(i * BatchSize, n),
         elapsed |-> elapsed,
         boosts  |-> boosts,
         utcTime |-> now]]

(* The handlers of S return or die: their locals go with them.             *)
End(S) ==
    /\ phase'  = [h \in Handlers |-> IF h \in S THEN "idle" ELSE phase[h]]
    /\ utcNow' = [h \in Handlers |-> IF h \in S THEN 0 ELSE utcNow[h]]
    /\ count'  = [h \in Handlers |-> IF h \in S THEN 0 ELSE count[h]]
    /\ found'  = [h \in Handlers |-> IF h \in S THEN {} ELSE found[h]]
    /\ date'   = [h \in Handlers |-> IF h \in S THEN 0 ELSE date[h]]

CountUncommitted(S) ==
    LET lost == Cardinality({h \in S : phase[h] = "commit"})
    IN  /\ uncommitted + lost <= MaxUncommitted
        /\ uncommitted' = uncommitted + lost

----------------------------------------------------------------------------
(* Slips a change of the handler could make; no action uses them.          *)

(* The date of the commit is read again instead of being the start's.      *)
CommitReadsClock(h) ==
    /\ phase[h] = "commit"
    /\ End({h})
    /\ speedUps' = {}
    /\ lastSchedule' = clock
    /\ UNCHANGED <<clock, rows, unsent, queue, isLeader, history>>

(* The transaction deletes the speed-ups and forgets the date.             *)
CommitKeepsDate(h) ==
    /\ phase[h] = "commit"
    /\ End({h})
    /\ speedUps' = {}
    /\ UNCHANGED <<clock, rows, unsent, lastSchedule, queue, isLeader, history>>

(* The transaction moves the date and leaves the speed-ups.                *)
CommitKeepsSpeedUps(h) ==
    /\ phase[h] = "commit"
    /\ End({h})
    /\ lastSchedule' = utcNow[h]
    /\ UNCHANGED <<clock, rows, unsent, speedUps, queue, isLeader, history>>

(* The transaction stores the length of the tick for its date.             *)
CommitStoresElapsed(h) ==
    /\ phase[h] = "commit"
    /\ End({h})
    /\ speedUps' = {}
    /\ lastSchedule' = utcNow[h] - date[h]
    /\ UNCHANGED <<clock, rows, unsent, queue, isLeader, history>>

(* The find sees no speed-up, as from a cache.                             *)
FindSpeedUpsStale(h) ==
    /\ phase[h] = "speedUps"
    /\ phase' = [phase EXCEPT ![h] = "last"]
    /\ found' = [found EXCEPT ![h] = {}]
    /\ UNCHANGED <<clock, table, queue, isLeader, utcNow, count, date, history>>

(* The early return on count 0 clears the speed-ups first.                 *)
ReadLastScheduleClearing(h) ==
    /\ phase[h] = "last"
    /\ \/ /\ count[h] = 0
          /\ End({h})
          /\ speedUps' = {}
       \/ /\ count[h] # 0
          /\ phase' = [phase EXCEPT ![h] = "addBulk"]
          /\ date' = [date EXCEPT ![h] = lastSchedule]
          /\ UNCHANGED <<utcNow, count, found, speedUps>>
    /\ UNCHANGED <<clock, rows, unsent, lastSchedule, queue, isLeader, history>>

(* The early return waits for a whole batch of rows.                       *)
ReadLastScheduleWholeBatch(h) ==
    /\ phase[h] = "last"
    /\ \/ /\ count[h] < BatchSize
          /\ End({h})
       \/ /\ count[h] >= BatchSize
          /\ phase' = [phase EXCEPT ![h] = "addBulk"]
          /\ date' = [date EXCEPT ![h] = lastSchedule]
          /\ UNCHANGED <<utcNow, count, found>>
    /\ UNCHANGED <<clock, table, queue, isLeader, history>>

(* Every tick is taken to last one second.                                 *)
AddBulkOneSecond(h) ==
    LET jobs == Batches(count[h], 1, found[h], utcNow[h])
    IN  /\ phase[h] = "addBulk"
        /\ Len(queue) + Len(jobs) <= MaxQueue
        /\ phase' = [phase EXCEPT ![h] = "commit"]
        /\ queue' = queue \o jobs
        /\ credited' = credited + 1
        /\ applied' = applied \cup found[h]
        /\ repeated' = repeated \cup (applied \cap found[h])
        /\ UNCHANGED <<clock, table, isLeader, locals, exposed, overlapped,
                       uncommitted>>

(* The difference is taken the wrong way round.                            *)
AddBulkReversed(h) ==
    LET elapsed == date[h] - utcNow[h]
        jobs    == Batches(count[h], elapsed, found[h], utcNow[h])
    IN  /\ phase[h] = "addBulk"
        /\ Len(queue) + Len(jobs) <= MaxQueue
        /\ phase' = [phase EXCEPT ![h] = "commit"]
        /\ queue' = queue \o jobs
        /\ credited' = credited + elapsed
        /\ applied' = applied \cup found[h]
        /\ repeated' = repeated \cup (applied \cap found[h])
        /\ UNCHANGED <<clock, table, isLeader, locals, exposed, overlapped,
                       uncommitted>>

----------------------------------------------------------------------------
Init ==
    /\ clock = 0
    /\ rows \in 0 .. MaxRows
    /\ speedUps = {}
    /\ unsent = SpeedUps
    /\ lastSchedule = 0
    /\ queue = <<>>
    /\ isLeader = [r \in Replicas |-> FALSE]
    /\ phase = [h \in Handlers |-> "idle"]
    /\ utcNow = [h \in Handlers |-> 0]
    /\ count = [h \in Handlers |-> 0]
    /\ found = [h \in Handlers |-> {}]
    /\ date = [h \in Handlers |-> 0]
    /\ credited = 0
    /\ applied = {}
    /\ repeated = {}
    /\ exposed = {}
    /\ overlapped = FALSE
    /\ uncommitted = 0

(* @Cron fires: a leader takes the time and starts a handler, whether or   *)
(* not earlier handlers have ended.                                        *)
StartHandler(h) ==
    /\ isLeader[h[1]]
    /\ phase[h] = "idle"
    /\ phase' = [phase EXCEPT ![h] = "count"]
    /\ utcNow' = [utcNow EXCEPT ![h] = clock]
    /\ overlapped' = (overlapped \/ \E g \in Handlers : Busy(g))
    /\ UNCHANGED <<clock, table, queue, isLeader, count, found, date,
                   credited, applied, repeated, exposed, uncommitted>>

CountRows(h) ==
    /\ phase[h] = "count"
    /\ phase' = [phase EXCEPT ![h] = "speedUps"]
    /\ count' = [count EXCEPT ![h] = rows]
    /\ UNCHANGED <<clock, table, queue, isLeader, utcNow, found, date, history>>

FindSpeedUps(h) ==
    /\ phase[h] = "speedUps"
    /\ phase' = [phase EXCEPT ![h] = "last"]
    /\ found' = [found EXCEPT ![h] = speedUps]
    /\ UNCHANGED <<clock, table, queue, isLeader, utcNow, count, date, history>>

(* The early return on count 0 comes after the read and leaves the date    *)
(* of the last schedule as it was.                                         *)
ReadLastSchedule(h) ==
    /\ phase[h] = "last"
    /\ \/ /\ count[h] = 0
          /\ End({h})
       \/ /\ count[h] # 0
          /\ phase' = [phase EXCEPT ![h] = "addBulk"]
          /\ date' = [date EXCEPT ![h] = lastSchedule]
          /\ UNCHANGED <<utcNow, count, found>>
    /\ UNCHANGED <<clock, table, queue, isLeader, history>>

(* The jobs enter the queue before the transaction that moves the date.    *)
AddBulk(h) ==
    LET elapsed == utcNow[h] - date[h]
        jobs    == Batches(count[h], elapsed, found[h], utcNow[h])
    IN  /\ phase[h] = "addBulk"
        /\ Len(queue) + Len(jobs) <= MaxQueue
        /\ phase' = [phase EXCEPT ![h] = "commit"]
        /\ queue' = queue \o jobs
        /\ credited' = credited + elapsed
        /\ applied' = applied \cup found[h]
        /\ repeated' = repeated \cup (applied \cap found[h])
        /\ UNCHANGED <<clock, table, isLeader, locals, exposed, overlapped,
                       uncommitted>>

(* One transaction: every CropSpeedUp row goes, those inserted since the   *)
(* find included, and the date becomes the start of this handler.          *)
CommitSchedule(h) ==
    /\ phase[h] = "commit"
    /\ End({h})
    /\ speedUps' = {}
    /\ lastSchedule' = utcNow[h]
    /\ UNCHANGED <<clock, rows, unsent, queue, isLeader, history>>

(* An await throws: the transaction, if any, is rolled back, the exception *)
(* leaves the handler, and the jobs already enqueued stay in the queue.    *)
FailHandler(h) ==
    /\ Busy(h)
    /\ End({h})
    /\ CountUncommitted({h})
    /\ UNCHANGED <<clock, table, queue, isLeader, credited, applied, repeated,
                   exposed, overlapped>>

HandleLeaderElected(r) ==
    /\ isLeader' = [isLeader EXCEPT ![r] = TRUE]
    /\ UNCHANGED <<clock, table, queue, phase, locals, history>>

(* Handlers in flight are not stopped.                                     *)
HandleLeaderLost(r) ==
    /\ isLeader' = [isLeader EXCEPT ![r] = FALSE]
    /\ UNCHANGED <<clock, table, queue, phase, locals, history>>

(* The process dies and comes back: its handlers are gone, an open         *)
(* transaction is rolled back by the database, the flag is false again.    *)
Crash(r) ==
    /\ isLeader' = [isLeader EXCEPT ![r] = FALSE]
    /\ End({r} \X Slots)
    /\ CountUncommitted({r} \X Slots)
    /\ UNCHANGED <<clock, table, queue, credited, applied, repeated,
                   exposed, overlapped>>

----------------------------------------------------------------------------
(* The surroundings of the handler.                                        *)

(* POST speed-up of the gameplay service, by its effect on the table.      *)
InsertSpeedUp(s) ==
    /\ s \in unsent
    /\ unsent' = unsent \ {s}
    /\ speedUps' = speedUps \cup {s}
    /\ exposed' = IF \E h \in Handlers : Busy(h) THEN exposed \cup {s} ELSE exposed
    /\ UNCHANGED <<clock, rows, lastSchedule, queue, isLeader, phase, locals,
                   credited, applied, repeated, overlapped, uncommitted>>

(* Players plant, water and remove crops.                                  *)
ChangeRows(n) ==
    /\ rows' = n
    /\ UNCHANGED <<clock, speedUps, unsent, lastSchedule, queue, isLeader,
                   phase, locals, history>>

(* A worker takes the oldest job (see CropLifecycle for what it does).     *)
TakeJob ==
    /\ queue # <<>>
    /\ queue' = Tail(queue)
    /\ UNCHANGED <<clock, table, isLeader, phase, locals, history>>

Second ==
    /\ clock < MaxClock
    /\ clock' = clock + 1
    /\ UNCHANGED <<table, queue, isLeader, phase, locals, history>>

----------------------------------------------------------------------------
Next ==
    \/ \E h \in Handlers :
        \/ StartHandler(h)
        \/ CountRows(h)
        \/ FindSpeedUps(h)
        \/ ReadLastSchedule(h)
        \/ AddBulk(h)
        \/ CommitSchedule(h)
        \/ FailHandler(h)
    \/ \E r \in Replicas :
        \/ HandleLeaderElected(r)
        \/ HandleLeaderLost(r)
        \/ Crash(r)
    \/ \E s \in SpeedUps : InsertSpeedUp(s)
    \/ \E n \in 0 .. MaxRows : ChangeRows(n)
    \/ TakeJob
    \/ Second

Spec == Init /\ [][Next]_vars

(* Errors are transient, so an await that is reached again and again in    *)
(* the end succeeds; cron and the workers never stop.                      *)
Fairness ==
    /\ \A h \in Handlers :
        /\ WF_vars(StartHandler(h))
        /\ SF_vars(CountRows(h))
        /\ SF_vars(FindSpeedUps(h))
        /\ SF_vars(ReadLastSchedule(h))
        /\ SF_vars(AddBulk(h))
        /\ SF_vars(CommitSchedule(h))
    /\ WF_vars(TakeJob)
    /\ WF_vars(Second)

FairSpec == Spec /\ Fairness

----------------------------------------------------------------------------
(* Each variable holds a value the code can give it; elapsed may be        *)
(* negative, a date read by a handler may be later than its own start.     *)
TypeOK ==
    /\ clock \in 0 .. MaxClock
    /\ rows \in 0 .. MaxRows
    /\ speedUps \subseteq SpeedUps
    /\ unsent \subseteq SpeedUps
    /\ lastSchedule \in Nat
    /\ queue \in Seq(Job)
    /\ isLeader \in [Replicas -> BOOLEAN]
    /\ phase \in [Handlers -> Phases]
    /\ utcNow \in [Handlers -> Nat]
    /\ count \in [Handlers -> 0 .. MaxRows]
    /\ found \in [Handlers -> SUBSET SpeedUps]
    /\ date \in [Handlers -> Nat]
    /\ credited \in Int
    /\ applied \subseteq SpeedUps
    /\ repeated \subseteq SpeedUps
    /\ exposed \subseteq SpeedUps
    /\ overlapped \in BOOLEAN
    /\ uncommitted \in Nat

(* While handlers have never overlapped, crops have been given at least    *)
(* the time up to the stored date, whatever crashes, rollbacks and changes *)
(* of leader happened: enqueueing before the commit loses no time.         *)
NoTimeLost == ~overlapped => credited >= lastSchedule

(* With no enqueue left uncommitted either, the time given is exact when   *)
(* no handler stands between its enqueue and its commit.                   *)
TimeExact ==
    (/\ ~overlapped
     /\ uncommitted = 0
     /\ \A h \in Handlers : phase[h] # "commit")
    => credited = lastSchedule

(* While handlers have never overlapped no job carries a negative time:    *)
(* only a handler overtaken by a later one reads a date past its start.    *)
ElapsedNotNegative ==
    ~overlapped => \A i \in DOMAIN queue : queue[i].elapsed >= 0

(* A speed-up that has left the table without being enqueued was inserted  *)
(* while a handler was in flight: the delete-all of the transaction is the *)
(* only thing that loses one, overlaps and crashes notwithstanding.        *)
SpeedUpLostOnlyInFlight ==
    \A s \in SpeedUps \ (unsent \cup speedUps) : s \in applied \cup exposed

(* A speed-up is enqueued twice only after an overlap or an enqueue that   *)
(* was not committed.                                                      *)
SpeedUpAppliedOnce == ~overlapped /\ uncommitted = 0 => repeated = {}

(* Why the three hold: a serial handler works on the date it read, which   *)
(* stays the stored one until it commits, so what it enqueues takes the    *)
(* time given from that date to its own start.                             *)
SerialTick ==
    /\ lastSchedule <= clock
    /\ \A h \in Handlers : utcNow[h] <= clock
    /\ ~overlapped =>
        /\ \A g, h \in Handlers : Busy(g) /\ Busy(h) => g = h
        /\ \A h \in Handlers :
            /\ Busy(h) => utcNow[h] >= lastSchedule
            /\ phase[h] \in {"addBulk", "commit"} => date[h] = lastSchedule
            /\ phase[h] = "commit" => credited >= utcNow[h]
            /\ phase[h] = "commit" /\ uncommitted = 0 => credited = utcNow[h]

(* Why a speed-up is lost only in flight: one inserted between handlers is *)
(* found by every later handler until one of them deletes it.              *)
SpeedUpsFound ==
    \A h \in Handlers :
        /\ phase[h] \in {"last", "addBulk", "commit"} =>
              speedUps \ exposed \subseteq found[h]
        /\ phase[h] = "commit" => found[h] \subseteq applied

(* If from some time on one replica leads undisturbed and there are rows,  *)
(* the stored date catches up with the clock, failures of awaits and       *)
(* handlers overtaking each other notwithstanding.                         *)
ScheduleCatchesUp ==
    (<>[](/\ rows > 0
          /\ \A r \in Replicas : isLeader[r]))
    => <>[](lastSchedule = MaxClock)
=============================================================================
