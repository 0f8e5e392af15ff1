------------------------------ MODULE Delivery ------------------------------
(***************************************************************************)
(* Products on their way to being sold: the requests that send and take    *)
(* back products (gameplay-service/src/delivery), the scheduler that       *)
(* enqueues a delivery every night or when asked to (cron-scheduler/src/   *)
(* delivery), and the worker that pays (cron-worker/src/delivery).         *)
(*                                                                         *)
(* The worker starts one payment per user and waits for none of them: its  *)
(* transaction is empty, each statement of a payment commits by itself and *)
(* the job may complete first.                                             *)
(*                                                                         *)
(* A definition marked (slip: ...) is a mistake a change of the code could *)
(* make in the definition that follows; no action uses it.                 *)
(***************************************************************************)
EXTENDS Integers, FiniteSets, Sequences

CONSTANTS
    Users,         \* user ids, in the order the worker lists them
    Parcels,       \* ids of delivering_products rows
    Workers,       \* delivery worker processes
    Requests,      \* gameplay requests in flight
    Replicas,      \* scheduler processes
    BatchSize,     \* bullData[BullQueueName.Animal].batchSize
    InitialStock,  \* products a user starts with
    Price,         \* ProductEntity.tokenAmount of a product
    Reward,        \* tokens of a reward claimed beside
    BelowZero,     \* bound: how far below zero a delivery may ask (the code has none)
    MaxQueue,      \* bound: jobs waiting in the queue
    MaxRewards     \* bound: rewards a user claims

ASSUME DeliveryAssumption ==
    /\ Users \subseteq Nat /\ IsFiniteSet(Users) /\ IsFiniteSet(Parcels)
    /\ BatchSize \in Nat \ {0}
    /\ InitialStock \in Nat /\ Price \in Nat /\ Reward \in Nat
    /\ BelowZero \in Nat /\ MaxQueue \in Nat /\ MaxRewards \in Nat

VARIABLES
    stock,      \* inventories: products of each user
    parcel,     \* delivering_products: NoParcel for an id not used yet,
                \* Gone for one that is deleted
    cleared,    \* rows of them whose product_id is null
    tokens,     \* users.tokens
    request,    \* what each request has read, NoRequest when idle
    isLeader,   \* DeliveryService.isLeader of each replica
    instantly,  \* CacheKey.DeliverInstantly is set
    queue,      \* jobs of the delivery queue, oldest first
    job,        \* the job each worker is at
    payment     \* the payment a worker makes to a user, NoPayment when none

(***************************************************************************)
(* History of the run, read by the properties and by no guard.             *)
(***************************************************************************)
VARIABLES
    rewards,    \* rewards each user has claimed
    troubled    \* users of whom a request or a payment rested on an old
                \* read, who sent a negative quantity or whose goods were cleared

database  == <<stock, parcel, cleared, tokens>>
schedule  == <<isLeader, instantly>>
worker    == <<queue, job, payment>>
history   == <<rewards, troubled>>
vars      == <<database, request, schedule, worker, history>>

NoParcel  == [none |-> "parcel"]
Gone      == [none |-> "gone"]
NoRequest == [none |-> "request"]
NoJob     == [none |-> "job"]
NoPayment == [none |-> "payment"]
Payments  == Workers \X Users
DeliveringProduct == [user : Users, quantity : Int]
Stage(p)  == IF payment[p] = NoPayment THEN "none" ELSE payment[p].stage

DeliveringOf(u) == {p \in Parcels : parcel[p] \notin {NoParcel, Gone} /\ parcel[p].user = u}
UnitsIn(S)    == UNION {{p} \X (1 .. parcel[p].quantity) : p \in S}
UnitsBelow(S) == UNION {{p} \X (1 .. -parcel[p].quantity) : p \in S}
Quantity(S)   == Cardinality(UnitsIn(S)) - Cardinality(UnitsBelow(S))
Waiting == {u \in Users : DeliveringOf(u) # {}}

(* A payment throws for a parcel that has lost its product, and for a      *)
(* total below zero.                                                       *)
Payable(S) == S \cap cleared = {} /\ Price * Quantity(S) >= 0

(* Units whose payment is made and whose parcels are about to be deleted.  *)
PaidFor(u) ==
    UNION {payment[p].seen : p \in {q \in Payments :
               q[2] = u /\ Stage(q) = "delete" /\ payment[q].made}}

----------------------------------------------------------------------------
Init ==
    /\ stock = [u \in Users |-> InitialStock]
    /\ parcel = [p \in Parcels |-> NoParcel]
    /\ cleared = {}
    /\ tokens = [u \in Users |-> 0]
    /\ request = [q \in Requests |-> NoRequest]
    /\ isLeader = [r \in Replicas |-> FALSE]
    /\ instantly = FALSE
    /\ queue = <<>>
    /\ job = [w \in Workers |-> NoJob]
    /\ payment = [p \in Payments |-> NoPayment]
    /\ rewards = [u \in Users |-> 0]
    /\ troubled = {}

Trouble(S) == troubled' = troubled \cup S
TroubleIf(condition, u) == Trouble({v \in {u} : condition})

----------------------------------------------------------------------------
(* Requests: the reads with their guards, then the transactions.           *)
Read(q, op, u, chosen, seen) ==
    /\ request[q] = NoRequest
    /\ request' = [request EXCEPT ![q] =
                      [op |-> op, user |-> u, chosen |-> chosen, seen |-> seen,
                       quantity |-> IF op = "retain" THEN parcel[chosen].quantity ELSE 0]]
    /\ UNCHANGED <<database, schedule, worker, history>>

(* (slip: the quantity asked for is not compared with the inventory)       *)
ReadDeliverUnchecked(q, u) ==
    /\ stock[u] > 0
    /\ \E n \in -BelowZero .. InitialStock + 1 : Read(q, "deliver", u, n, stock[u])

(* An inventory has units; the quantity asked for is only compared with    *)
(* them, and may be zero or negative.                                      *)
ReadDeliver(q, u) ==
    /\ stock[u] > 0
    /\ \E n \in -BelowZero .. stock[u] : Read(q, "deliver", u, n, stock[u])

ReadRetain(q, u)  == \E p \in DeliveringOf(u) : Read(q, "retain", u, p, stock[u])
ReadReward(q, u)  == rewards[u] < MaxRewards /\ Read(q, "reward", u, 0, tokens[u])

Done(q) ==
    /\ request' = [request EXCEPT ![q] = NoRequest]
    /\ UNCHANGED <<schedule, worker>>

Asks(q, op) == request[q] # NoRequest /\ request[q].op = op

(* Inventory and parcel in one transaction; the row of the parcel is new.  *)
(* A negative quantity adds to the inventory what the parcel lacks, and    *)
(* what taking it back does not take away again.                           *)
DeliverProduct(q) ==
    LET r == request[q] IN
    /\ Asks(q, "deliver")
    /\ stock' = [stock EXCEPT ![r.user] = r.seen - r.chosen]
    /\ \E p \in Parcels :
        /\ parcel[p] = NoParcel
        /\ parcel' = [parcel EXCEPT ![p] = [user |-> r.user, quantity |-> r.chosen]]
    /\ TroubleIf(stock[r.user] # r.seen \/ r.chosen < 0, r.user)
    /\ Done(q)
    /\ UNCHANGED <<cleared, tokens, rewards>>

(* Deleting a parcel that is gone deletes nothing and raises nothing; the  *)
(* quantity, when there is one, tops up a stack as it was read, or opens   *)
(* another.  A parcel without a product comes back as a product of any     *)
(* type (the search for its type has no condition left).                   *)
RetainProduct(q) ==
    LET r == request[q]
        n == IF r.quantity > 0 THEN r.quantity ELSE 0
    IN  /\ Asks(q, "retain")
        /\ parcel' = [parcel EXCEPT ![r.chosen] = Gone]
        /\ \/ stock' = [stock EXCEPT ![r.user] = r.seen + n]
           \/ stock' = [stock EXCEPT ![r.user] = @ + n]
           \/ r.chosen \in cleared /\ UNCHANGED stock
        /\ TroubleIf(\/ parcel[r.chosen] = Gone
                     \/ r.chosen \in PaidFor(r.user)
                     \/ stock[r.user] # r.seen, r.user)
        /\ Done(q)
        /\ UNCHANGED <<cleared, tokens, rewards>>

(* Claims and prizes of the spin write the tokens they have read.          *)
ClaimReward(q) ==
    LET r == request[q] IN
    /\ Asks(q, "reward")
    /\ tokens' = [tokens EXCEPT ![r.user] = r.seen + Reward]
    /\ rewards' = [rewards EXCEPT ![r.user] = @ + 1]
    /\ TroubleIf(tokens[r.user] # r.seen, r.user)
    /\ Done(q)
    /\ UNCHANGED <<stock, parcel, cleared>>

AbortRequest(q) ==
    /\ request[q] # NoRequest
    /\ Done(q)
    /\ UNCHANGED <<database, history>>

(* cli seed clears the seeded tables: parcels lose their product, and      *)
(* inventories the type without which they cannot be sent.                 *)
ClearSeeders ==
    /\ cleared' = cleared \cup {p \in Parcels : parcel[p] \notin {NoParcel, Gone}}
    /\ stock' = [u \in Users |-> 0]
    /\ Trouble({u \in Users : stock[u] > 0 \/ DeliveringOf(u) # {}})
    /\ UNCHANGED <<parcel, tokens, request, schedule, worker, rewards>>

----------------------------------------------------------------------------
(* The scheduler.                                                          *)
DeliverInstantly ==
    /\ instantly' = TRUE
    /\ UNCHANGED <<database, request, isLeader, worker, history>>

(* (slip: the last batch, when it is not full, gets no job)                *)
JobsOfFullBatches(n) ==
    [i \in 1 .. n \div BatchSize |-> [skip |-> (i - 1) * BatchSize, take |-> BatchSize]]

Jobs(n) ==
    [i \in 1 .. (n + BatchSize - 1) \div BatchSize |->
        [skip |-> (i - 1) * BatchSize, take |-> BatchSize]]

(* A leader counts the users that wait and adds a job for each batch; when *)
(* one of the two calls fails nothing is added.                            *)
EnqueueDelivery(r) ==
    LET jobs == Jobs(Cardinality(Waiting)) IN
    /\ isLeader[r]
    /\ Len(queue) + Len(jobs) <= MaxQueue
    /\ queue' = queue \o jobs

(* Midnight.                                                               *)
HandleDeliveryProducts(r) ==
    /\ EnqueueDelivery(r)
    /\ UNCHANGED <<database, request, isLeader, instantly, job, payment, history>>

(* Every replica looks for the flag every second and deletes it before it  *)
(* asks whether it leads: one that does not lead loses the wish.           *)
TriggerDeliveryProducts(r) ==
    /\ instantly
    /\ instantly' = FALSE
    /\ EnqueueDelivery(r) \/ UNCHANGED queue
    /\ UNCHANGED <<database, request, isLeader, job, payment, history>>

HandleLeader(r, elected) ==
    /\ isLeader[r] # elected
    /\ isLeader' = [isLeader EXCEPT ![r] = elected]
    /\ UNCHANGED <<database, request, instantly, worker, history>>

----------------------------------------------------------------------------
(* The worker.  A job lists its page of users, starts a payment to each    *)
(* and may complete while they go on.                                      *)
Page(j) ==
    {u \in Waiting : Cardinality({v \in Waiting : v < u}) \in j.skip .. j.skip + j.take - 1}

TakeJob(w) ==
    /\ job[w] = NoJob /\ queue # <<>>
    /\ queue' = Tail(queue)
    /\ job' = [job EXCEPT ![w] = [page |-> Head(queue), listed |-> FALSE, again |-> FALSE]]
    /\ UNCHANGED <<database, request, schedule, payment, history>>

ListUsers(w) ==
    /\ job[w] # NoJob /\ ~job[w].listed
    /\ \A u \in Page(job[w].page) : payment[<<w, u>>] = NoPayment
    /\ job' = [job EXCEPT ![w].listed = TRUE]
    /\ payment' = [p \in Payments |->
                      IF p[1] = w /\ p[2] \in Page(job[w].page)
                      THEN [stage |-> "find", seen |-> {}, total |-> 0, tokens |-> 0,
                            payable |-> TRUE, made |-> FALSE]
                      ELSE payment[p]]
    /\ UNCHANGED <<database, request, schedule, queue, history>>

CompleteJob(w) ==
    /\ job[w] # NoJob /\ job[w].listed
    /\ job' = [job EXCEPT ![w] = NoJob]
    /\ UNCHANGED <<database, request, schedule, queue, payment, history>>

Advance(p, new) ==
    /\ payment' = [payment EXCEPT ![p] = new]
    /\ UNCHANGED <<request, schedule, queue, job, rewards>>

FindProducts(p) ==
    LET seen == DeliveringOf(p[2]) IN
    /\ Stage(p) = "find"
    /\ Advance(p, IF seen = {} THEN NoPayment
                  ELSE [payment[p] EXCEPT !.stage = "user", !.seen = seen,
                                          !.total = Price * Quantity(seen),
                                          !.payable = Payable(seen)])
    /\ UNCHANGED <<database, troubled>>

FindUser(p) ==
    /\ Stage(p) = "user"
    /\ Advance(p, [payment[p] EXCEPT !.stage = "update", !.tokens = tokens[p[2]]])
    /\ UNCHANGED <<database, troubled>>

(* (slip: each parcel is paid as one product)                              *)
UpdateTokensPerParcel(p) ==
    LET u == p[2] IN
    /\ Stage(p) = "update" /\ payment[p].payable
    /\ tokens' = [tokens EXCEPT ![u] = payment[p].tokens + Price * Cardinality(payment[p].seen)]
    /\ TroubleIf(\/ tokens[u] # payment[p].tokens
                 \/ DeliveringOf(u) # payment[p].seen
                 \/ PaidFor(u) # {}, u)
    /\ Advance(p, [payment[p] EXCEPT !.stage = "delete", !.made = TRUE])
    /\ UNCHANGED <<stock, parcel, cleared>>

UpdateTokens(p) ==
    LET u == p[2] IN
    /\ Stage(p) = "update" /\ payment[p].payable
    /\ tokens' = [tokens EXCEPT ![u] = payment[p].tokens + payment[p].total]
    /\ TroubleIf(\/ tokens[u] # payment[p].tokens
                 \/ DeliveringOf(u) # payment[p].seen
                 \/ PaidFor(u) # {}, u)
    /\ Advance(p, [payment[p] EXCEPT !.stage = "delete", !.made = TRUE])
    /\ UNCHANGED <<stock, parcel, cleared>>

(* The update fails; the delete was issued with it and may go on.          *)
FailUpdate(p) ==
    /\ Stage(p) = "update" /\ payment[p].payable
    /\ Advance(p, [payment[p] EXCEPT !.stage = "delete"])
    /\ UNCHANGED <<database, troubled>>

(* Every parcel of the user goes, those sent since the find included.      *)
DeleteProducts(p) ==
    LET u == p[2] IN
    /\ Stage(p) = "delete"
    /\ parcel' = [q \in Parcels |-> IF q \in DeliveringOf(u) THEN Gone ELSE parcel[q]]
    /\ TroubleIf(DeliveringOf(u) # {} /\ (DeliveringOf(u) # payment[p].seen \/ ~payment[p].made), u)
    /\ Advance(p, NoPayment)
    /\ UNCHANGED <<stock, cleared, tokens>>

(* The listing fails and the job with it: one attempt.                     *)
FailJob(w) ==
    /\ job[w] # NoJob /\ ~job[w].listed
    /\ job' = [job EXCEPT ![w] = NoJob]
    /\ UNCHANGED <<database, request, schedule, queue, payment, history>>

(* The process dies with its payments; a job that had not completed is     *)
(* found stalled and handed out again, once.                               *)
Dies(w) ==
    /\ job' = [job EXCEPT ![w] = IF @ = NoJob THEN NoJob
                                 ELSE IF @.again THEN NoJob
                                 ELSE [@ EXCEPT !.listed = FALSE, !.again = TRUE]]
    /\ payment' = [p \in Payments |-> IF p[1] = w THEN NoPayment ELSE payment[p]]
    /\ Trouble({u \in Users : Stage(<<w, u>>) = "delete" /\ payment[<<w, u>>].made})
    /\ UNCHANGED <<database, request, schedule, queue, rewards>>

(* It crashes, or dies of an error in a payment: nothing awaits a payment, *)
(* and a rejection nobody handles ends the process.                        *)
CrashWorker(w) ==
    /\ job[w] # NoJob \/ \E u \in Users : payment[<<w, u>>] # NoPayment
    /\ Dies(w)

(* A payment that throws before its update ends them all.                  *)
RefusePayment(p) ==
    /\ Stage(p) = "update" /\ ~payment[p].payable
    /\ Dies(p[1])

----------------------------------------------------------------------------
RequestStep(q) ==
    \/ \E u \in Users : ReadDeliver(q, u) \/ ReadRetain(q, u) \/ ReadReward(q, u)
    \/ DeliverProduct(q)
    \/ RetainProduct(q)
    \/ ClaimReward(q)
    \/ AbortRequest(q)

SchedulerStep(r) ==
    \/ TriggerDeliveryProducts(r)
    \/ HandleDeliveryProducts(r)
    \/ \E elected \in BOOLEAN : HandleLeader(r, elected)

PaymentStep(p) ==
    \/ FindProducts(p)
    \/ FindUser(p)
    \/ UpdateTokens(p)
    \/ FailUpdate(p)
    \/ DeleteProducts(p)
    \/ RefusePayment(p)

Next ==
    \/ \E q \in Requests : RequestStep(q)
    \/ ClearSeeders
    \/ DeliverInstantly
    \/ \E r \in Replicas : SchedulerStep(r)
    \/ \E w \in Workers :
        \/ TakeJob(w)
        \/ ListUsers(w)
        \/ CompleteJob(w)
        \/ FailJob(w)
        \/ CrashWorker(w)
    \/ \E p \in Payments : PaymentStep(p)

Spec == Init /\ [][Next]_vars

(* Midnight comes again, workers go on, and errors are transient: a step   *)
(* that is reached again and again succeeds in the end.  A payment that    *)
(* cannot be made throws when it comes to it.                              *)
Fairness ==
    /\ \A r \in Replicas : SF_vars(HandleDeliveryProducts(r))
    /\ \A w \in Workers : /\ WF_vars(TakeJob(w)) /\ SF_vars(ListUsers(w))
                          /\ WF_vars(CompleteJob(w))
    /\ \A p \in Payments :
        /\ SF_vars(FindProducts(p))
        /\ SF_vars(FindUser(p))
        /\ SF_vars(UpdateTokens(p))
        /\ SF_vars(DeleteProducts(p))
        /\ WF_vars(RefusePayment(p))

FairSpec == Spec /\ Fairness

----------------------------------------------------------------------------
(* Each variable holds a value the code can give it; no stock is negative, *)
(* however many deliveries of one inventory overlap.                       *)
TypeOK ==
    /\ stock \in [Users -> Nat]
    /\ parcel \in [Parcels -> DeliveringProduct \cup {NoParcel, Gone}]
    /\ cleared \subseteq Parcels
    /\ tokens \in [Users -> Nat]
    /\ DOMAIN request = Requests
    /\ isLeader \in [Replicas -> BOOLEAN] /\ instantly \in BOOLEAN
    /\ queue \in Seq([skip : Nat, take : Nat])
    /\ DOMAIN job = Workers
    /\ payment \in [Payments -> {NoPayment} \cup
                       [stage : {"find", "user", "update", "delete"}, seen : SUBSET Parcels,
                        total : Int, tokens : Nat, payable : BOOLEAN, made : BOOLEAN]]
    /\ rewards \in [Users -> Nat]
    /\ troubled \subseteq Users

(* Of a user no request or payment of whom rested on an old read, whose    *)
(* goods were not cleared and who never sent a negative quantity, every    *)
(* unit is kept, sent or paid for, and what is sent is paid all at once:   *)
(* crashes of workers, jobs run twice and payments that outlive their job  *)
(* notwithstanding.  What a payment has paid for and is about to delete    *)
(* counts as gone.                                                         *)
Promise == INSTANCE DeliveryPromise WITH
    kept    <- [u \in Users |-> IF u \in troubled THEN 0 ELSE stock[u]],
    sent    <- [u \in Users |-> IF u \in troubled THEN 0
                               ELSE Quantity(DeliveringOf(u) \ PaidFor(u))],
    paid    <- [u \in Users |-> IF u \in troubled THEN 0
                               ELSE tokens[u] - rewards[u] * Reward],
    orderly <- Users \ troubled

DeliveryPromiseKept == Promise!Spec

(* If from some time on every replica leads, what is sent does not stay    *)
(* sent - it is paid for, taken back or, when its update fails, dropped -  *)
(* unless again and again there is a user who cannot be paid: a product    *)
(* without a type or a total below zero ends the process, and with it the  *)
(* payments of everybody on the page, night after night.                   *)
SentIsSettled ==
    (<>[](\A r \in Replicas : isLeader[r]))
    => \A p \in Parcels : []<>(\/ parcel[p] \in {NoParcel, Gone}
                               \/ \E u \in Users : ~Payable(DeliveringOf(u)))
=============================================================================
