--------------------------- MODULE LeaderElection ---------------------------
(***************************************************************************)
(* LeaderElectionService (src/kubernetes/leader-election): the nodes of    *)
(* the cron-scheduler agree on a leader through one Kubernetes Lease.      *)
(*                                                                         *)
(* Each call of the service to the API server is an action, and so is the  *)
(* firing of each timer; time is left out but for the expiry of the lease, *)
(* so a call may take, and a timer may be late, as long as it likes.       *)
(***************************************************************************)
EXTENDS Integers, Sequences, FiniteSets

CONSTANTS
    Nodes,      \* processes, by holderIdentity
    NoNode,     \* holderIdentity null
    Attempts,   \* tries of runLeaderElectionProcess at bootstrap
    MaxWrites,  \* bound: writes of the lease
    MaxTimers,  \* bound: event and becomeLeader timers set in a node
    MaxRoutines,\* bound: routines at work at once in a node
    MaxFaults   \* bound: crashes and lost watches

Deleted == "deleted"   \* the event of a deletion; the others carry a holder

ASSUME LeaderAssumption ==
    /\ NoNode \notin Nodes
    /\ Deleted \notin Nodes \cup {NoNode}
    /\ Attempts \in Nat /\ Attempts > 0
    /\ MaxWrites \in Nat /\ MaxTimers \in Nat /\ MaxRoutines \in Nat
    /\ MaxFaults \in Nat

VARIABLES
    \* the API server
    exists,        \* the Lease object exists
    holder,        \* its holderIdentity, NoNode when it does not exist
    fresh,         \* now <= renewTime + leaseDurationSeconds
    writes,        \* writes so far, and crashes and lost watches so far:
    faults,        \*   read by the bounds only
    \* each node
    alive,
    isLeader,
    attempts,      \* bootstrap attempts left, the running one included
    call,          \* what each routine of the node is at
    renewalTimer,  \* leaseRenewalTimeout is set
    becomeTimers,  \* 2 s timers of handleLeaseUpdate about to becomeLeader
    watching,      \* the watch is open
    events         \* watch events in their 2 s timers, oldest first

lease  == <<exists, holder, fresh>>
server == <<lease, writes, faults>>
node   == <<alive, isLeader, attempts, renewalTimer, becomeTimers, watching>>
vars   == <<server, node, call, events>>

(***************************************************************************)
(* Routines that may run at once in a node.  "acquire" and the like carry  *)
(* a lease read before, that a replace accepts only while nobody has       *)
(* written it since (its resourceVersion); "outdated" stands for one that  *)
(* has been overtaken, "written" for a write whose answer is on its way.   *)
(***************************************************************************)
Elections == {"bootstrap", "deletion"}
Routines == Elections \cup {"renew", "release"}
Replaces == {"acquire", "renew", "release"}
Calls == {"idle", "read", "create", "outdated", "written"} \cup Replaces

----------------------------------------------------------------------------
(* The API server.                                                         *)

Room(n) == Len(events[n]) + becomeTimers[n] < MaxTimers

Outdate(c) == IF c \in Replaces THEN "outdated" ELSE c

(* Routine r of node n writes the lease and is at `next` then.  The write  *)
(* outdates every lease read before it and sends an event to the nodes     *)
(* that watch.                                                             *)
Announce(calls, event) ==
    /\ writes < MaxWrites
    /\ writes' = writes + 1
    /\ call' = calls
    /\ \A n \in Nodes : watching[n] => Room(n)
    /\ events' = [n \in Nodes |->
                   IF watching[n] THEN Append(events[n], event) ELSE events[n]]

Outdated == [n \in Nodes |-> [r \in Routines |-> Outdate(call[n][r])]]

WriteLease(n, r, newHolder, next) ==
    /\ exists' = TRUE
    /\ holder' = newHolder
    /\ fresh' = (newHolder # NoNode)
    /\ Announce([Outdated EXCEPT ![n][r] = next], newHolder)
    /\ UNCHANGED faults

Fault == faults < MaxFaults /\ faults' = faults + 1

At(n, r, c) == alive[n] /\ call[n][r] = c
Goto(n, r, c) == call' = [call EXCEPT ![n][r] = c]

(* A routine of a node starts.                                             *)
Start(n, r) ==
    /\ call[n][r] = "idle"
    /\ Cardinality({q \in Routines : call[n][q] # "idle"}) < MaxRoutines
    /\ Goto(n, r, "read")

----------------------------------------------------------------------------
(* becomeLeader, loseLeadership and the end of an attempt, as the parts of *)
(* the actions that call them.                                             *)
BecomeLeader(n) ==
    /\ isLeader' = [isLeader EXCEPT ![n] = TRUE]
    /\ renewalTimer' = [renewalTimer EXCEPT ![n] = TRUE]
    /\ UNCHANGED <<alive, becomeTimers, watching>>

LoseLeadership(n) ==
    /\ isLeader' = [isLeader EXCEPT ![n] = FALSE]
    /\ renewalTimer' = [renewalTimer EXCEPT ![n] = @ /\ ~isLeader[n]]
    /\ UNCHANGED <<alive, attempts, becomeTimers, watching>>

\* A slip: an attempt after a deletion counts as one of bootstrap.
EveryAttemptEnds(n, r, leads) ==
    attempts' = [attempts EXCEPT ![n] = IF leads THEN 0 ELSE @ - 1]

(* The attempts of bootstrap stop early in a node that leads.              *)
AttemptEnds(n, r, leads) ==
    attempts' = IF r # "bootstrap" THEN attempts
                ELSE [attempts EXCEPT ![n] = IF leads THEN 0 ELSE @ - 1]

(* tryToBecomeLeader ends without leadership: the lease is held by another *)
(* node, or a call threw.                                                  *)
GiveUp(n, r) ==
    /\ AttemptEnds(n, r, isLeader[n])
    /\ UNCHANGED <<alive, isLeader, renewalTimer, becomeTimers, watching>>

----------------------------------------------------------------------------
Init ==
    /\ exists = FALSE
    /\ holder = NoNode
    /\ fresh = FALSE
    /\ writes = 0
    /\ alive = [n \in Nodes |-> FALSE]
    /\ isLeader = [n \in Nodes |-> FALSE]
    /\ attempts = [n \in Nodes |-> 0]
    /\ call = [n \in Nodes |-> [r \in Routines |-> "idle"]]
    /\ renewalTimer = [n \in Nodes |-> FALSE]
    /\ becomeTimers = [n \in Nodes |-> 0]
    /\ watching = [n \in Nodes |-> FALSE]
    /\ events = [n \in Nodes |-> <<>>]
    /\ faults = 0

(* onApplicationBootstrap: the watch opens, the first attempt starts.  An  *)
(* opened watch tells of the lease there is.                               *)
OpenWatch(n) ==
    /\ watching' = [watching EXCEPT ![n] = TRUE]
    /\ Room(n)
    /\ events' = IF exists THEN [events EXCEPT ![n] = Append(@, holder)] ELSE events

Bootstrap(n) ==
    /\ ~alive[n]
    /\ alive' = [alive EXCEPT ![n] = TRUE]
    /\ attempts' = [attempts EXCEPT ![n] = Attempts]
    /\ OpenWatch(n)
    /\ UNCHANGED <<server, isLeader, call, renewalTimer, becomeTimers>>

(* runLeaderElectionProcess: the next attempt starts, the first at once    *)
(* and the others after a wait, whether the node leads by then or not.     *)
StartAttempt(n) ==
    /\ alive[n]
    /\ attempts[n] > 0
    /\ Start(n, "bootstrap")
    /\ UNCHANGED <<server, node, events>>

\* A slip: the comparison is the wrong way round.
IsLeaseExpiredReversed == fresh

IsLeaseExpired == ~fresh

(* tryToBecomeLeader up to its first write.                                *)
TryRead(n, r) ==
    /\ r \in Elections
    /\ At(n, r, "read")
    /\ \/ /\ ~exists
          /\ Goto(n, r, "create")
          /\ UNCHANGED node
       \/ /\ exists /\ (IsLeaseExpired \/ holder = NoNode)
          /\ Goto(n, r, "acquire")
          /\ UNCHANGED node
       \/ /\ exists /\ ~IsLeaseExpired /\ holder = n
          /\ Goto(n, r, "idle")
          /\ BecomeLeader(n)
          /\ AttemptEnds(n, r, TRUE)
       \/ /\ exists /\ ~IsLeaseExpired /\ holder \notin {n, NoNode}
          /\ Goto(n, r, "idle")
          /\ GiveUp(n, r)
    /\ UNCHANGED <<server, events>>

(* createLease, of whichever routine got no lease from getLease.           *)
CreateLease(n, r) ==
    /\ At(n, r, "create")
    /\ ~exists
    /\ WriteLease(n, r, n, IF r \in Elections THEN "written" ELSE r)
    /\ UNCHANGED node

(* acquireLease.                                                           *)
AcquireLease(n, r) ==
    /\ At(n, r, "acquire")
    /\ WriteLease(n, r, n, "written")
    /\ UNCHANGED node

(* The answer to the write of an attempt: the lease is held by us.         *)
TrySucceeds(n, r) ==
    /\ r \in Elections
    /\ At(n, r, "written")
    /\ Goto(n, r, "idle")
    /\ BecomeLeader(n)
    /\ AttemptEnds(n, r, TRUE)
    /\ UNCHANGED <<server, events>>

(* The API server refuses a call of the attempt (the lease exists by now,  *)
(* or was written by another), cannot be reached, or its answer is lost.   *)
TryFails(n, r) ==
    /\ r \in Elections
    /\ alive[n] /\ call[n][r] # "idle"
    /\ Goto(n, r, "idle")
    /\ GiveUp(n, r)
    /\ UNCHANGED <<server, events>>

----------------------------------------------------------------------------
(* The renewal timer fires.                                                *)
FireRenewal(n) ==
    /\ alive[n] /\ renewalTimer[n]
    /\ renewalTimer' = [renewalTimer EXCEPT ![n] = FALSE]
    /\ IF isLeader[n] THEN Start(n, "renew") ELSE UNCHANGED call
    /\ UNCHANGED <<server, alive, isLeader, attempts, becomeTimers, watching, events>>

(* renewLease: getLease, that creates a lease when there is none.          *)
RenewRead(n) ==
    /\ At(n, "renew", "read")
    /\ \/ /\ exists /\ holder = n
          /\ Goto(n, "renew", "renew")
          /\ UNCHANGED <<server, node, events>>
       \/ /\ exists /\ holder # n
          /\ Goto(n, "renew", "idle")
          /\ LoseLeadership(n)
          /\ UNCHANGED <<server, events>>
       \/ /\ ~exists
          /\ Goto(n, "renew", "create")
          /\ UNCHANGED <<server, node, events>>

RenewWrite(n) ==
    /\ At(n, "renew", "renew")
    /\ WriteLease(n, "renew", n, "written")
    /\ UNCHANGED node

(* The next renewal is scheduled by the event of this one, not here.       *)
RenewSucceeds(n) ==
    /\ At(n, "renew", "written")
    /\ Goto(n, "renew", "idle")
    /\ UNCHANGED <<server, node, events>>

RenewFails(n) ==
    /\ alive[n] /\ call[n]["renew"] # "idle"
    /\ Goto(n, "renew", "idle")
    /\ LoseLeadership(n)
    /\ UNCHANGED <<server, events>>

----------------------------------------------------------------------------
(* gracefulShutdown on SIGTERM or SIGINT: isLeader stays as it was.        *)
GracefulShutdown(n) ==
    /\ alive[n] /\ isLeader[n]
    /\ Start(n, "release")
    /\ UNCHANGED <<server, node, events>>

ReleaseRead(n) ==
    /\ At(n, "release", "read")
    /\ Goto(n, "release", IF ~exists THEN "create"
                          ELSE IF holder = n THEN "release" ELSE "idle")
    /\ UNCHANGED <<server, node, events>>

ReleaseWrite(n) ==
    /\ At(n, "release", "release")
    /\ WriteLease(n, "release", NoNode, "idle")
    /\ UNCHANGED node

ReleaseFails(n) ==
    /\ alive[n] /\ call[n]["release"] # "idle"
    /\ Goto(n, "release", "idle")
    /\ UNCHANGED <<server, node, events>>

----------------------------------------------------------------------------
(* The 2 s timer of a watch event fires: handleLeaseUpdate.                *)
HandleLeaseUpdate(n) ==
    /\ alive[n] /\ events[n] # <<>> /\ Head(events[n]) # Deleted
    /\ events' = [events EXCEPT ![n] = Tail(@)]
    /\ \/ /\ Head(events[n]) = n
          /\ becomeTimers' = IF isLeader[n] THEN becomeTimers
                             ELSE [becomeTimers EXCEPT ![n] = @ + 1]
          /\ renewalTimer' = [renewalTimer EXCEPT ![n] = TRUE]
          /\ UNCHANGED <<alive, isLeader, attempts, watching>>
       \/ /\ Head(events[n]) # n
          /\ LoseLeadership(n)
    /\ UNCHANGED <<server, call>>

(* handleLeaseDeletion: a leader does nothing, the others try at once.     *)
HandleLeaseDeletion(n) ==
    /\ alive[n] /\ events[n] # <<>> /\ Head(events[n]) = Deleted
    /\ events' = [events EXCEPT ![n] = Tail(@)]
    /\ \/ isLeader[n] /\ UNCHANGED call
       \/ ~isLeader[n] /\ Start(n, "deletion")
    /\ UNCHANGED <<server, node>>

\* A slip: the timer leads without a renewal of its own.
FireBecomeLeaderOnly(n) ==
    /\ alive[n] /\ becomeTimers[n] > 0
    /\ becomeTimers' = [becomeTimers EXCEPT ![n] = @ - 1]
    /\ isLeader' = [isLeader EXCEPT ![n] = TRUE]
    /\ UNCHANGED <<server, alive, attempts, renewalTimer, watching, call, events>>

(* The second 2 s timer fires, and asks nothing before it leads.           *)
FireBecomeLeader(n) ==
    /\ alive[n] /\ becomeTimers[n] > 0
    /\ becomeTimers' = [becomeTimers EXCEPT ![n] = @ - 1]
    /\ isLeader' = [isLeader EXCEPT ![n] = TRUE]
    /\ renewalTimer' = [renewalTimer EXCEPT ![n] = TRUE]
    /\ UNCHANGED <<server, alive, attempts, watching, call, events>>

(* The watch ends; events already received stay in their timers.           *)
WatchEnds(n) ==
    /\ alive[n] /\ watching[n]
    /\ Fault
    /\ watching' = [watching EXCEPT ![n] = FALSE]
    /\ UNCHANGED <<lease, writes, alive, isLeader, attempts, renewalTimer,
                   becomeTimers, call, events>>

WatchRestarts(n) ==
    /\ alive[n] /\ ~watching[n]
    /\ OpenWatch(n)
    /\ UNCHANGED <<server, alive, isLeader, attempts, renewalTimer, becomeTimers, call>>

----------------------------------------------------------------------------
(* The surroundings: a process dies, time passes, an operator deletes.     *)
Crash(n) ==
    /\ alive[n]
    /\ Fault
    /\ alive' = [alive EXCEPT ![n] = FALSE]
    /\ isLeader' = [isLeader EXCEPT ![n] = FALSE]
    /\ attempts' = [attempts EXCEPT ![n] = 0]
    /\ call' = [call EXCEPT ![n] = [r \in Routines |-> "idle"]]
    /\ renewalTimer' = [renewalTimer EXCEPT ![n] = FALSE]
    /\ becomeTimers' = [becomeTimers EXCEPT ![n] = 0]
    /\ watching' = [watching EXCEPT ![n] = FALSE]
    /\ events' = [events EXCEPT ![n] = <<>>]
    /\ UNCHANGED <<lease, writes>>

LeaseExpires ==
    /\ fresh
    /\ fresh' = FALSE
    /\ UNCHANGED <<exists, holder, writes, faults, node, call, events>>

LeaseDeleted ==
    /\ exists
    /\ exists' = FALSE /\ holder' = NoNode /\ fresh' = FALSE
    /\ Announce(Outdated, Deleted)
    /\ UNCHANGED <<node, faults>>

----------------------------------------------------------------------------
NodeStep(n) ==
    \/ Bootstrap(n)
    \/ StartAttempt(n)
    \/ \E r \in Routines :
        \/ TryRead(n, r)
        \/ CreateLease(n, r)
        \/ AcquireLease(n, r)
        \/ TrySucceeds(n, r)
        \/ TryFails(n, r)
    \/ FireRenewal(n)
    \/ RenewRead(n)
    \/ RenewWrite(n)
    \/ RenewSucceeds(n)
    \/ RenewFails(n)
    \/ GracefulShutdown(n)
    \/ ReleaseRead(n)
    \/ ReleaseWrite(n)
    \/ ReleaseFails(n)
    \/ HandleLeaseUpdate(n)
    \/ HandleLeaseDeletion(n)
    \/ FireBecomeLeader(n)
    \/ WatchEnds(n)
    \/ WatchRestarts(n)
    \/ Crash(n)

Next ==
    \/ \E n \in Nodes : NodeStep(n)
    \/ LeaseExpires
    \/ LeaseDeleted

Spec == Init /\ [][Next]_vars

----------------------------------------------------------------------------
(* Each variable holds a value the code can give it.                       *)
TypeOK ==
    /\ exists \in BOOLEAN
    /\ holder \in Nodes \cup {NoNode}
    /\ fresh \in BOOLEAN
    /\ writes \in Nat /\ faults \in Nat
    /\ alive \in [Nodes -> BOOLEAN]
    /\ isLeader \in [Nodes -> BOOLEAN]
    /\ attempts \in [Nodes -> 0 .. Attempts]
    /\ call \in [Nodes -> [Routines -> Calls]]
    /\ renewalTimer \in [Nodes -> BOOLEAN]
    /\ becomeTimers \in [Nodes -> Nat]
    /\ watching \in [Nodes -> BOOLEAN]
    /\ events \in [Nodes -> Seq(Nodes \cup {NoNode, Deleted})]

(* The lease passes from node to node as LeaseLock allows: nobody takes it *)
(* from a holder whose time has not run out, however calls interleave.     *)
Lock == INSTANCE LeaseLock
LeaseTakenOnlyWhenFree == Lock!Spec

(* A leader that sees another hold the lease, or nobody, will find out:    *)
(* its renewal timer is set or its renewal at work, an event that takes    *)
(* the leadership away is on its way, or its watch is down and tells it    *)
(* when it restarts.                                                       *)
FalseLeaderFindsOut ==
    \A n \in Nodes :
        isLeader[n] /\ exists /\ holder # n =>
            \/ renewalTimer[n]
            \/ call[n]["renew"] # "idle"
            \/ \E i \in DOMAIN events[n] : events[n][i] # Deleted
            \/ ~watching[n]

=============================================================================
