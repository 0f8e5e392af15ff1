------------------------ MODULE LeaderElection_proofs ------------------------
(***************************************************************************)
(* Theorems about LeaderElection, for every set of nodes and every value   *)
(* of the bounds.                                                          *)
(***************************************************************************)
EXTENDS LeaderElection, SequenceTheorems, TLAPS

CallType == [Nodes -> [Routines -> Calls]]
Event == Nodes \cup {NoNode, Deleted}

(* A bootstrap attempt at work is one of those that are left.              *)
AttemptRuns ==
    \A n \in Nodes : call[n]["bootstrap"] # "idle" => attempts[n] > 0

TypeInv == TypeOK /\ AttemptRuns

----------------------------------------------------------------------------
(* A step of one routine leaves the others where they are.                 *)
LEMMA GotoEffect ==
    ASSUME TypeOK, NEW n \in Nodes, NEW r \in Routines, NEW c \in Calls, Goto(n, r, c)
    PROVE  /\ call' \in CallType
           /\ call'[n][r] = c
           /\ \A m \in Nodes, q \in Routines :
                  m # n \/ q # r => call'[m][q] = call[m][q]
BY DEF Goto, TypeOK, CallType

LEMMA StartEffect ==
    ASSUME TypeOK, NEW n \in Nodes, NEW r \in Routines, Start(n, r)
    PROVE  /\ call' \in CallType
           /\ call'[n][r] = "read"
           /\ \A m \in Nodes, q \in Routines :
                  m # n \/ q # r => call'[m][q] = call[m][q]
<1>1. Goto(n, r, "read") /\ "read" \in Calls
  BY DEF Start, Calls
<1> QED BY <1>1, GotoEffect

LEMMA OutdatedType ==
    ASSUME TypeOK
    PROVE  Outdated \in CallType
BY DEF Outdated, Outdate, TypeOK, CallType, Calls, Replaces

(* What a write does to the variables of the server and of the watches.    *)
LEMMA AnnounceType ==
    ASSUME TypeOK, NEW calls \in CallType, NEW event \in Event, Announce(calls, event)
    PROVE  /\ writes' \in Nat
           /\ call' = calls
           /\ events' \in [Nodes -> Seq(Event)]
           /\ \A m \in Nodes : watching[m] => events'[m] = Append(events[m], event)
           /\ \A m \in Nodes : ~watching[m] => events'[m] = events[m]
<1>1. \A m \in Nodes : Append(events[m], event) \in Seq(Event) /\ events[m] \in Seq(Event)
  BY DEF TypeOK, Event
<1> QED BY <1>1 DEF Announce, TypeOK

LEMMA WriteEffect ==
    ASSUME TypeOK, NEW n \in Nodes, NEW r \in Routines,
           NEW h \in Nodes \cup {NoNode}, NEW next \in Calls, WriteLease(n, r, h, next)
    PROVE  /\ exists' = TRUE /\ holder' = h /\ fresh' \in BOOLEAN
           /\ fresh' = (h # NoNode)
           /\ writes' \in Nat /\ faults' = faults
           /\ call' \in CallType
           /\ call'[n][r] = next
           /\ \A m \in Nodes, q \in Routines :
                  m # n \/ q # r => call'[m][q] = Outdate(call[m][q])
           /\ events' \in [Nodes -> Seq(Event)]
           /\ \A m \in Nodes : watching[m] => events'[m] = Append(events[m], h)
           /\ \A m \in Nodes : ~watching[m] => events'[m] = events[m]
<1> DEFINE calls == [Outdated EXCEPT ![n][r] = next]
<1>1. Outdated \in CallType
  BY OutdatedType
<1>2. calls \in CallType
  BY <1>1 DEF CallType
<1>3. /\ calls[n][r] = next
      /\ \A m \in Nodes, q \in Routines :
             m # n \/ q # r => calls[m][q] = Outdate(call[m][q])
  <2>1. \A m \in Nodes, q \in Routines : Outdated[m][q] = Outdate(call[m][q])
    BY DEF Outdated
  <2> QED BY <1>1, <2>1 DEF CallType
<1>4. h \in Event /\ Announce(calls, h)
  BY DEF WriteLease, Event
<1>. HIDE DEF calls
<1>5. /\ writes' \in Nat /\ call' = calls
      /\ events' \in [Nodes -> Seq(Event)]
      /\ \A m \in Nodes : watching[m] => events'[m] = Append(events[m], h)
      /\ \A m \in Nodes : ~watching[m] => events'[m] = events[m]
  BY <1>2, <1>4, AnnounceType
<1> QED BY <1>2, <1>3, <1>5 DEF WriteLease

(* A write outdates or keeps the other routines: none starts, none stops.  *)
LEMMA OutdateEffect ==
    ASSUME NEW c \in Calls
    PROVE  /\ Outdate(c) \in Calls
           /\ Outdate(c) = "idle" <=> c = "idle"
           /\ Outdate(c) = "written" <=> c = "written"
           /\ Outdate(c) \notin Replaces
BY DEF Outdate, Calls, Replaces

----------------------------------------------------------------------------
LEMMA TypeInit == Init => TypeInv
<1> SUFFICES ASSUME Init PROVE TypeInv
  OBVIOUS
<1>1. "idle" \in Calls /\ "bootstrap" \in Routines
  BY DEF Calls, Routines, Elections
<1>2. call \in [Nodes -> [Routines -> Calls]]
  BY <1>1 DEF Init
<1>3. events \in [Nodes -> Seq(Nodes \cup {NoNode, Deleted})]
  BY DEF Init
<1>4. attempts \in [Nodes -> 0 .. Attempts]
  BY LeaderAssumption DEF Init
<1>5. TypeOK
  BY <1>2, <1>3, <1>4 DEF Init, TypeOK
<1>6. AttemptRuns
  BY <1>1 DEF Init, AttemptRuns
<1> QED BY <1>5, <1>6 DEF TypeInv

(* The flags and timers of a node in the parts of the actions.             *)
LEMMA NodeParts ==
    ASSUME TypeOK, NEW n \in Nodes
    PROVE  /\ BecomeLeader(n) =>
                 /\ alive' \in [Nodes -> BOOLEAN] /\ isLeader' \in [Nodes -> BOOLEAN]
                 /\ renewalTimer' \in [Nodes -> BOOLEAN]
                 /\ becomeTimers' \in [Nodes -> Nat] /\ watching' \in [Nodes -> BOOLEAN]
           /\ LoseLeadership(n) =>
                 /\ alive' \in [Nodes -> BOOLEAN] /\ isLeader' \in [Nodes -> BOOLEAN]
                 /\ renewalTimer' \in [Nodes -> BOOLEAN]
                 /\ becomeTimers' \in [Nodes -> Nat] /\ watching' \in [Nodes -> BOOLEAN]
                 /\ attempts' = attempts
<1>1. isLeader[n] \in BOOLEAN /\ renewalTimer[n] \in BOOLEAN
  BY DEF TypeOK
<1>2. (renewalTimer[n] /\ ~isLeader[n]) \in BOOLEAN
  OBVIOUS
<1>3. BecomeLeader(n) =>
        /\ isLeader' \in [Nodes -> BOOLEAN] /\ renewalTimer' \in [Nodes -> BOOLEAN]
  BY Zenon DEF BecomeLeader, TypeOK
<1>4. LoseLeadership(n) =>
        /\ isLeader' \in [Nodes -> BOOLEAN] /\ renewalTimer' \in [Nodes -> BOOLEAN]
  BY <1>2, Zenon DEF LoseLeadership, TypeOK
<1> QED BY <1>3, <1>4, Zenon DEF BecomeLeader, LoseLeadership, TypeOK

(* An attempt that ends was one of those that were left.                   *)
LEMMA AttemptEffect ==
    ASSUME TypeInv, NEW n \in Nodes, NEW r \in Routines, NEW leads \in BOOLEAN,
           call[n][r] # "idle", AttemptEnds(n, r, leads)
    PROVE  /\ attempts' \in [Nodes -> 0 .. Attempts]
           /\ \A m \in Nodes : m # n \/ r # "bootstrap" => attempts'[m] = attempts[m]
<1>1. attempts \in [Nodes -> 0 .. Attempts]
  BY DEF TypeInv, TypeOK
<1>2. CASE r # "bootstrap"
  BY <1>1, <1>2 DEF AttemptEnds
<1>3. CASE r = "bootstrap"
  <2> DEFINE left == IF leads THEN 0 ELSE attempts[n] - 1
  <2>1. attempts[n] > 0
    BY <1>3 DEF TypeInv, AttemptRuns
  <2>2. left \in 0 .. Attempts
    BY <1>1, <2>1, LeaderAssumption
  <2>3. attempts' = [attempts EXCEPT ![n] = left]
    BY <1>3 DEF AttemptEnds
  <2>. HIDE DEF left
  <2> QED BY <1>1, <1>3, <2>2, <2>3
<1> QED BY <1>2, <1>3

(* A routine other than the one that steps keeps AttemptRuns.              *)
LEMMA AttemptRunsKept ==
    ASSUME TypeInv, NEW n \in Nodes, NEW r \in Routines,
           \A m \in Nodes, q \in Routines :
               m # n \/ q # r => (call'[m][q] # "idle" => call[m][q] # "idle"),
           \A m \in Nodes : m # n \/ r # "bootstrap" => attempts'[m] = attempts[m],
           r = "bootstrap" => call'[n][r] = "idle" \/ attempts'[n] > 0
    PROVE  AttemptRuns'
<1> SUFFICES ASSUME NEW m \in Nodes, call'[m]["bootstrap"] # "idle"
             PROVE  attempts'[m] > 0
  BY DEF AttemptRuns
<1>1. "bootstrap" \in Routines
  BY DEF Routines, Elections
<1>2. CASE m # n \/ r # "bootstrap"
  BY <1>1, <1>2 DEF TypeInv, AttemptRuns
<1>3. CASE m = n /\ r = "bootstrap"
  BY <1>3
<1> QED BY <1>2, <1>3

(* A write of a routine at work keeps the types.                           *)
LEMMA WriteKeepsType ==
    ASSUME TypeInv, NEW n \in Nodes, NEW r \in Routines,
           NEW h \in Nodes \cup {NoNode}, NEW next \in Calls,
           call[n][r] # "idle", WriteLease(n, r, h, next), UNCHANGED node
    PROVE  TypeInv'
<1>1. TypeOK /\ AttemptRuns
  BY DEF TypeInv
<1>2. TypeOK'
  <2>1. /\ exists' \in BOOLEAN /\ holder' \in Nodes \cup {NoNode} /\ fresh' \in BOOLEAN
        /\ writes' \in Nat /\ faults' = faults
        /\ call' \in CallType /\ events' \in [Nodes -> Seq(Event)]
    <3>1. exists' = TRUE /\ holder' = h
      BY DEF WriteLease
    <3>2. /\ fresh' \in BOOLEAN /\ writes' \in Nat /\ faults' = faults
          /\ call' \in CallType /\ events' \in [Nodes -> Seq(Event)]
      BY <1>1, WriteEffect, ZenonT(60)
    <3>3. exists' \in BOOLEAN
      BY <3>1
    <3>4. holder' \in Nodes \cup {NoNode}
      BY <3>1
    <3> QED BY <3>2, <3>3, <3>4
  <2>2. UNCHANGED <<alive, isLeader, attempts, renewalTimer, becomeTimers, watching>>
    BY DEF node
  <2>3. call' \in [Nodes -> [Routines -> Calls]]
    BY <2>1, Zenon DEF CallType
  <2>4. events' \in [Nodes -> Seq(Nodes \cup {NoNode, Deleted})]
    BY <2>1, Zenon DEF Event
  <2>5. /\ faults' \in Nat
        /\ alive' \in [Nodes -> BOOLEAN] /\ isLeader' \in [Nodes -> BOOLEAN]
        /\ attempts' \in [Nodes -> 0 .. Attempts] /\ renewalTimer' \in [Nodes -> BOOLEAN]
        /\ becomeTimers' \in [Nodes -> Nat] /\ watching' \in [Nodes -> BOOLEAN]
    BY <1>1, <2>1, <2>2, Zenon DEF TypeOK
  <2> QED BY <2>1, <2>3, <2>4, <2>5, Zenon DEF TypeOK
<1>3. \A m \in Nodes, q \in Routines :
          call'[m][q] # "idle" => call[m][q] # "idle"
  <2>1. \A m \in Nodes, q \in Routines : call[m][q] \in Calls
    BY <1>1 DEF TypeOK
  <2>2. \A m \in Nodes, q \in Routines :
            m # n \/ q # r => call'[m][q] = Outdate(call[m][q])
    BY <1>1, WriteEffect
  <2> QED BY <2>1, <2>2, OutdateEffect
<1>4. AttemptRuns'
  <2>1. "bootstrap" \in Routines
    BY DEF Routines, Elections
  <2> QED BY <1>1, <1>3, <2>1 DEF AttemptRuns, node
<1> QED BY <1>2, <1>4 DEF TypeInv

(* Every step of a node keeps the types and the bound on the attempts.     *)
LEMMA TypeStep == TypeInv /\ [Next]_vars => TypeInv'
<1> SUFFICES ASSUME TypeInv, [Next]_vars PROVE TypeInv'
  OBVIOUS
<1>. USE DEF lease, server, node
<1>t. TypeOK /\ AttemptRuns
  BY DEF TypeInv
<1>c. /\ {"bootstrap", "deletion", "renew", "release"} \subseteq Routines
      /\ Elections \subseteq Routines
      /\ {"idle", "read", "create", "acquire", "renew", "release", "outdated", "written"}
            \subseteq Calls
  BY DEF Routines, Elections, Calls, Replaces
<1>o. \A m \in Nodes, q \in Routines : call[m][q] \in Calls
  BY <1>t DEF TypeOK
<1>1. ASSUME NEW n \in Nodes, Bootstrap(n) PROVE TypeInv'
  <2>1. events' \in [Nodes -> Seq(Event)]
    BY <1>1, <1>t DEF Bootstrap, OpenWatch, TypeOK, Event
  <2>2. attempts' \in [Nodes -> 0 .. Attempts]
    BY <1>1, <1>t, LeaderAssumption DEF Bootstrap, TypeOK
  <2>3. TypeOK'
    BY <1>1, <1>t, <2>1, <2>2 DEF Bootstrap, OpenWatch, TypeOK, Event
  <2>4. AttemptRuns'
    BY <1>1, <1>t, LeaderAssumption DEF Bootstrap, TypeOK, AttemptRuns
  <2> QED BY <2>3, <2>4 DEF TypeInv
<1>2. ASSUME NEW n \in Nodes, StartAttempt(n) PROVE TypeInv'
  <2>1. /\ call' \in CallType
        /\ \A m \in Nodes, q \in Routines :
               m # n \/ q # "bootstrap" => call'[m][q] = call[m][q]
    BY <1>2, <1>t, <1>c, StartEffect DEF StartAttempt
  <2>2. TypeOK'
    BY <1>2, <1>t, <2>1 DEF StartAttempt, TypeOK, CallType
  <2>3. AttemptRuns'
    <3>1. attempts' = attempts /\ attempts[n] > 0
      BY <1>2 DEF StartAttempt
    <3>2. \A m \in Nodes, q \in Routines :
             m # n \/ q # "bootstrap" => (call'[m][q] # "idle" => call[m][q] # "idle")
      BY <2>1
    <3>3. "bootstrap" \in Routines
      BY <1>c
    <3> QED BY <3>1, <3>2, <3>3, AttemptRunsKept
  <2> QED BY <2>2, <2>3 DEF TypeInv
<1>3. ASSUME NEW n \in Nodes, NEW r \in Routines, TryRead(n, r) PROVE TypeInv'
  <2>1. call[n][r] = "read"
    BY <1>3 DEF TryRead, At
  <2>2. CASE UNCHANGED node /\ \E c \in {"create", "acquire"} : Goto(n, r, c)
    <3>1. PICK c \in {"create", "acquire"} : Goto(n, r, c)
      BY <2>2
    <3>2. /\ call' \in CallType
          /\ \A m \in Nodes, q \in Routines :
                 m # n \/ q # r => call'[m][q] = call[m][q]
      BY <1>t, <1>c, <3>1, GotoEffect
    <3>3. TypeOK'
      <4>1. UNCHANGED <<server, events>>
        BY <1>3 DEF TryRead
      <4>2. UNCHANGED <<exists, holder, fresh, writes, faults, alive, isLeader,
                        attempts, renewalTimer, becomeTimers, watching>>
        BY <2>2, <4>1 DEF server, lease, node
      <4> QED BY <1>t, <3>2, <4>1, <4>2 DEF TypeOK, CallType
    <3>4. AttemptRuns'
      <4>1. attempts' = attempts /\ call[n][r] # "idle"
        BY <2>1, <2>2
      <4>2. \A m \in Nodes : call'[m]["bootstrap"] # "idle" => call[m]["bootstrap"] # "idle"
        BY <1>c, <3>2, <4>1
      <4> QED BY <1>t, <4>1, <4>2 DEF AttemptRuns
    <3> QED BY <3>3, <3>4 DEF TypeInv
  <2>3. CASE Goto(n, r, "idle") /\ BecomeLeader(n) /\ AttemptEnds(n, r, TRUE)
    <3>1. /\ call' \in CallType /\ call'[n][r] = "idle"
          /\ \A m \in Nodes, q \in Routines :
                 m # n \/ q # r => call'[m][q] = call[m][q]
      BY <1>t, <1>c, <2>3, GotoEffect
    <3>2. /\ attempts' \in [Nodes -> 0 .. Attempts]
          /\ \A m \in Nodes : m # n \/ r # "bootstrap" => attempts'[m] = attempts[m]
      BY <2>1, <2>3, AttemptEffect
    <3>3. TypeOK'
      BY <1>3, <1>t, <2>3, <3>1, <3>2, NodeParts DEF TryRead, TypeOK, CallType
    <3>4. AttemptRuns'
      BY <3>1, <3>2, AttemptRunsKept
    <3> QED BY <3>3, <3>4 DEF TypeInv
  <2>4. CASE Goto(n, r, "idle") /\ GiveUp(n, r)
    <3>1. /\ call' \in CallType /\ call'[n][r] = "idle"
          /\ \A m \in Nodes, q \in Routines :
                 m # n \/ q # r => call'[m][q] = call[m][q]
      BY <1>t, <1>c, <2>4, GotoEffect
    <3>2. /\ attempts' \in [Nodes -> 0 .. Attempts]
          /\ \A m \in Nodes : m # n \/ r # "bootstrap" => attempts'[m] = attempts[m]
      BY <1>t, <2>1, <2>4, AttemptEffect DEF GiveUp, TypeOK
    <3>3. TypeOK'
      BY <1>3, <1>t, <2>4, <3>1, <3>2 DEF TryRead, GiveUp, TypeOK, CallType
    <3>4. AttemptRuns'
      BY <3>1, <3>2, AttemptRunsKept
    <3> QED BY <3>3, <3>4 DEF TypeInv
  <2> QED BY <1>3, <2>2, <2>3, <2>4 DEF TryRead
<1>4. ASSUME NEW n \in Nodes, NEW r \in Routines, CreateLease(n, r) PROVE TypeInv'
  <2>1. PICK nx \in Calls : WriteLease(n, r, n, nx)
    BY <1>4, <1>c DEF CreateLease, Elections, Routines
  <2>2. /\ call[n][r] # "idle" /\ n \in Nodes \cup {NoNode} /\ r \in Routines
    BY <1>4, <1>c DEF CreateLease, At
  <2>3. TypeInv'
    BY <1>4, <2>1, <2>2, WriteKeepsType DEF CreateLease
  <2> QED BY <2>3
<1>5. ASSUME NEW n \in Nodes, NEW r \in Routines, AcquireLease(n, r) PROVE TypeInv'
  <2>1. PICK nx \in Calls : WriteLease(n, r, n, nx)
    BY <1>5, <1>c DEF AcquireLease, Elections, Routines
  <2>2. /\ call[n][r] # "idle" /\ n \in Nodes \cup {NoNode} /\ r \in Routines
    BY <1>5, <1>c DEF AcquireLease, At
  <2>3. TypeInv'
    BY <1>5, <2>1, <2>2, WriteKeepsType DEF AcquireLease
  <2> QED BY <2>3
<1>6. ASSUME NEW n \in Nodes, NEW r \in Routines, TrySucceeds(n, r) PROVE TypeInv'
  <2>1. /\ call[n][r] # "idle" /\ Goto(n, r, "idle")
        /\ AttemptEnds(n, r, TRUE) /\ TRUE \in BOOLEAN
    BY <1>6, <1>t DEF TrySucceeds, At, GiveUp, TypeOK
  <2>2. /\ call' \in CallType /\ call'[n][r] = "idle"
        /\ \A m \in Nodes, q \in Routines :
               m # n \/ q # r => call'[m][q] = call[m][q]
    BY <1>t, <1>c, <2>1, GotoEffect
  <2>3. /\ attempts' \in [Nodes -> 0 .. Attempts]
        /\ \A m \in Nodes : m # n \/ r # "bootstrap" => attempts'[m] = attempts[m]
    BY <2>1, AttemptEffect
  <2>4. TypeOK'
    BY <1>6, <1>t, <2>2, <2>3, NodeParts DEF TrySucceeds, TypeOK, CallType
  <2>5. AttemptRuns'
    BY <2>2, <2>3, AttemptRunsKept
  <2> QED BY <2>4, <2>5 DEF TypeInv
<1>7. ASSUME NEW n \in Nodes, NEW r \in Routines, TryFails(n, r) PROVE TypeInv'
  <2>1. /\ call[n][r] # "idle" /\ Goto(n, r, "idle")
        /\ AttemptEnds(n, r, isLeader[n]) /\ isLeader[n] \in BOOLEAN
    BY <1>7, <1>t DEF TryFails, At, GiveUp, TypeOK
  <2>2. /\ call' \in CallType /\ call'[n][r] = "idle"
        /\ \A m \in Nodes, q \in Routines :
               m # n \/ q # r => call'[m][q] = call[m][q]
    BY <1>t, <1>c, <2>1, GotoEffect
  <2>3. /\ attempts' \in [Nodes -> 0 .. Attempts]
        /\ \A m \in Nodes : m # n \/ r # "bootstrap" => attempts'[m] = attempts[m]
    BY <2>1, AttemptEffect
  <2>4. TypeOK'
    BY <1>7, <1>t, <2>2, <2>3 DEF TryFails, GiveUp, TypeOK, CallType
  <2>5. AttemptRuns'
    BY <2>2, <2>3, AttemptRunsKept
  <2> QED BY <2>4, <2>5 DEF TypeInv
<1>8. ASSUME NEW n \in Nodes, FireRenewal(n) PROVE TypeInv'
  <2>1. /\ call' \in CallType
        /\ \A m \in Nodes, q \in Routines :
               m # n \/ q # "renew" => call'[m][q] = call[m][q]
    <3>1. CASE Start(n, "renew")
      BY <1>t, <1>c, <3>1, StartEffect
    <3>2. CASE UNCHANGED call
      BY <1>t, <3>2 DEF TypeOK, CallType
    <3> QED BY <1>8, <3>1, <3>2 DEF FireRenewal
  <2>2. TypeOK'
    BY <1>8, <1>t, <2>1 DEF FireRenewal, TypeOK, CallType
  <2>3. AttemptRuns'
    <3>1. attempts' = attempts
      BY <1>8 DEF FireRenewal
    <3>2. \A m \in Nodes, q \in Routines :
             m # n \/ q # "renew" => (call'[m][q] # "idle" => call[m][q] # "idle")
      BY <2>1
    <3> QED BY <1>c, <3>1, <3>2, AttemptRunsKept
  <2> QED BY <2>2, <2>3 DEF TypeInv
<1>9. ASSUME NEW n \in Nodes, RenewRead(n) PROVE TypeInv'
  <2>1. \E c \in Calls : Goto(n, "renew", c)
    BY <1>9, <1>c DEF RenewRead
  <2>2. /\ call' \in CallType
        /\ \A m \in Nodes, q \in Routines :
               m # n \/ q # "renew" => call'[m][q] = call[m][q]
    BY <1>t, <1>c, <2>1, GotoEffect
  <2>3. (UNCHANGED node \/ LoseLeadership(n)) /\ UNCHANGED <<server, events>>
    BY <1>9 DEF RenewRead
  <2>4. TypeOK'
    BY <1>t, <2>2, <2>3, NodeParts DEF TypeOK, CallType
  <2>5. attempts' = attempts
    BY <1>t, <2>3, NodeParts
  <2>6. AttemptRuns'
    <3>1. \A m \in Nodes, q \in Routines :
             m # n \/ q # "renew" => (call'[m][q] # "idle" => call[m][q] # "idle")
      BY <2>2
    <3> QED BY <1>c, <2>5, <3>1, AttemptRunsKept
  <2> QED BY <2>4, <2>6 DEF TypeInv
<1>10. ASSUME NEW n \in Nodes, RenewWrite(n) PROVE TypeInv'
  <2>1. PICK nx \in Calls : WriteLease(n, "renew", n, nx)
    BY <1>10, <1>c DEF RenewWrite, Elections, Routines
  <2>2. /\ call[n]["renew"] # "idle" /\ n \in Nodes \cup {NoNode} /\ "renew" \in Routines
    BY <1>10, <1>c DEF RenewWrite, At
  <2>3. TypeInv'
    BY <1>10, <2>1, <2>2, WriteKeepsType DEF RenewWrite
  <2> QED BY <2>3
<1>11. ASSUME NEW n \in Nodes, RenewSucceeds(n) PROVE TypeInv'
  <2>1. Goto(n, "renew", "idle")
    BY <1>11 DEF RenewSucceeds
  <2>2. /\ call' \in CallType
        /\ \A m \in Nodes, q \in Routines :
               m # n \/ q # "renew" => call'[m][q] = call[m][q]
    BY <1>t, <1>c, <2>1, GotoEffect
  <2>3. (UNCHANGED node \/ LoseLeadership(n)) /\ UNCHANGED <<server, events>>
    BY <1>11 DEF RenewSucceeds
  <2>4. TypeOK'
    BY <1>t, <2>2, <2>3, NodeParts DEF TypeOK, CallType
  <2>5. attempts' = attempts
    BY <1>t, <2>3, NodeParts
  <2>6. AttemptRuns'
    <3>1. \A m \in Nodes, q \in Routines :
             m # n \/ q # "renew" => (call'[m][q] # "idle" => call[m][q] # "idle")
      BY <2>2
    <3> QED BY <1>c, <2>5, <3>1, AttemptRunsKept
  <2> QED BY <2>4, <2>6 DEF TypeInv
<1>12. ASSUME NEW n \in Nodes, RenewFails(n) PROVE TypeInv'
  <2>1. Goto(n, "renew", "idle")
    BY <1>12 DEF RenewFails
  <2>2. /\ call' \in CallType
        /\ \A m \in Nodes, q \in Routines :
               m # n \/ q # "renew" => call'[m][q] = call[m][q]
    BY <1>t, <1>c, <2>1, GotoEffect
  <2>3. (UNCHANGED node \/ LoseLeadership(n)) /\ UNCHANGED <<server, events>>
    BY <1>12 DEF RenewFails
  <2>4. TypeOK'
    BY <1>t, <2>2, <2>3, NodeParts DEF TypeOK, CallType
  <2>5. attempts' = attempts
    BY <1>t, <2>3, NodeParts
  <2>6. AttemptRuns'
    <3>1. \A m \in Nodes, q \in Routines :
             m # n \/ q # "renew" => (call'[m][q] # "idle" => call[m][q] # "idle")
      BY <2>2
    <3> QED BY <1>c, <2>5, <3>1, AttemptRunsKept
  <2> QED BY <2>4, <2>6 DEF TypeInv
<1>13. ASSUME NEW n \in Nodes, GracefulShutdown(n) PROVE TypeInv'
  <2>1. /\ call' \in CallType
        /\ \A m \in Nodes, q \in Routines :
               m # n \/ q # "release" => call'[m][q] = call[m][q]
    BY <1>13, <1>t, <1>c, StartEffect DEF GracefulShutdown
  <2>2. TypeOK'
    BY <1>13, <1>t, <2>1 DEF GracefulShutdown, TypeOK, CallType
  <2>3. AttemptRuns'
    <3>1. attempts' = attempts
      BY <1>13 DEF GracefulShutdown
    <3>2. "release" \in Routines /\ "release" # "bootstrap"
      BY <1>c
    <3>3. \A m \in Nodes, q \in Routines :
             m # n \/ q # "release" => (call'[m][q] # "idle" => call[m][q] # "idle")
      BY <2>1
    <3> QED BY <3>1, <3>2, <3>3, AttemptRunsKept
  <2> QED BY <2>2, <2>3 DEF TypeInv
<1>14. ASSUME NEW n \in Nodes, ReleaseRead(n) PROVE TypeInv'
  <2>1. \E c \in Calls : Goto(n, "release", c)
    BY <1>14, <1>c DEF ReleaseRead
  <2>2. /\ call' \in CallType
        /\ \A m \in Nodes, q \in Routines :
               m # n \/ q # "release" => call'[m][q] = call[m][q]
    BY <1>t, <1>c, <2>1, GotoEffect
  <2>3. TypeOK'
    BY <1>14, <1>t, <2>2 DEF ReleaseRead, TypeOK, CallType
  <2>4. AttemptRuns'
    <3>1. attempts' = attempts
      BY <1>14 DEF ReleaseRead
    <3>2. "release" \in Routines /\ "release" # "bootstrap"
      BY <1>c
    <3>3. \A m \in Nodes, q \in Routines :
             m # n \/ q # "release" => (call'[m][q] # "idle" => call[m][q] # "idle")
      BY <2>2
    <3> QED BY <3>1, <3>2, <3>3, AttemptRunsKept
  <2> QED BY <2>3, <2>4 DEF TypeInv
<1>15. ASSUME NEW n \in Nodes, ReleaseFails(n) PROVE TypeInv'
  <2>1. \E c \in Calls : Goto(n, "release", c)
    BY <1>15, <1>c DEF ReleaseFails
  <2>2. /\ call' \in CallType
        /\ \A m \in Nodes, q \in Routines :
               m # n \/ q # "release" => call'[m][q] = call[m][q]
    BY <1>t, <1>c, <2>1, GotoEffect
  <2>3. TypeOK'
    BY <1>15, <1>t, <2>2 DEF ReleaseFails, TypeOK, CallType
  <2>4. AttemptRuns'
    <3>1. attempts' = attempts
      BY <1>15 DEF ReleaseFails
    <3>2. "release" \in Routines /\ "release" # "bootstrap"
      BY <1>c
    <3>3. \A m \in Nodes, q \in Routines :
             m # n \/ q # "release" => (call'[m][q] # "idle" => call[m][q] # "idle")
      BY <2>2
    <3> QED BY <3>1, <3>2, <3>3, AttemptRunsKept
  <2> QED BY <2>3, <2>4 DEF TypeInv
<1>16. ASSUME NEW n \in Nodes, ReleaseWrite(n) PROVE TypeInv'
  <2>1. PICK nx \in Calls : WriteLease(n, "release", NoNode, nx)
    BY <1>16, <1>c DEF ReleaseWrite, Elections, Routines
  <2>2. /\ call[n]["release"] # "idle" /\ NoNode \in Nodes \cup {NoNode} /\ "release" \in Routines
    BY <1>16, <1>c DEF ReleaseWrite, At
  <2>3. TypeInv'
    BY <1>16, <2>1, <2>2, WriteKeepsType DEF ReleaseWrite
  <2> QED BY <2>3
<1>17. ASSUME NEW n \in Nodes, HandleLeaseUpdate(n) PROVE TypeInv'
  <2>1. events' \in [Nodes -> Seq(Event)]
    <3>1. events[n] \in Seq(Event) /\ events[n] # <<>>
      BY <1>17, <1>t DEF HandleLeaseUpdate, TypeOK, Event
    <3>2. Tail(events[n]) \in Seq(Event)
      BY <3>1
    <3> QED BY <1>17, <1>t, <3>2 DEF HandleLeaseUpdate, TypeOK, Event
  <2>2. becomeTimers' \in [Nodes -> Nat] /\ renewalTimer' \in [Nodes -> BOOLEAN]
    <3>1. CASE LoseLeadership(n)
      BY <1>t, <3>1, NodeParts
    <3>2. CASE ~LoseLeadership(n)
      <4>1. /\ renewalTimer' = [renewalTimer EXCEPT ![n] = TRUE]
            /\ \/ becomeTimers' = becomeTimers
               \/ becomeTimers' = [becomeTimers EXCEPT ![n] = @ + 1]
        BY <1>17, <3>2 DEF HandleLeaseUpdate
      <4>2. becomeTimers[n] + 1 \in Nat
        BY <1>t DEF TypeOK
      <4>3. becomeTimers' \in [Nodes -> Nat]
        BY <1>t, <4>1, <4>2, Zenon DEF TypeOK
      <4> QED BY <1>t, <4>1, <4>3 DEF TypeOK
    <3> QED BY <3>1, <3>2
  <2>3. isLeader' \in [Nodes -> BOOLEAN] /\ UNCHANGED <<alive, attempts, watching, call, server>>
    <3>1. CASE LoseLeadership(n)
      BY <1>17, <1>t, <3>1, NodeParts DEF HandleLeaseUpdate, LoseLeadership
    <3>2. CASE ~LoseLeadership(n)
      BY <1>17, <1>t, <3>2 DEF HandleLeaseUpdate, TypeOK
    <3> QED BY <3>1, <3>2
  <2>4. TypeOK'
    BY <1>t, <2>1, <2>2, <2>3 DEF TypeOK, Event
  <2>5. AttemptRuns'
    BY <1>t, <2>3 DEF AttemptRuns
  <2> QED BY <2>4, <2>5 DEF TypeInv
<1>18. ASSUME NEW n \in Nodes, HandleLeaseDeletion(n) PROVE TypeInv'
  <2>1. events' \in [Nodes -> Seq(Event)]
    <3>1. events[n] \in Seq(Event) /\ events[n] # <<>>
      BY <1>18, <1>t DEF HandleLeaseDeletion, TypeOK, Event
    <3>2. Tail(events[n]) \in Seq(Event)
      BY <3>1
    <3> QED BY <1>18, <1>t, <3>2 DEF HandleLeaseDeletion, TypeOK, Event
  <2>2. /\ call' \in CallType
        /\ \A m \in Nodes, q \in Routines :
               m # n \/ q # "deletion" => call'[m][q] = call[m][q]
    <3>1. CASE Start(n, "deletion")
      BY <1>t, <1>c, <3>1, StartEffect
    <3>2. CASE UNCHANGED call
      BY <1>t, <3>2 DEF TypeOK, CallType
    <3> QED BY <1>18, <3>1, <3>2 DEF HandleLeaseDeletion
  <2>3. TypeOK'
    BY <1>18, <1>t, <2>1, <2>2 DEF HandleLeaseDeletion, TypeOK, Event, CallType
  <2>4. AttemptRuns'
    <3>1. attempts' = attempts
      BY <1>18 DEF HandleLeaseDeletion
    <3>2. "deletion" \in Routines /\ "deletion" # "bootstrap"
      BY <1>c
    <3>3. \A m \in Nodes, q \in Routines :
             m # n \/ q # "deletion" => (call'[m][q] # "idle" => call[m][q] # "idle")
      BY <2>2
    <3> QED BY <3>1, <3>2, <3>3, AttemptRunsKept
  <2> QED BY <2>3, <2>4 DEF TypeInv
<1>19. ASSUME NEW n \in Nodes, FireBecomeLeader(n) PROVE TypeInv'
  <2>1. TypeOK'
    BY <1>19, <1>t DEF FireBecomeLeader, TypeOK
  <2>2. AttemptRuns'
    BY <1>19, <1>t DEF FireBecomeLeader, AttemptRuns
  <2> QED BY <2>1, <2>2 DEF TypeInv
<1>20. ASSUME NEW n \in Nodes, WatchEnds(n) PROVE TypeInv'
  <2>1. TypeOK'
    BY <1>20, <1>t DEF WatchEnds, Fault, TypeOK
  <2>2. AttemptRuns'
    BY <1>20, <1>t DEF WatchEnds, AttemptRuns
  <2> QED BY <2>1, <2>2 DEF TypeInv
<1>21. ASSUME NEW n \in Nodes, WatchRestarts(n) PROVE TypeInv'
  <2>1. events' \in [Nodes -> Seq(Event)] /\ watching' \in [Nodes -> BOOLEAN]
    BY <1>21, <1>t DEF WatchRestarts, OpenWatch, TypeOK, Event
  <2>2. TypeOK'
    BY <1>21, <1>t, <2>1 DEF WatchRestarts, TypeOK, Event
  <2>3. AttemptRuns'
    BY <1>21, <1>t DEF WatchRestarts, AttemptRuns
  <2> QED BY <2>2, <2>3 DEF TypeInv
<1>22. ASSUME NEW n \in Nodes, Crash(n) PROVE TypeInv'
  <2>1. call' \in CallType
    BY <1>22, <1>t, <1>c DEF Crash, TypeOK, CallType
  <2>2. events' \in [Nodes -> Seq(Event)] /\ attempts' \in [Nodes -> 0 .. Attempts]
    BY <1>22, <1>t, LeaderAssumption DEF Crash, TypeOK, Event
  <2>3. TypeOK'
    BY <1>22, <1>t, <2>1, <2>2 DEF Crash, Fault, TypeOK, Event, CallType
  <2>4. \A m \in Nodes : /\ call'[m]["bootstrap"] = IF m = n THEN "idle" ELSE call[m]["bootstrap"]
                        /\ attempts'[m] = IF m = n THEN 0 ELSE attempts[m]
    BY <1>22, <1>t, <1>c DEF Crash, TypeOK
  <2>5. AttemptRuns'
    BY <1>t, <2>4 DEF AttemptRuns
  <2> QED BY <2>3, <2>5 DEF TypeInv
<1>23. ASSUME LeaseExpires PROVE TypeInv'
  BY <1>23, <1>t DEF LeaseExpires, TypeInv, TypeOK, AttemptRuns
<1>24. ASSUME LeaseDeleted PROVE TypeInv'
  <2>1. Outdated \in CallType /\ Announce(Outdated, Deleted) /\ Deleted \in Event
    BY <1>24, <1>t, OutdatedType DEF LeaseDeleted, Event
  <2>2. writes' \in Nat /\ call' = Outdated /\ events' \in [Nodes -> Seq(Event)]
    BY <1>t, <2>1, AnnounceType
  <2>3. TypeOK'
    BY <1>24, <1>t, <2>1, <2>2 DEF LeaseDeleted, TypeOK, Event, CallType
  <2>4. \A m \in Nodes : call'[m]["bootstrap"] # "idle" => call[m]["bootstrap"] # "idle"
    BY <1>c, <1>o, <2>2, OutdateEffect DEF Outdated
  <2>5. AttemptRuns'
    BY <1>24, <1>t, <2>4 DEF LeaseDeleted, AttemptRuns
  <2> QED BY <2>3, <2>5 DEF TypeInv
<1>25. ASSUME UNCHANGED vars PROVE TypeInv'
  BY <1>25, <1>t DEF vars, TypeInv, TypeOK, AttemptRuns
<1> QED
  BY <1>1, <1>2, <1>3, <1>4, <1>5, <1>6, <1>7, <1>8, <1>9, <1>10, <1>11, <1>12, <1>13, <1>14, <1>15, <1>16, <1>17, <1>18, <1>19, <1>20, <1>21, <1>22, <1>23, <1>24, <1>25 DEF Next, NodeStep

(* Each variable keeps to the values the code can give it.                 *)
THEOREM TypeCorrect == Spec => []TypeOK
<1>1. TypeInv => TypeOK
  BY DEF TypeInv
<1> QED BY TypeInit, TypeStep, <1>1, PTL DEF Spec

----------------------------------------------------------------------------
(* What a routine knows of the lease it has read and nobody has written    *)
(* since: it was free or expired, or its own node holds it.                *)
Fits(n, c) ==
    /\ c = "acquire" => holder = NoNode \/ ~fresh
    /\ c \in {"renew", "release"} => holder = n

LeaseInv ==
    /\ ~exists => holder = NoNode /\ ~fresh
    /\ \A n \in Nodes, r \in Routines : Fits(n, call[n][r])

(* A step that leaves the lease alone and a routine that looks at it.      *)
LEMMA LeaseKept ==
    ASSUME LeaseInv, UNCHANGED lease,
           \A m \in Nodes, q \in Routines :
               call'[m][q] = call[m][q] \/ Fits(m, call'[m][q])
    PROVE  LeaseInv' /\ UNCHANGED <<holder, fresh>>
<1>1. UNCHANGED <<exists, holder, fresh>>
  BY DEF lease
<1>2. ASSUME NEW m \in Nodes, NEW q \in Routines PROVE Fits(m, call[m][q])'
  BY <1>1 DEF LeaseInv, Fits
<1> QED BY <1>1, <1>2 DEF LeaseInv

(* After a write only the writer may know anything of the lease.           *)
LEMMA LeaseWritten ==
    ASSUME TypeOK, NEW n \in Nodes, NEW r \in Routines,
           NEW h \in Nodes \cup {NoNode}, NEW next \in Calls, WriteLease(n, r, h, next),
           Fits(n, next)'
    PROVE  LeaseInv'
<1>1. /\ exists' = TRUE /\ holder' = h
      /\ call'[n][r] = next
      /\ \A m \in Nodes, q \in Routines :
             m # n \/ q # r => call'[m][q] = Outdate(call[m][q])
  <2>1. exists' = TRUE /\ holder' = h
    BY DEF WriteLease
  <2>2. call'[n][r] = next
    BY OutdatedType DEF WriteLease, Announce, CallType
  <2>3. \A m \in Nodes, q \in Routines :
            m # n \/ q # r => call'[m][q] = Outdate(call[m][q])
    BY WriteEffect
  <2> QED BY <2>1, <2>2, <2>3
<1>2. \A m \in Nodes, q \in Routines : Outdate(call[m][q]) \notin Replaces
  BY OutdateEffect DEF TypeOK
<1>3. ASSUME NEW m \in Nodes, NEW q \in Routines PROVE Fits(m, call[m][q])'
  <2>1. CASE m = n /\ q = r
    BY <1>1, <2>1 DEF Fits
  <2>2. CASE m # n \/ q # r
    BY <1>1, <1>2, <2>2 DEF Fits, Replaces
  <2> QED BY <2>1, <2>2
<1> QED BY <1>1, <1>3 DEF LeaseInv

LEMMA LeaseInit == Init => LeaseInv /\ Lock!Init
BY DEF Init, LeaseInv, Fits, Lock!Init

(* Every step keeps what the routines know, and is one of the lock.        *)
LEMMA LeaseStep ==
    TypeInv /\ LeaseInv /\ [Next]_vars => LeaseInv' /\ [Lock!Next]_<<holder, fresh>>
<1> DEFINE Goal == LeaseInv' /\ [Lock!Next]_<<holder, fresh>>
<1> SUFFICES ASSUME TypeInv, LeaseInv, [Next]_vars PROVE Goal
  OBVIOUS
<1>t. TypeOK
  BY DEF TypeInv
<1>c. /\ {"bootstrap", "deletion", "renew", "release"} \subseteq Routines
      /\ Elections \subseteq Routines
      /\ {"idle", "read", "create", "acquire", "renew", "release", "outdated", "written"}
            \subseteq Calls
  BY DEF Routines, Elections, Calls, Replaces
(* One routine moves on without a write.                                   *)
<1>g. ASSUME NEW n \in Nodes, NEW r \in Routines, NEW c \in Calls,
             Goto(n, r, c), Fits(n, c), UNCHANGED lease
      PROVE  Goal
  <2>1. \A m \in Nodes, q \in Routines :
            call'[m][q] = call[m][q] \/ Fits(m, call'[m][q])
    BY <1>t, <1>g, GotoEffect
  <2> QED BY <1>g, <2>1, LeaseKept
<1>h. ASSUME NEW n \in Nodes, NEW r \in Routines, Start(n, r), UNCHANGED lease
      PROVE  Goal
  BY <1>c, <1>g, <1>h DEF Start, Fits
<1>k. ASSUME UNCHANGED call, UNCHANGED lease PROVE Goal
  BY <1>k, LeaseKept
(* A write that takes or renews the lease.                                 *)
<1>w. ASSUME NEW n \in Nodes, NEW r \in Routines, NEW next \in Calls \ {"acquire"},
             WriteLease(n, r, n, next), holder \in {n, NoNode} \/ ~fresh
      PROVE  Goal
  <2>1. holder' = n /\ fresh' = TRUE
    BY <1>w, LeaderAssumption DEF WriteLease
  <2>2. Fits(n, next)'
    BY <1>w, <2>1 DEF Fits
  <2>3. Lock!Take(n) \/ Lock!Renew(n)
    BY <1>w, <2>1 DEF Lock!Take, Lock!Renew
  <2>4. LeaseInv'
    BY <1>t, <1>w, <2>2, LeaseWritten
  <2> QED BY <2>3, <2>4 DEF Lock!Next
<1>1. ASSUME NEW n \in Nodes, NodeStep(n) PROVE Goal
  <2>1. CASE Bootstrap(n) \/ HandleLeaseUpdate(n) \/ FireBecomeLeader(n)
             \/ WatchEnds(n) \/ WatchRestarts(n)
    <3>1. UNCHANGED call /\ UNCHANGED lease
      BY <2>1 DEF Bootstrap, HandleLeaseUpdate, FireBecomeLeader, WatchEnds,
                  WatchRestarts, server, lease
    <3> QED BY <3>1, <1>k
  <2>2. CASE StartAttempt(n) \/ GracefulShutdown(n)
    BY <1>c, <1>h, <2>2 DEF StartAttempt, GracefulShutdown, server
  <2>3. CASE FireRenewal(n) \/ HandleLeaseDeletion(n)
    BY <1>c, <1>h, <1>k, <2>3 DEF FireRenewal, HandleLeaseDeletion, server
  <2>4. ASSUME NEW r \in Routines, TryRead(n, r) PROVE Goal
    BY <1>c, <1>g, <2>4 DEF TryRead, IsLeaseExpired, Fits, server
  <2>5. ASSUME NEW r \in Routines, CreateLease(n, r) PROVE Goal
    <3>1. PICK next \in Calls \ {"acquire"} : WriteLease(n, r, n, next)
      BY <1>c, <2>5 DEF CreateLease, Elections, Routines
    <3>2. holder = NoNode
      BY <2>5 DEF CreateLease, LeaseInv
    <3> QED BY <1>w, <3>1, <3>2
  <2>6. ASSUME NEW r \in Routines, AcquireLease(n, r) PROVE Goal
    <3>1. WriteLease(n, r, n, "written") /\ call[n][r] = "acquire"
      BY <2>6 DEF AcquireLease, At
    <3>2. holder = NoNode \/ ~fresh
      BY <3>1 DEF LeaseInv, Fits
    <3> QED BY <1>c, <1>w, <3>1, <3>2
  <2>7. ASSUME NEW r \in Routines, TrySucceeds(n, r) \/ TryFails(n, r) PROVE Goal
    BY <1>c, <1>g, <2>7 DEF TrySucceeds, TryFails, Fits, server
  <2>8. CASE RenewRead(n)
    BY <1>c, <1>g, <2>8 DEF RenewRead, Fits, server
  <2>9. CASE RenewWrite(n)
    <3>1. WriteLease(n, "renew", n, "written") /\ call[n]["renew"] = "renew"
      BY <2>9 DEF RenewWrite, At
    <3>2. holder = n
      BY <1>c, <3>1 DEF LeaseInv, Fits
    <3> QED BY <1>c, <1>w, <3>1, <3>2
  <2>10. CASE RenewSucceeds(n) \/ RenewFails(n) \/ ReleaseFails(n)
    BY <1>c, <1>g, <2>10 DEF RenewSucceeds, RenewFails, ReleaseFails, Fits, server
  <2>11. CASE ReleaseRead(n)
    <3>1. PICK c \in Calls : Goto(n, "release", c) /\ Fits(n, c)
      BY <1>c, <2>11 DEF ReleaseRead, Fits
    <3> QED BY <1>c, <1>g, <2>11, <3>1 DEF ReleaseRead, server
  <2>12. CASE ReleaseWrite(n)
    <3>1. WriteLease(n, "release", NoNode, "idle") /\ call[n]["release"] = "release"
      BY <2>12 DEF ReleaseWrite, At
    <3>2. holder = n
      BY <1>c, <3>1 DEF LeaseInv, Fits
    <3>3. holder' = NoNode /\ fresh' = FALSE
      BY <3>1 DEF WriteLease
    <3>4. Lock!Release(n)
      BY <3>2, <3>3 DEF Lock!Release
    <3>5. Fits(n, "idle")'
      BY DEF Fits
    <3>6. LeaseInv'
      BY <1>t, <1>c, <3>1, <3>5, LeaseWritten
    <3> QED BY <3>4, <3>6 DEF Lock!Next
  <2>13. CASE Crash(n)
    <3>1. UNCHANGED lease
      BY <2>13 DEF Crash
    <3>2. \A m \in Nodes, q \in Routines :
              call'[m][q] = call[m][q] \/ call'[m][q] = "idle"
      BY <1>t, <2>13 DEF Crash, TypeOK
    <3> QED BY <3>1, <3>2, LeaseKept DEF Fits
  <2> QED BY <1>1, <2>1, <2>2, <2>3, <2>4, <2>5, <2>6, <2>7, <2>8, <2>9, <2>10,
             <2>11, <2>12, <2>13 DEF NodeStep
<1>2. CASE LeaseExpires
  <2>1. exists' = exists /\ holder' = holder /\ fresh' = FALSE /\ call' = call
    BY <1>2 DEF LeaseExpires
  <2>2. LeaseInv'
    BY <2>1 DEF LeaseInv, Fits
  <2> QED BY <2>1, <2>2 DEF Lock!Next, Lock!Expire
<1>3. CASE LeaseDeleted
  <2>1. exists' = FALSE /\ holder' = NoNode /\ fresh' = FALSE /\ call' = Outdated
    BY <1>3 DEF LeaseDeleted, Announce
  <2>2. \A m \in Nodes, q \in Routines : Outdated[m][q] \notin Replaces
    BY <1>t, OutdateEffect DEF Outdated, TypeOK
  <2>3. LeaseInv'
    BY <2>1, <2>2 DEF LeaseInv, Fits, Replaces
  <2> QED BY <2>1, <2>3 DEF Lock!Next, Lock!Delete
<1>4. CASE UNCHANGED vars
  BY <1>k, <1>4 DEF vars, server
<1> QED BY <1>1, <1>2, <1>3, <1>4 DEF Next

(* LeaderElection implements LeaseLock: no interleaving of attempts,       *)
(* renewals and releases, with answers and nodes lost, takes the lease     *)
(* from a node whose time has not run out.                                 *)
THEOREM LeaseRefinesLock == Spec => LeaseTakenOnlyWhenFree
<1>1. Init => TypeInv /\ LeaseInv /\ Lock!Init
  BY TypeInit, LeaseInit
<1>2. TypeInv /\ LeaseInv /\ [Next]_vars
        => TypeInv' /\ LeaseInv' /\ [Lock!Next]_<<holder, fresh>>
  BY TypeStep, LeaseStep
<1> QED BY <1>1, <1>2, PTL DEF Spec, LeaseTakenOnlyWhenFree, Lock!Spec

----------------------------------------------------------------------------
(* FalseLeaderFindsOut, but a renewal whose write is done tells nothing    *)
(* any more: a write that came later has its own event.                    *)
Renewing(c) == c \notin {"idle", "written"}
Told(q) == \E i \in DOMAIN q : q[i] # Deleted

FindsOut(n) ==
    isLeader[n] /\ exists /\ holder # n =>
        renewalTimer[n] \/ Renewing(call[n]["renew"]) \/ Told(events[n]) \/ ~watching[n]

FindsOutInv == \A n \in Nodes : FindsOut(n)

(* Nothing about node m changes but what other routines of it are at.      *)
LEMMA FindsOutKept ==
    ASSUME NEW m \in Nodes, FindsOut(m), UNCHANGED <<exists, holder>>,
           isLeader'[m] = isLeader[m], renewalTimer'[m] = renewalTimer[m],
           Renewing(call[m]["renew"]) => Renewing(call'[m]["renew"]),
           events'[m] = events[m], watching'[m] = watching[m]
    PROVE  FindsOut(m)'
BY DEF FindsOut

LEMMA ToldLast ==
    ASSUME NEW q \in Seq(Event), NEW h \in Nodes \cup {NoNode}
    PROVE  Told(Append(q, h))
<1>1. Len(q) + 1 \in DOMAIN Append(q, h) /\ Append(q, h)[Len(q) + 1] = h
  OBVIOUS
<1>2. h # Deleted
  BY LeaderAssumption
<1> QED BY <1>1, <1>2 DEF Told

LEMMA ToldTail ==
    ASSUME NEW q \in Seq(Event), q # <<>>, Head(q) = Deleted, Told(q)
    PROVE  Told(Tail(q))
<1>1. PICK i \in DOMAIN q : q[i] # Deleted
  BY DEF Told
<1>2. i - 1 \in DOMAIN Tail(q) /\ Tail(q)[i - 1] = q[i]
  BY <1>1
<1> QED BY <1>1, <1>2 DEF Told

(* Every write of the lease is told to the nodes that watch.               *)
LEMMA FindsOutWrite ==
    ASSUME TypeOK, NEW n \in Nodes, NEW r \in Routines,
           NEW h \in Nodes \cup {NoNode}, NEW next \in Calls, WriteLease(n, r, h, next),
           watching' = watching, NEW m \in Nodes
    PROVE  FindsOut(m)'
<1>1. CASE watching[m]
  <2>1. h \in Event /\ Announce([Outdated EXCEPT ![n][r] = next], h)
    BY DEF WriteLease, Event
  <2>2. events'[m] = Append(events[m], h) /\ events[m] \in Seq(Event)
    BY <1>1, <2>1 DEF Announce, TypeOK, Event
  <2> QED BY <2>2, ToldLast DEF FindsOut
<1>2. CASE ~watching[m]
  BY <1>2 DEF FindsOut
<1> QED BY <1>1, <1>2

LEMMA FindsOutInit == Init => FindsOutInv
BY DEF Init, FindsOutInv, FindsOut

(* One step, seen by any node m.                                           *)
LEMMA FindsOutStep ==
    TypeInv /\ FindsOutInv /\ [Next]_vars => FindsOutInv'
<1> SUFFICES ASSUME TypeInv, FindsOutInv, [Next]_vars, NEW m \in Nodes PROVE FindsOut(m)'
  BY DEF FindsOutInv
<1>t. TypeOK
  BY DEF TypeInv
<1>f. FindsOut(m)
  BY DEF FindsOutInv
<1>c. /\ {"bootstrap", "deletion", "renew", "release"} \subseteq Routines
      /\ Elections \subseteq Routines
      /\ "renew" \notin Elections
      /\ {"idle", "read", "create", "acquire", "renew", "release", "outdated", "written"}
            \subseteq Calls
      /\ {"read", "create", "acquire", "renew", "release", "outdated"} \subseteq Calls
  BY DEF Routines, Elections, Calls, Replaces
<1>b. /\ isLeader[m] \in BOOLEAN /\ renewalTimer[m] \in BOOLEAN
      /\ watching[m] \in BOOLEAN /\ events[m] \in Seq(Event)
  BY <1>t DEF TypeOK, Event
(* A routine other than the renewal moves on, and the node stays.          *)
<1>g. ASSUME NEW n \in Nodes, NEW r \in Routines \ {"renew"}, NEW c \in Calls,
             Goto(n, r, c), UNCHANGED <<exists, holder, isLeader, renewalTimer, events, watching>>
      PROVE  FindsOut(m)'
  <2>1. call'[m]["renew"] = call[m]["renew"]
    BY <1>t, <1>c, <1>g, GotoEffect
  <2> QED BY <1>f, <1>g, <2>1, FindsOutKept
<1>k. ASSUME UNCHANGED <<exists, holder, isLeader, renewalTimer, events, watching, call>>
      PROVE  FindsOut(m)'
  BY <1>f, <1>k, FindsOutKept
(* A node that leads from now on sets its timer; one that stops is out.    *)
<1>l. ASSUME NEW n \in Nodes, NEW r \in Routines, Goto(n, r, "idle"),
             BecomeLeader(n) \/ LoseLeadership(n), UNCHANGED <<exists, holder, events>>
      PROVE  FindsOut(m)'
  <2>1. CASE m = n
    <3>1. CASE BecomeLeader(n)
      <4>1. renewalTimer'[m]
        BY <1>t, <2>1, <3>1 DEF BecomeLeader, TypeOK
      <4> QED BY <4>1 DEF FindsOut
    <3>2. CASE LoseLeadership(n)
      <4>1. ~isLeader'[m]
        BY <1>t, <2>1, <3>2 DEF LoseLeadership, TypeOK
      <4> QED BY <4>1 DEF FindsOut
    <3> QED BY <1>l, <3>1, <3>2
  <2>2. CASE m # n
    <3>1. /\ isLeader'[m] = isLeader[m] /\ renewalTimer'[m] = renewalTimer[m]
          /\ watching' = watching
      BY <1>l, <1>t, <2>2 DEF BecomeLeader, LoseLeadership, TypeOK
    <3>2. call'[m]["renew"] = call[m]["renew"]
      BY <1>l, <1>t, <1>c, <2>2, GotoEffect
    <3> QED BY <1>f, <1>l, <3>1, <3>2, FindsOutKept
  <2> QED BY <2>1, <2>2
<1>w. ASSUME NEW n \in Nodes, NEW r \in Routines, NEW h \in Nodes \cup {NoNode},
             NEW next \in Calls, WriteLease(n, r, h, next), UNCHANGED node
      PROVE  FindsOut(m)'
  BY <1>t, <1>w, FindsOutWrite DEF node
<1>1. ASSUME NEW n \in Nodes, NodeStep(n) PROVE FindsOut(m)'
  <2>1. CASE StartAttempt(n) \/ GracefulShutdown(n)
    BY <1>c, <1>g, <2>1 DEF StartAttempt, GracefulShutdown, Start, server, lease, node
  <2>2. ASSUME NEW r \in Routines, TryRead(n, r) PROVE FindsOut(m)'
    <3>1. r \in Elections /\ r # "renew"
      BY <1>c, <2>2 DEF TryRead
    <3>2. CASE BecomeLeader(n) /\ Goto(n, r, "idle")
      BY <1>l, <2>2, <3>2 DEF TryRead, server, lease
    <3>3. CASE ~(BecomeLeader(n) /\ Goto(n, r, "idle"))
      BY <1>c, <1>g, <2>2, <3>1, <3>3 DEF TryRead, GiveUp, server, lease, node
    <3> QED BY <3>2, <3>3
  <2>3. ASSUME NEW r \in Routines, CreateLease(n, r) PROVE FindsOut(m)'
    <3>1. PICK next \in Calls : WriteLease(n, r, n, next)
      BY <1>c, <2>3 DEF CreateLease, Elections, Routines
    <3> QED BY <1>w, <2>3, <3>1 DEF CreateLease
  <2>4. ASSUME NEW r \in Routines, AcquireLease(n, r) PROVE FindsOut(m)'
    BY <1>c, <1>w, <2>4 DEF AcquireLease
  <2>5. ASSUME NEW r \in Routines, TrySucceeds(n, r) PROVE FindsOut(m)'
    BY <1>l, <2>5 DEF TrySucceeds, server, lease
  <2>6. ASSUME NEW r \in Routines, TryFails(n, r) PROVE FindsOut(m)'
    <3>1. r \in Elections /\ r # "renew"
      BY <1>c, <2>6 DEF TryFails
    <3> QED BY <1>c, <1>g, <2>6, <3>1 DEF TryFails, GiveUp, server, lease
  <2>7. CASE FireRenewal(n)
    <3>1. CASE isLeader[n]
      <4>1. Start(n, "renew")
        BY <2>7, <3>1 DEF FireRenewal
      <4>2. call'[m]["renew"] = "read" \/ call'[m]["renew"] = call[m]["renew"]
        BY <1>c, <1>t, <4>1, StartEffect
      <4>3. m = n => call'[m]["renew"] = "read"
        BY <1>c, <1>t, <4>1, StartEffect
      <4>4. CASE m = n
        BY <4>3, <4>4 DEF FindsOut, Renewing
      <4>5. CASE m # n
        <5>1. renewalTimer'[m] = renewalTimer[m]
          BY <1>t, <2>7, <4>5 DEF FireRenewal, TypeOK
        <5>2. UNCHANGED <<exists, holder, isLeader, events, watching>>
          BY <2>7 DEF FireRenewal, server, lease
        <5>3. Renewing(call[m]["renew"]) => Renewing(call'[m]["renew"])
          BY <4>2 DEF Renewing
        <5> QED BY <1>f, <5>1, <5>2, <5>3, FindsOutKept
      <4> QED BY <4>4, <4>5
    <3>2. CASE ~isLeader[n]
      <4>1. /\ UNCHANGED <<exists, holder, isLeader, events, watching, call>>
            /\ renewalTimer' = [renewalTimer EXCEPT ![n] = FALSE]
        BY <2>7, <3>2 DEF FireRenewal, server, lease
      <4>2. CASE m = n
        BY <3>2, <4>1, <4>2 DEF FindsOut
      <4>3. CASE m # n
        <5>1. renewalTimer'[m] = renewalTimer[m]
          BY <1>t, <4>1, <4>3 DEF TypeOK
        <5> QED BY <1>f, <4>1, <5>1, FindsOutKept
      <4> QED BY <4>2, <4>3
    <3> QED BY <3>1, <3>2
  <2>8. CASE RenewRead(n)
    <3>1. CASE LoseLeadership(n) /\ Goto(n, "renew", "idle")
      BY <1>c, <1>l, <2>8, <3>1 DEF RenewRead, server, lease
    <3>2. CASE ~(LoseLeadership(n) /\ Goto(n, "renew", "idle"))
      <4>1. PICK c \in {"renew", "create"} : Goto(n, "renew", c)
        BY <2>8, <3>2 DEF RenewRead
      <4>2. UNCHANGED <<exists, holder, isLeader, renewalTimer, events, watching>>
        BY <2>8, <3>2 DEF RenewRead, server, lease, node
      <4>3. call'[m]["renew"] = c \/ call'[m]["renew"] = call[m]["renew"]
        BY <1>c, <1>t, <4>1, GotoEffect
      <4>4. Renewing(call[m]["renew"]) => Renewing(call'[m]["renew"])
        BY <4>3 DEF Renewing
      <4> QED BY <1>f, <4>2, <4>4, FindsOutKept
    <3> QED BY <3>1, <3>2
  <2>9. CASE RenewWrite(n)
    BY <1>c, <1>w, <2>9 DEF RenewWrite
  <2>10. CASE RenewSucceeds(n)
    <3>1. Goto(n, "renew", "idle") /\ call[n]["renew"] = "written"
      BY <2>10 DEF RenewSucceeds, At
    <3>2. Renewing(call[m]["renew"]) => Renewing(call'[m]["renew"])
      BY <1>c, <1>t, <3>1, GotoEffect DEF Renewing
    <3> QED BY <1>f, <2>10, <3>2, FindsOutKept DEF RenewSucceeds, server, lease, node
  <2>11. CASE RenewFails(n)
    BY <1>c, <1>l, <2>11 DEF RenewFails, server, lease
  <2>12. CASE ReleaseRead(n)
    <3>1. PICK c \in Calls : Goto(n, "release", c)
      BY <1>c, <2>12 DEF ReleaseRead
    <3> QED BY <1>c, <1>g, <2>12, <3>1 DEF ReleaseRead, server, lease, node
  <2>13. CASE ReleaseWrite(n)
    BY <1>c, <1>w, <2>13 DEF ReleaseWrite
  <2>14. CASE ReleaseFails(n)
    BY <1>c, <1>g, <2>14 DEF ReleaseFails, server, lease, node
  <2>15. CASE HandleLeaseUpdate(n)
    <3>1. UNCHANGED <<exists, holder, watching, call>>
      BY <2>15 DEF HandleLeaseUpdate, LoseLeadership, server, lease
    <3>2. CASE m = n
      <4>1. CASE LoseLeadership(n)
        <5>1. ~isLeader'[m]
          BY <1>t, <3>2, <4>1 DEF LoseLeadership, TypeOK
        <5> QED BY <5>1 DEF FindsOut
      <4>2. CASE ~LoseLeadership(n)
        <5>1. renewalTimer'[m]
          BY <1>t, <2>15, <3>2, <4>2 DEF HandleLeaseUpdate, TypeOK
        <5> QED BY <5>1 DEF FindsOut
      <4> QED BY <4>1, <4>2
    <3>3. CASE m # n
      <4>1. isLeader'[m] = isLeader[m] /\ renewalTimer'[m] = renewalTimer[m]
        BY <1>t, <2>15, <3>3 DEF HandleLeaseUpdate, LoseLeadership, TypeOK
      <4>2. events'[m] = events[m]
        BY <1>t, <2>15, <3>3 DEF HandleLeaseUpdate, TypeOK
      <4> QED BY <1>f, <3>1, <4>1, <4>2, FindsOutKept
    <3> QED BY <3>2, <3>3
  <2>16. CASE HandleLeaseDeletion(n)
    <3>1. UNCHANGED <<exists, holder, isLeader, renewalTimer, watching>>
      BY <2>16 DEF HandleLeaseDeletion, server, lease, node
    <3>2. call'[m]["renew"] = call[m]["renew"]
      <4>1. CASE Start(n, "deletion")
        BY <1>c, <1>t, <4>1, StartEffect DEF Routines, Elections
      <4>2. CASE UNCHANGED call
        BY <4>2
      <4> QED BY <2>16, <4>1, <4>2 DEF HandleLeaseDeletion
    <3>3. CASE m = n
      <4>1. /\ events[m] # <<>> /\ Head(events[m]) = Deleted
            /\ events'[m] = Tail(events[m])
        BY <1>t, <2>16, <3>3 DEF HandleLeaseDeletion, TypeOK
      <4>2. Told(events[m]) => Told(events'[m])
        BY <1>b, <4>1, ToldTail
      <4> QED BY <1>f, <3>1, <3>2, <4>2 DEF FindsOut
    <3>4. CASE m # n
      <4>1. events'[m] = events[m]
        BY <1>t, <2>16, <3>4 DEF HandleLeaseDeletion, TypeOK
      <4> QED BY <1>f, <3>1, <3>2, <4>1, FindsOutKept
    <3> QED BY <3>3, <3>4
  <2>17. CASE FireBecomeLeader(n)
    <3>1. UNCHANGED <<exists, holder, events, watching, call>>
      BY <2>17 DEF FireBecomeLeader, server, lease
    <3>2. CASE m = n
      <4>1. renewalTimer'[m]
        BY <1>t, <2>17, <3>2 DEF FireBecomeLeader, TypeOK
      <4> QED BY <4>1 DEF FindsOut
    <3>3. CASE m # n
      <4>1. isLeader'[m] = isLeader[m] /\ renewalTimer'[m] = renewalTimer[m]
        BY <1>t, <2>17, <3>3 DEF FireBecomeLeader, TypeOK
      <4> QED BY <1>f, <3>1, <4>1, FindsOutKept
    <3> QED BY <3>2, <3>3
  <2>18. CASE WatchEnds(n)
    <3>1. UNCHANGED <<exists, holder, isLeader, renewalTimer, events, call>>
      BY <2>18 DEF WatchEnds, lease
    <3>2. ~watching'[m] \/ watching'[m] = watching[m]
      BY <1>t, <2>18 DEF WatchEnds, TypeOK
    <3> QED BY <1>f, <3>1, <3>2 DEF FindsOut
  <2>19. CASE Bootstrap(n) \/ WatchRestarts(n)
    <3>1. UNCHANGED <<exists, holder, isLeader, renewalTimer, call>> /\ OpenWatch(n)
      BY <2>19 DEF Bootstrap, WatchRestarts, server, lease
    <3>2. CASE m = n /\ exists
      <4>1. events'[m] = Append(events[m], holder)
        BY <1>t, <3>1, <3>2 DEF OpenWatch, TypeOK
      <4>2. holder \in Nodes \cup {NoNode}
        BY <1>t DEF TypeOK
      <4> QED BY <1>b, <4>1, <4>2, ToldLast DEF FindsOut
    <3>3. CASE ~exists
      BY <3>1, <3>3 DEF FindsOut
    <3>4. CASE m # n
      <4>1. watching'[m] = watching[m] /\ events'[m] = events[m]
        BY <1>t, <3>1, <3>4 DEF OpenWatch, TypeOK
      <4> QED BY <1>f, <3>1, <4>1, FindsOutKept
    <3> QED BY <3>2, <3>3, <3>4
  <2>20. CASE Crash(n)
    <3>1. CASE m = n
      <4>1. ~isLeader'[m]
        BY <1>t, <2>20, <3>1 DEF Crash, TypeOK
      <4> QED BY <4>1 DEF FindsOut
    <3>2. CASE m # n
      <4>1. /\ isLeader'[m] = isLeader[m] /\ renewalTimer'[m] = renewalTimer[m]
            /\ events'[m] = events[m] /\ watching'[m] = watching[m]
        BY <1>t, <2>20, <3>2 DEF Crash, TypeOK
      <4>2. call'[m] = call[m]
        BY <1>t, <2>20, <3>2 DEF Crash, TypeOK
      <4>3. UNCHANGED <<exists, holder>>
        BY <2>20 DEF Crash, lease
      <4> QED BY <1>f, <4>1, <4>2, <4>3, FindsOutKept
    <3> QED BY <3>1, <3>2
  <2> QED BY <1>1, <2>1, <2>2, <2>3, <2>4, <2>5, <2>6, <2>7, <2>8, <2>9, <2>10, <2>11,
             <2>12, <2>13, <2>14, <2>15, <2>16, <2>17, <2>18, <2>19, <2>20 DEF NodeStep
<1>2. CASE LeaseExpires
  BY <1>2, <1>k DEF LeaseExpires, node
<1>3. CASE LeaseDeleted
  BY <1>3 DEF LeaseDeleted, FindsOut
<1>4. CASE UNCHANGED vars
  BY <1>4, <1>k DEF vars, server, lease, node
<1> QED BY <1>1, <1>2, <1>3, <1>4 DEF Next

(* A node that leads without the lease will find out: whatever it misses,  *)
(* one of its renewal, its events and its watch still has to speak.        *)
THEOREM FalseLeaderCaught == Spec => []FalseLeaderFindsOut
<1>1. FindsOutInv => FalseLeaderFindsOut
  BY DEF FindsOutInv, FindsOut, FalseLeaderFindsOut, Renewing, Told
<1> QED BY TypeInit, TypeStep, FindsOutInit, FindsOutStep, <1>1, PTL DEF Spec
==============================================================================
