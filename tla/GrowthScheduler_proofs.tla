----------------------- MODULE GrowthScheduler_proofs -----------------------
(***************************************************************************)
(* Theorems about GrowthScheduler, for every set of replicas and speed-ups *)
(* and every value of the bounds, and about EnergyScheduler, which is made *)
(* of its steps: what is proved of the ticks of crops holds of those of    *)
(* users; and since users stay, the pages of its jobs stay within the      *)
(* table, which those of crops need not do.                                *)
(***************************************************************************)
EXTENDS EnergyScheduler, SequenceTheorems, FiniteSetTheorems, TLAPS

(* The number of jobs of a tick is a natural number, 0 without rows.       *)
LEMMA BatchCountNat ==
    ASSUME NEW n \in Nat
    PROVE  /\ BatchCount(n) \in Nat
           /\ BatchCount(n) * BatchSize >= n
           /\ (BatchCount(n) - 1) * BatchSize < n
<1> DEFINE B == BatchSize
           m == n + B - 1
           q == m \div B
<1>1. B \in Nat /\ B > 0
  BY ConstantsAssumption
<1>2. m \in Nat
  BY <1>1
<1>3. q \in Int /\ q >= 0 /\ B * q <= m /\ m < B * q + B
  <2>1. m = B * q + (m % B) /\ (m % B) \in 0 .. B - 1
    BY <1>1, <1>2, SMT
  <2>2. q \in Int /\ q >= 0
    BY <1>1, <1>2, SMT
  <2>. HIDE DEF q
  <2> QED BY <1>1, <1>2, <2>1, <2>2, SMT
<1>4. BatchCount(n) = q
  BY DEF BatchCount
<1>. HIDE DEF q
<1>5. q * B = B * q /\ (q - 1) * B = B * q - B
  BY <1>1, <1>3, SMT
<1> QED BY <1>1, <1>3, <1>4, <1>5, SMT

(* The jobs of a tick together read every row the count query saw: the     *)
(* skip and take of crop.service.ts leave no row between two jobs.         *)
THEOREM BatchesCoverRows ==
    ASSUME NEW n \in Nat, NEW elapsed \in Int, NEW boosts \in SUBSET SpeedUps,
           NEW now \in Nat, NEW row \in 0 .. n - 1
    PROVE  LET jobs == Batches(n, elapsed, boosts, now)
           IN  \E i \in DOMAIN jobs :
                   jobs[i].skip <= row /\ row < jobs[i].skip + jobs[i].take
<1> DEFINE B == BatchSize
           jobs == Batches(n, elapsed, boosts, now)
           q == row \div B
           i == q + 1
<1>1. B \in Nat /\ B > 0
  BY ConstantsAssumption
<1>2. row = B * q + (row % B) /\ (row % B) \in 0 .. B - 1
  BY <1>1, SMT
<1>3. q \in Nat
  BY <1>1, SMT
<1>4. /\ BatchCount(n) \in Nat
      /\ BatchCount(n) * B >= n
  BY BatchCountNat
<1>5. i \in 1 .. BatchCount(n)
  <2>. HIDE DEF q
  <2>1. B * q < BatchCount(n) * B
    BY <1>1, <1>2, <1>3, <1>4, SMT
  <2>2. q < BatchCount(n)
    BY <1>1, <1>3, <1>4, <2>1, SMT
  <2> QED BY <1>3, <1>4, <2>2
<1>6. /\ jobs[i].skip = (i - 1) * B
      /\ jobs[i].take = Min2(i * B, n)
      /\ i \in DOMAIN jobs
  BY <1>5 DEF Batches
<1>7. (i - 1) * B = B * q /\ i * B = B * q + B
  BY <1>1, <1>3, SMT
<1>8. jobs[i].skip <= row /\ row < jobs[i].skip + jobs[i].take
  <2>. HIDE DEF q, jobs
  <2> QED BY <1>1, <1>2, <1>3, <1>6, <1>7, SMT DEF Min2
<1> QED BY <1>6, <1>8

(* The rows of a listing of n that a job reads: typeorm's skip and take.   *)
Reads(job, n) == {row \in 0 .. n - 1 : job.skip <= row /\ row < job.skip + job.take}

(* No row is read by two jobs of a tick exactly when the rows make at most *)
(* two batches: crop.service.ts gives a page take = Math.min((i + 1) *     *)
(* batchSize, count) rows, so the second page is two batches long and      *)
(* reaches into the third, whose rows are given the tick's time twice.     *)
THEOREM PagesApart ==
    ASSUME NEW n \in Nat, NEW elapsed \in Int, NEW boosts \in SUBSET SpeedUps,
           NEW now \in Nat
    PROVE  LET jobs == Batches(n, elapsed, boosts, now)
           IN  (\A i, j \in DOMAIN jobs : i # j =>
                    Reads(jobs[i], n) \cap Reads(jobs[j], n) = {})
               <=> n <= 2 * BatchSize
<1> DEFINE B == BatchSize
           jobs == Batches(n, elapsed, boosts, now)
           last == BatchCount(n)
<1>1. B \in Nat /\ B > 0
  BY ConstantsAssumption
<1>2. /\ last \in Nat
      /\ last * B >= n
      /\ (last - 1) * B < n
  BY BatchCountNat
<1>3. /\ DOMAIN jobs = 1 .. last
      /\ \A i \in 1 .. last : /\ jobs[i].skip = (i - 1) * B
                              /\ jobs[i].take = Min2(i * B, n)
  BY DEF Batches
<1>. HIDE DEF jobs, last
<1>4. ASSUME n <= 2 * B, NEW i \in 1 .. last, NEW j \in 1 .. last, i < j,
             NEW row \in Reads(jobs[i], n) \cap Reads(jobs[j], n)
      PROVE  FALSE
  <2>1. last <= 2
    <3>1. last >= 3 => (last - 1) * B >= 2 * B
      BY <1>1, <1>2, SMT
    <3> QED BY <1>1, <1>2, <1>4, <3>1, SMT
  <2>2. i = 1 /\ j = 2
    BY <1>2, <1>4, <2>1
  <2>3. jobs[1].skip = 0 /\ jobs[1].take <= B /\ jobs[2].skip = B
    BY <1>1, <1>2, <1>3, <1>4, <2>2, SMT DEF Min2
  <2>4. row \in Nat /\ row < jobs[1].skip + jobs[1].take /\ jobs[2].skip <= row
    BY <1>4, <2>2 DEF Reads
  <2>5. jobs[1].take \in Nat
    BY <1>1, <1>2, <1>3, <1>4, <2>2, SMT DEF Min2
  <2> QED BY <1>1, <2>3, <2>4, <2>5, SMT
<1>5. ASSUME n > 2 * B
      PROVE  /\ 2 \in 1 .. last /\ 3 \in 1 .. last
             /\ 2 * B \in Reads(jobs[2], n) \cap Reads(jobs[3], n)
  <2>1. last >= 3
    <3>1. last <= 2 => last * B <= 2 * B
      BY <1>1, <1>2, SMT
    <3> QED BY <1>1, <1>2, <1>5, <3>1, SMT
  <2>2. /\ jobs[2].skip = B /\ jobs[2].take = 2 * B
        /\ jobs[3].skip = 2 * B /\ jobs[3].take \in Nat /\ jobs[3].take > 0
    <3>1. 2 \in 1 .. last /\ 3 \in 1 .. last
      BY <1>2, <2>1
    <3>2. /\ jobs[2].skip = (2 - 1) * B /\ jobs[2].take = Min2(2 * B, n)
          /\ jobs[3].skip = (3 - 1) * B /\ jobs[3].take = Min2(3 * B, n)
      BY <1>3, <3>1
    <3>3. (2 - 1) * B = B /\ (3 - 1) * B = 2 * B /\ 3 * B > 0 /\ 3 * B \in Nat
      BY <1>1
    <3>. HIDE DEF B
    <3> QED BY <1>1, <1>5, <3>2, <3>3, SMT DEF Min2
  <2>3. 2 * B \in 0 .. n - 1
    BY <1>1, <1>5
  <2>4. /\ jobs[2].skip <= 2 * B /\ 2 * B < jobs[2].skip + jobs[2].take
        /\ jobs[3].skip <= 2 * B /\ 2 * B < jobs[3].skip + jobs[3].take
    <3>1. B \in Nat /\ B > 0
      BY <1>1
    <3>. HIDE DEF B
    <3> QED BY <2>2, <3>1, SMT
  <2>5. 2 \in 1 .. last /\ 3 \in 1 .. last
    BY <1>2, <2>1
  <2>. HIDE DEF B
  <2> QED BY <2>3, <2>4, <2>5 DEF Reads
<1>6. ASSUME n <= 2 * B, NEW i \in DOMAIN jobs, NEW j \in DOMAIN jobs, i # j
      PROVE  Reads(jobs[i], n) \cap Reads(jobs[j], n) = {}
  <2>1. i < j \/ j < i
    BY <1>2, <1>3, <1>6
  <2> QED BY <1>3, <1>4, <1>6, <2>1
<1>7. n <= 2 * B \/ n > 2 * B
  BY <1>1
<1>8. n > 2 * B => ~(n <= 2 * B)
  BY <1>1
<1>9. ASSUME \A i, j \in DOMAIN jobs : i # j =>
                 Reads(jobs[i], n) \cap Reads(jobs[j], n) = {}
      PROVE  n <= 2 * B
  BY <1>3, <1>5, <1>7, <1>9
<1> QED BY <1>6, <1>9 DEF jobs

(* The jobs of a tick are well formed.                                     *)
LEMMA BatchesType ==
    ASSUME NEW n \in Nat, NEW elapsed \in Int, NEW boosts \in SUBSET SpeedUps,
           NEW now \in Nat
    PROVE  Batches(n, elapsed, boosts, now) \in Seq(Job)
<1>1. BatchCount(n) \in Nat
  BY BatchCountNat
<1>2. ASSUME NEW i \in 1 .. BatchCount(n)
      PROVE  (i - 1) * BatchSize \in Nat /\ Min2(i * BatchSize, n) \in Nat
  BY <1>1, <1>2, ConstantsAssumption, SMT DEF Min2
<1>3. Batches(n, elapsed, boosts, now) \in [1 .. BatchCount(n) -> Job]
  BY <1>2 DEF Batches, Job
<1> QED BY <1>1, <1>3, SeqDef

(* Ending handlers keeps the locals typed, and counting the uncommitted    *)
(* ones gives a natural number that is 0 only if there was none.           *)
LEMMA CountUncommittedType ==
    ASSUME NEW S \in SUBSET Handlers, uncommitted \in Nat, CountUncommitted(S)
    PROVE  /\ uncommitted' \in Nat
           /\ uncommitted' = 0 => /\ uncommitted = 0
                                  /\ \A h \in S : phase[h] # "commit"
<1> DEFINE lost == {h \in S : phase[h] = "commit"}
<1>1. IsFiniteSet(Handlers)
  BY ConstantsAssumption, FS_Product DEF Handlers
<1>2. IsFiniteSet(lost)
  BY <1>1, FS_Subset
<1>3. Cardinality(lost) \in Nat /\ (Cardinality(lost) = 0 => lost = {})
  BY <1>2, FS_CardinalityType, FS_EmptySet
<1>4. uncommitted' = uncommitted + Cardinality(lost)
  BY DEF CountUncommitted
<1>5. uncommitted' \in Nat
  BY <1>3, <1>4
<1>6. uncommitted' = 0 => uncommitted = 0 /\ lost = {}
  BY <1>3, <1>4
<1> QED BY <1>5, <1>6

(* Handlers that end lose their locals; the others keep theirs.            *)
LEMMA EndEffect ==
    ASSUME TypeOK, NEW S \in SUBSET Handlers, End(S)
    PROVE  /\ phase' \in [Handlers -> Phases]
           /\ utcNow' \in [Handlers -> Nat]
           /\ count' \in [Handlers -> 0 .. MaxRows]
           /\ found' \in [Handlers -> SUBSET SpeedUps]
           /\ date' \in [Handlers -> Nat]
           /\ \A h \in S : phase'[h] = "idle" /\ utcNow'[h] = 0
           /\ \A h \in Handlers \ S :
                 /\ phase'[h] = phase[h]
                 /\ utcNow'[h] = utcNow[h]
                 /\ found'[h] = found[h]
                 /\ date'[h] = date[h]
<1>1. 0 \in 0 .. MaxRows
  BY ConstantsAssumption
<1> QED BY <1>1 DEF End, TypeOK, Phases

(* Every step of the scheduler and its surroundings keeps the types.       *)
LEMMA TypeStep ==
    ASSUME TypeOK, [Next]_vars
    PROVE  TypeOK'
<1>1. CASE UNCHANGED vars
  BY <1>1 DEF TypeOK, vars, table, locals, history
<1>2. ASSUME NEW h \in Handlers, StartHandler(h)
      PROVE  TypeOK'
  BY <1>2 DEF TypeOK, StartHandler, table, Phases
<1>3. ASSUME NEW h \in Handlers, CountRows(h)
      PROVE  TypeOK'
  BY <1>3 DEF TypeOK, CountRows, table, history, Phases
<1>4. ASSUME NEW h \in Handlers, FindSpeedUps(h)
      PROVE  TypeOK'
  BY <1>4 DEF TypeOK, FindSpeedUps, table, history, Phases
<1>5. ASSUME NEW h \in Handlers, ReadLastSchedule(h)
      PROVE  TypeOK'
  <2>1. UNCHANGED <<clock, table, queue, isLeader, history>>
    BY <1>5 DEF ReadLastSchedule
  <2>2. CASE End({h})
    BY <2>1, <2>2, EndEffect DEF TypeOK, table, history
  <2>3. CASE /\ phase' = [phase EXCEPT ![h] = "addBulk"]
             /\ date' = [date EXCEPT ![h] = lastSchedule]
             /\ UNCHANGED <<utcNow, count, found>>
    BY <2>1, <2>3 DEF TypeOK, table, history, Phases
  <2> QED BY <1>5, <2>2, <2>3 DEF ReadLastSchedule
<1>6. ASSUME NEW h \in Handlers, AddBulk(h)
      PROVE  TypeOK'
  <2> DEFINE elapsed == utcNow[h] - date[h]
             jobs    == Batches(count[h], elapsed, found[h], utcNow[h])
  <2>1. /\ utcNow[h] \in Nat /\ date[h] \in Nat /\ count[h] \in Nat
        /\ found[h] \in SUBSET SpeedUps
    BY ConstantsAssumption DEF TypeOK
  <2>2. elapsed \in Int
    BY <2>1
  <2>3. jobs \in Seq(Job)
    BY <2>1, <2>2, BatchesType
  <2>4. queue' = queue \o jobs
    BY <1>6 DEF AddBulk
  <2>. HIDE DEF jobs
  <2>5. queue' \in Seq(Job)
    BY <2>3, <2>4, ConcatProperties DEF TypeOK
  <2> QED BY <1>6, <2>1, <2>2, <2>5 DEF TypeOK, AddBulk, table, locals, Phases
<1>7. ASSUME NEW h \in Handlers, CommitSchedule(h)
      PROVE  TypeOK'
  <2>1. /\ End({h})
        /\ speedUps' = {} /\ lastSchedule' = utcNow[h]
        /\ UNCHANGED <<clock, rows, unsent, queue, isLeader, history>>
    BY <1>7 DEF CommitSchedule
  <2> QED BY <2>1, EndEffect DEF TypeOK, history
<1>8. ASSUME NEW h \in Handlers, FailHandler(h)
      PROVE  TypeOK'
  <2>1. /\ End({h}) /\ CountUncommitted({h})
        /\ UNCHANGED <<clock, table, queue, isLeader, credited, applied,
                       repeated, exposed, overlapped>>
    BY <1>8 DEF FailHandler
  <2>2. uncommitted' \in Nat
    BY <2>1, CountUncommittedType DEF TypeOK
  <2> QED BY <2>1, <2>2, EndEffect DEF TypeOK, table
<1>9. ASSUME NEW r \in Replicas, Crash(r)
      PROVE  TypeOK'
  <2>1. /\ End({r} \X Slots) /\ CountUncommitted({r} \X Slots)
        /\ isLeader' = [isLeader EXCEPT ![r] = FALSE]
        /\ UNCHANGED <<clock, table, queue, credited, applied, repeated,
                       exposed, overlapped>>
    BY <1>9 DEF Crash
  <2>2. {r} \X Slots \in SUBSET Handlers
    BY DEF Handlers
  <2>3. uncommitted' \in Nat
    BY <2>1, <2>2, CountUncommittedType DEF TypeOK
  <2> QED BY <2>1, <2>2, <2>3, EndEffect DEF TypeOK, table
<1>10. ASSUME NEW r \in Replicas, HandleLeaderElected(r) \/ HandleLeaderLost(r)
       PROVE  TypeOK'
  BY <1>10 DEF TypeOK, HandleLeaderElected, HandleLeaderLost, table, locals,
               history
<1>11. ASSUME NEW s \in SpeedUps, InsertSpeedUp(s)
       PROVE  TypeOK'
  BY <1>11 DEF TypeOK, InsertSpeedUp, locals
<1>12. ASSUME NEW n \in 0 .. MaxRows, ChangeRows(n)
       PROVE  TypeOK'
  BY <1>12 DEF TypeOK, ChangeRows, locals, history
<1>13. CASE TakeJob
  <2>1. Tail(queue) \in Seq(Job)
    BY <1>13, HeadTailProperties DEF TakeJob, TypeOK
  <2> QED BY <1>13, <2>1 DEF TypeOK, TakeJob, table, locals, history
<1>14. CASE Second
  BY <1>14, ConstantsAssumption DEF TypeOK, Second, table, locals, history
<1> QED
  BY <1>1, <1>2, <1>3, <1>4, <1>5, <1>6, <1>7, <1>8, <1>9, <1>10, <1>11, <1>12,
     <1>13, <1>14 DEF Next

(* The initial state is typed.                                             *)
LEMMA TypeInit == Init => TypeOK
<1>1. <<>> \in Seq(Job) /\ 0 \in 0 .. MaxRows /\ 0 \in 0 .. MaxClock
  BY EmptySeq, ConstantsAssumption
<1>2. SUFFICES ASSUME Init PROVE TypeOK
  OBVIOUS
<1>3. /\ isLeader \in [Replicas -> BOOLEAN]
      /\ phase \in [Handlers -> Phases]
      /\ utcNow \in [Handlers -> Nat]
      /\ count \in [Handlers -> 0 .. MaxRows]
      /\ found \in [Handlers -> SUBSET SpeedUps]
      /\ date \in [Handlers -> Nat]
  BY <1>1, <1>2 DEF Init, Phases
<1>4. /\ clock \in 0 .. MaxClock /\ rows \in 0 .. MaxRows
      /\ lastSchedule \in Nat /\ uncommitted \in Nat /\ credited \in Int
  BY <1>1, <1>2 DEF Init
<1>5. queue \in Seq(Job)
  BY <1>1, <1>2, Zenon DEF Init
<1>6. /\ speedUps \subseteq SpeedUps /\ unsent \subseteq SpeedUps
      /\ applied \subseteq SpeedUps /\ repeated \subseteq SpeedUps
      /\ exposed \subseteq SpeedUps
  BY <1>2 DEF Init
<1>7. overlapped \in BOOLEAN
  BY <1>2 DEF Init
<1> QED BY <1>3, <1>4, <1>5, <1>6, <1>7, Zenon DEF TypeOK

(* Every reachable state of the scheduler is typed.                        *)
THEOREM TypeCorrect == Spec => []TypeOK
<1>1. TypeOK /\ [Next]_vars => TypeOK'
  BY TypeStep
<1> QED BY TypeInit, <1>1, PTL DEF Spec

----------------------------------------------------------------------------
(* The inductive invariant behind the accounting of time.                  *)
SerialInv == TypeOK /\ SerialTick /\ NoTimeLost /\ TimeExact

(* Steps that leave the clock, the date, the time given, the history and   *)
(* the locals alone, or only end handlers, keep the accounting.            *)
LEMMA SerialEnd ==
    ASSUME SerialInv, TypeOK', NEW S \in SUBSET Handlers, End(S),
           CountUncommitted(S),
           UNCHANGED <<clock, lastSchedule, credited, overlapped>>
    PROVE  SerialInv'
<1>1. /\ uncommitted' = 0 => /\ uncommitted = 0
                             /\ \A h \in S : phase[h] # "commit"
  BY CountUncommittedType DEF SerialInv, TypeOK
<1>2. /\ \A h \in S : phase'[h] = "idle" /\ utcNow'[h] = 0
      /\ \A h \in Handlers \ S : /\ phase'[h] = phase[h]
                                 /\ utcNow'[h] = utcNow[h]
                                 /\ date'[h] = date[h]
  BY EndEffect DEF SerialInv
<1>3. NoTimeLost'
  BY DEF SerialInv, NoTimeLost
<1>4. TimeExact'
  BY <1>1, <1>2 DEF SerialInv, TimeExact
<1>5. SerialTick'
  <2>1. /\ lastSchedule' <= clock'
        /\ \A h \in Handlers : utcNow'[h] <= clock'
    <3>1. clock \in Nat
      BY ConstantsAssumption DEF SerialInv, TypeOK
    <3>2. lastSchedule <= clock /\ \A h \in Handlers : utcNow[h] <= clock
      BY DEF SerialInv, SerialTick
    <3>3. \A h \in Handlers : utcNow'[h] = 0 \/ utcNow'[h] = utcNow[h]
      BY <1>2
    <3> QED BY <3>1, <3>2, <3>3
  <2>2. ASSUME ~overlapped'
        PROVE  /\ \A g, h \in Handlers : Busy(g)' /\ Busy(h)' => g = h
               /\ \A h \in Handlers :
                   /\ Busy(h)' => utcNow'[h] >= lastSchedule'
                   /\ phase'[h] \in {"addBulk", "commit"} => date'[h] = lastSchedule'
                   /\ phase'[h] = "commit" => credited' >= utcNow'[h]
                   /\ phase'[h] = "commit" /\ uncommitted' = 0
                        => credited' = utcNow'[h]
    BY <1>1, <1>2, <2>2 DEF SerialInv, SerialTick, Busy
  <2> QED BY <2>1, <2>2 DEF SerialTick, Busy
<1> QED BY <1>3, <1>4, <1>5 DEF SerialInv

(* Every step keeps the accounting of time.                                *)
LEMMA SerialStep ==
    ASSUME SerialInv, [Next]_vars
    PROVE  SerialInv'
<1>0. TypeOK /\ TypeOK'
  BY TypeStep DEF SerialInv
<1>1. CASE UNCHANGED <<clock, lastSchedule, phase, locals, credited, overlapped,
                       uncommitted>>
  BY <1>0, <1>1 DEF SerialInv, SerialTick, NoTimeLost, TimeExact, Busy, locals
<1>2. ASSUME NEW h \in Handlers, StartHandler(h)
      PROVE  SerialInv'
  <2>1. /\ phase' = [phase EXCEPT ![h] = "count"]
        /\ utcNow' = [utcNow EXCEPT ![h] = clock]
        /\ overlapped' = (overlapped \/ \E g \in Handlers : Busy(g))
        /\ UNCHANGED <<clock, lastSchedule, date, credited, uncommitted>>
    BY <1>2 DEF StartHandler, table
  <2>2. /\ phase' \in [Handlers -> Phases]
        /\ \A g \in Handlers \ {h} : phase'[g] = phase[g] /\ utcNow'[g] = utcNow[g]
        /\ phase'[h] = "count" /\ utcNow'[h] = clock
    BY <1>0, <2>1 DEF TypeOK
  <2>3. overlapped' = FALSE => overlapped = FALSE /\ \A g \in Handlers : ~Busy(g)
    BY <2>1, <1>0 DEF TypeOK
  <2>4. NoTimeLost'
    BY <2>1, <2>3 DEF SerialInv, NoTimeLost
  <2>5. TimeExact'
    BY <2>1, <2>2, <2>3 DEF SerialInv, TimeExact, Busy
  <2>6. SerialTick'
    <3>1. /\ lastSchedule' <= clock'
          /\ \A g \in Handlers : utcNow'[g] <= clock'
      BY <1>0, <2>1, <2>2 DEF SerialInv, SerialTick, TypeOK
    <3>2. ASSUME ~overlapped'
          PROVE  \A g \in Handlers \ {h} : phase'[g] = "idle"
      BY <2>2, <2>3, <3>2 DEF Busy
    <3>3. clock >= lastSchedule
      BY <1>0 DEF SerialInv, SerialTick, TypeOK
    <3> QED BY <2>1, <2>2, <3>1, <3>2, <3>3 DEF SerialTick, Busy
  <2> QED BY <1>0, <2>4, <2>5, <2>6 DEF SerialInv
<1>3. ASSUME NEW h \in Handlers, CountRows(h) \/ FindSpeedUps(h)
      PROVE  SerialInv'
  <2>1. /\ UNCHANGED <<clock, lastSchedule, utcNow, date, credited, overlapped,
                       uncommitted>>
        /\ \A g \in Handlers \ {h} : phase'[g] = phase[g]
        /\ phase'[h] \in {"speedUps", "last"} /\ Busy(h) /\ phase[h] # "commit"
    BY <1>0, <1>3 DEF CountRows, FindSpeedUps, table, history, TypeOK, Busy
  <2>2. NoTimeLost' /\ TimeExact'
    BY <2>1 DEF SerialInv, NoTimeLost, TimeExact
  <2>3. SerialTick'
    <3>1. \A g \in Handlers : Busy(g)' => Busy(g)
      BY <2>1 DEF Busy
    <3>2. \A g \in Handlers : phase'[g] \in {"addBulk", "commit"} => phase'[g] = phase[g]
      BY <2>1
    <3> QED BY <2>1, <3>1, <3>2 DEF SerialInv, SerialTick
  <2> QED BY <1>0, <2>2, <2>3 DEF SerialInv
<1>4. ASSUME NEW h \in Handlers, ReadLastSchedule(h)
      PROVE  SerialInv'
  <2>1. phase[h] = "last" /\ UNCHANGED <<clock, lastSchedule, credited,
                                          overlapped, uncommitted>>
    BY <1>4 DEF ReadLastSchedule, table, history
  <2>2. CASE End({h})
    <3>1. /\ phase'[h] = "idle" /\ utcNow'[h] = 0
          /\ \A g \in Handlers \ {h} : /\ phase'[g] = phase[g]
                                       /\ utcNow'[g] = utcNow[g]
                                       /\ date'[g] = date[g]
      BY <1>0, <2>2, EndEffect
    <3>2. NoTimeLost' /\ TimeExact'
      BY <2>1, <3>1 DEF SerialInv, NoTimeLost, TimeExact
    <3>3. SerialTick'
      <4>1. clock \in Nat
        BY <1>0, ConstantsAssumption DEF TypeOK
      <4>2. \A g \in Handlers : utcNow[g] <= clock
        BY DEF SerialInv, SerialTick
      <4>3. \A g \in Handlers : utcNow'[g] = 0 \/ utcNow'[g] = utcNow[g]
        BY <3>1
      <4>4. lastSchedule' <= clock' /\ \A g \in Handlers : utcNow'[g] <= clock'
        BY <2>1, <4>1, <4>2, <4>3 DEF SerialInv, SerialTick
      <4>5. ASSUME ~overlapped'
            PROVE  \A g \in Handlers : phase'[g] = "idle"
        BY <2>1, <3>1, <4>5 DEF SerialInv, SerialTick, Busy
      <4> QED BY <4>4, <4>5 DEF SerialTick, Busy
    <3> QED BY <1>0, <3>2, <3>3 DEF SerialInv
  <2>3. CASE /\ phase' = [phase EXCEPT ![h] = "addBulk"]
             /\ date' = [date EXCEPT ![h] = lastSchedule]
             /\ UNCHANGED <<utcNow, count, found>>
    <3>1. /\ phase'[h] = "addBulk" /\ date'[h] = lastSchedule /\ utcNow' = utcNow
          /\ \A g \in Handlers \ {h} : phase'[g] = phase[g] /\ date'[g] = date[g]
      BY <1>0, <2>3 DEF TypeOK
    <3> QED BY <1>0, <2>1, <3>1 DEF SerialInv, SerialTick, NoTimeLost, TimeExact,
                                    Busy, TypeOK
  <2> QED BY <1>4, <2>2, <2>3 DEF ReadLastSchedule
<1>5. ASSUME NEW h \in Handlers, AddBulk(h)
      PROVE  SerialInv'
  <2>1. /\ phase[h] = "addBulk"
        /\ credited' = credited + (utcNow[h] - date[h])
        /\ UNCHANGED <<clock, lastSchedule, utcNow, date, overlapped, uncommitted>>
    BY <1>5 DEF AddBulk, table, locals
  <2>2. phase'[h] = "commit" /\ \A g \in Handlers \ {h} : phase'[g] = phase[g]
    BY <1>0, <1>5 DEF AddBulk, TypeOK
  <2>3. utcNow[h] \in Nat /\ date[h] \in Nat /\ credited \in Int /\ lastSchedule \in Nat
    BY <1>0 DEF TypeOK
  <2>4. ASSUME ~overlapped
        PROVE  /\ date[h] = lastSchedule /\ utcNow[h] >= lastSchedule
               /\ credited >= lastSchedule
               /\ \A g \in Handlers \ {h} : ~Busy(g)
    BY <2>1, <2>4 DEF SerialInv, SerialTick, NoTimeLost, Busy
  <2>5. ASSUME ~overlapped, uncommitted = 0
        PROVE  credited = lastSchedule
    BY <2>1, <2>4, <2>5 DEF SerialInv, TimeExact, Busy
  <2>6. NoTimeLost'
    BY <2>1, <2>3, <2>4 DEF NoTimeLost
  <2>7. TimeExact'
    BY <2>2 DEF TimeExact
  <2>8. SerialTick'
    <3>1. lastSchedule' <= clock' /\ \A g \in Handlers : utcNow'[g] <= clock'
      BY <2>1 DEF SerialInv, SerialTick
    <3>2. ASSUME ~overlapped'
          PROVE  /\ \A g \in Handlers \ {h} : phase'[g] = "idle"
                 /\ utcNow'[h] >= lastSchedule' /\ date'[h] = lastSchedule'
                 /\ credited' >= utcNow'[h]
                 /\ uncommitted' = 0 => credited' = utcNow'[h]
      BY <2>1, <2>2, <2>3, <2>4, <2>5, <3>2 DEF Busy
    <3> QED BY <3>1, <3>2 DEF SerialTick, Busy
  <2> QED BY <1>0, <2>6, <2>7, <2>8 DEF SerialInv
<1>6. ASSUME NEW h \in Handlers, CommitSchedule(h)
      PROVE  SerialInv'
  <2>1. /\ phase[h] = "commit" /\ End({h}) /\ lastSchedule' = utcNow[h]
        /\ UNCHANGED <<clock, credited, overlapped, uncommitted>>
    BY <1>6 DEF CommitSchedule, history
  <2>2. /\ phase'[h] = "idle" /\ utcNow'[h] = 0
        /\ \A g \in Handlers \ {h} : /\ phase'[g] = phase[g]
                                     /\ utcNow'[g] = utcNow[g]
                                     /\ date'[g] = date[g]
    BY <1>0, <2>1, EndEffect
  <2>3. ASSUME ~overlapped
        PROVE  /\ credited >= utcNow[h] /\ (uncommitted = 0 => credited = utcNow[h])
               /\ \A g \in Handlers \ {h} : ~Busy(g)
    BY <2>1, <2>3 DEF SerialInv, SerialTick, Busy
  <2>4. NoTimeLost' /\ TimeExact'
    BY <2>1, <2>3 DEF NoTimeLost, TimeExact
  <2>5. SerialTick'
    <3>1. lastSchedule' <= clock' /\ \A g \in Handlers : utcNow'[g] <= clock'
      <4>1. clock \in Nat
        BY <1>0, ConstantsAssumption DEF TypeOK
      <4>2. \A g \in Handlers : utcNow[g] <= clock
        BY DEF SerialInv, SerialTick
      <4>3. \A g \in Handlers : utcNow'[g] = 0 \/ utcNow'[g] = utcNow[g]
        BY <2>2
      <4> QED BY <2>1, <4>1, <4>2, <4>3
    <3>2. ASSUME ~overlapped'
          PROVE  \A g \in Handlers : phase'[g] = "idle"
      BY <2>1, <2>2, <2>3, <3>2 DEF Busy
    <3> QED BY <3>1, <3>2 DEF SerialTick, Busy
  <2> QED BY <1>0, <2>4, <2>5 DEF SerialInv
<1>7. ASSUME NEW h \in Handlers, FailHandler(h)
      PROVE  SerialInv'
  <2>1. /\ End({h}) /\ CountUncommitted({h})
        /\ UNCHANGED <<clock, lastSchedule, credited, overlapped>>
    BY <1>7 DEF FailHandler, table
  <2> QED BY <1>0, <2>1, SerialEnd
<1>8. ASSUME NEW r \in Replicas, Crash(r)
      PROVE  SerialInv'
  <2>1. /\ End({r} \X Slots) /\ CountUncommitted({r} \X Slots)
        /\ UNCHANGED <<clock, lastSchedule, credited, overlapped>>
    BY <1>8 DEF Crash, table
  <2>2. {r} \X Slots \in SUBSET Handlers
    BY DEF Handlers
  <2> QED BY <1>0, <2>1, <2>2, SerialEnd
<1>9. ASSUME NEW r \in Replicas, HandleLeaderElected(r) \/ HandleLeaderLost(r)
      PROVE  SerialInv'
  BY <1>1, <1>9 DEF HandleLeaderElected, HandleLeaderLost, table, history
<1>10. ASSUME NEW s \in SpeedUps, InsertSpeedUp(s)
       PROVE  SerialInv'
  BY <1>1, <1>10 DEF InsertSpeedUp
<1>11. ASSUME NEW n \in 0 .. MaxRows, ChangeRows(n)
       PROVE  SerialInv'
  BY <1>1, <1>11 DEF ChangeRows, history
<1>12. CASE TakeJob
  BY <1>1, <1>12 DEF TakeJob, table, history
<1>13. CASE Second
  <2>1. clock' = clock + 1 /\ UNCHANGED <<lastSchedule, phase, locals, credited,
                                          overlapped, uncommitted>>
    BY <1>13 DEF Second, table, history
  <2> QED BY <1>0, <2>1 DEF SerialInv, SerialTick, NoTimeLost, TimeExact, Busy,
                            locals, TypeOK
<1>14. CASE UNCHANGED vars
  BY <1>1, <1>14 DEF vars, table, history
<1> QED
  BY <1>2, <1>3, <1>4, <1>5, <1>6, <1>7, <1>8, <1>9, <1>10, <1>11, <1>12, <1>13,
     <1>14 DEF Next

(* The accounting of time holds in every reachable state.                  *)
LEMMA SerialInvariant == Spec => []SerialInv
<1>1. Init => SerialInv
  <2> SUFFICES ASSUME Init PROVE SerialInv
    OBVIOUS
  <2>1. TypeOK
    BY TypeInit
  <2>2. SerialTick /\ NoTimeLost /\ TimeExact
    BY DEF Init, SerialTick, NoTimeLost, TimeExact, Busy
  <2> QED BY <2>1, <2>2 DEF SerialInv
<1>2. SerialInv /\ [Next]_vars => SerialInv'
  BY SerialStep
<1> QED BY <1>1, <1>2, PTL DEF Spec

(* Serial handlers lose no growth time across crashes, rollbacks and       *)
(* changes of leader: addBulk before the commit errs on the side of more.  *)
THEOREM TimeNeverLost == Spec => []NoTimeLost
<1>1. SerialInv => NoTimeLost
  BY DEF SerialInv
<1> QED BY SerialInvariant, <1>1, PTL

(* Serial handlers whose enqueues were all committed have given exactly    *)
(* the time up to the stored date.                                         *)
THEOREM TimeGivenExactly == Spec => []TimeExact
<1>1. SerialInv => TimeExact
  BY DEF SerialInv
<1> QED BY SerialInvariant, <1>1, PTL

----------------------------------------------------------------------------
(* The inductive invariant behind the fate of the speed-ups.               *)
SpeedUpInv == TypeOK /\ SpeedUpsFound /\ SpeedUpLostOnlyInFlight

(* Handlers that end leave the speed-ups to the others.                    *)
LEMMA SpeedUpEnd ==
    ASSUME SpeedUpInv, TypeOK', NEW S \in SUBSET Handlers, End(S),
           UNCHANGED <<speedUps, unsent, applied, exposed>>
    PROVE  SpeedUpInv'
<1>1. /\ \A h \in S : phase'[h] = "idle"
      /\ \A h \in Handlers \ S : phase'[h] = phase[h] /\ found'[h] = found[h]
  BY EndEffect DEF SpeedUpInv
<1>2. SpeedUpsFound'
  BY <1>1 DEF SpeedUpInv, SpeedUpsFound
<1>3. SpeedUpLostOnlyInFlight'
  BY DEF SpeedUpInv, SpeedUpLostOnlyInFlight
<1> QED BY <1>2, <1>3 DEF SpeedUpInv

(* Every step keeps the fate of the speed-ups.                             *)
LEMMA SpeedUpStep ==
    ASSUME SpeedUpInv, [Next]_vars
    PROVE  SpeedUpInv'
<1>0. TypeOK /\ TypeOK'
  BY TypeStep DEF SpeedUpInv
<1>1. CASE UNCHANGED <<speedUps, unsent, phase, found, applied, exposed>>
  BY <1>0, <1>1 DEF SpeedUpInv, SpeedUpsFound, SpeedUpLostOnlyInFlight
<1>2. ASSUME NEW h \in Handlers, StartHandler(h) \/ CountRows(h)
      PROVE  SpeedUpInv'
  <2>1. /\ UNCHANGED <<speedUps, unsent, found, applied, exposed>>
        /\ phase'[h] \in {"count", "speedUps"}
        /\ \A g \in Handlers \ {h} : phase'[g] = phase[g]
    BY <1>0, <1>2 DEF StartHandler, CountRows, table, history, TypeOK
  <2> QED BY <1>0, <2>1 DEF SpeedUpInv, SpeedUpsFound, SpeedUpLostOnlyInFlight
<1>3. ASSUME NEW h \in Handlers, FindSpeedUps(h)
      PROVE  SpeedUpInv'
  <2>1. /\ UNCHANGED <<speedUps, unsent, applied, exposed>>
        /\ phase'[h] = "last" /\ found'[h] = speedUps
        /\ \A g \in Handlers \ {h} : phase'[g] = phase[g] /\ found'[g] = found[g]
    BY <1>0, <1>3 DEF FindSpeedUps, table, history, TypeOK
  <2> QED BY <1>0, <2>1 DEF SpeedUpInv, SpeedUpsFound, SpeedUpLostOnlyInFlight
<1>4. ASSUME NEW h \in Handlers, ReadLastSchedule(h)
      PROVE  SpeedUpInv'
  <2>1. phase[h] = "last" /\ UNCHANGED <<speedUps, unsent, applied, exposed>>
    BY <1>4 DEF ReadLastSchedule, table, history
  <2>2. CASE End({h})
    BY <1>0, <2>1, <2>2, SpeedUpEnd
  <2>3. CASE /\ phase' = [phase EXCEPT ![h] = "addBulk"]
             /\ UNCHANGED found
    <3>1. /\ phase'[h] = "addBulk"
          /\ \A g \in Handlers \ {h} : phase'[g] = phase[g]
      BY <1>0, <2>3 DEF TypeOK
    <3> QED BY <1>0, <2>1, <2>3, <3>1
            DEF SpeedUpInv, SpeedUpsFound, SpeedUpLostOnlyInFlight
  <2> QED BY <1>4, <2>2, <2>3 DEF ReadLastSchedule
<1>5. ASSUME NEW h \in Handlers, AddBulk(h)
      PROVE  SpeedUpInv'
  <2>1. /\ phase[h] = "addBulk" /\ applied' = applied \cup found[h]
        /\ UNCHANGED <<speedUps, unsent, found, exposed>>
        /\ phase'[h] = "commit"
        /\ \A g \in Handlers \ {h} : phase'[g] = phase[g]
    BY <1>0, <1>5 DEF AddBulk, table, locals, TypeOK
  <2> QED BY <1>0, <2>1 DEF SpeedUpInv, SpeedUpsFound, SpeedUpLostOnlyInFlight
<1>6. ASSUME NEW h \in Handlers, CommitSchedule(h)
      PROVE  SpeedUpInv'
  <2>1. /\ phase[h] = "commit" /\ End({h}) /\ speedUps' = {}
        /\ UNCHANGED <<unsent, applied, exposed>>
    BY <1>6 DEF CommitSchedule, history
  <2>2. /\ phase'[h] = "idle"
        /\ \A g \in Handlers \ {h} : phase'[g] = phase[g] /\ found'[g] = found[g]
    BY <1>0, <2>1, EndEffect
  <2>3. speedUps \subseteq exposed \cup applied
    BY <2>1 DEF SpeedUpInv, SpeedUpsFound
  <2>4. SpeedUpsFound'
    BY <2>1, <2>2 DEF SpeedUpInv, SpeedUpsFound
  <2>5. SpeedUpLostOnlyInFlight'
    BY <2>1, <2>3 DEF SpeedUpInv, SpeedUpLostOnlyInFlight
  <2> QED BY <1>0, <2>4, <2>5 DEF SpeedUpInv
<1>7. ASSUME NEW h \in Handlers, FailHandler(h)
      PROVE  SpeedUpInv'
  BY <1>0, <1>7, SpeedUpEnd DEF FailHandler, table
<1>8. ASSUME NEW r \in Replicas, Crash(r)
      PROVE  SpeedUpInv'
  <2>1. {r} \X Slots \in SUBSET Handlers
    BY DEF Handlers
  <2> QED BY <1>0, <1>8, <2>1, SpeedUpEnd DEF Crash, table
<1>9. ASSUME NEW r \in Replicas, HandleLeaderElected(r) \/ HandleLeaderLost(r)
      PROVE  SpeedUpInv'
  BY <1>1, <1>9 DEF HandleLeaderElected, HandleLeaderLost, table, locals, history
<1>10. ASSUME NEW s \in SpeedUps, InsertSpeedUp(s)
       PROVE  SpeedUpInv'
  <2>1. /\ unsent' = unsent \ {s} /\ speedUps' = speedUps \cup {s}
        /\ UNCHANGED <<phase, found, applied>>
    BY <1>10 DEF InsertSpeedUp, locals
  <2>2. CASE /\ \E h \in Handlers : Busy(h)
             /\ exposed' = exposed \cup {s}
    BY <1>0, <2>1, <2>2 DEF SpeedUpInv, SpeedUpsFound, SpeedUpLostOnlyInFlight
  <2>3. CASE /\ \A h \in Handlers : ~Busy(h)
             /\ exposed' = exposed
    BY <1>0, <2>1, <2>3 DEF SpeedUpInv, SpeedUpsFound, SpeedUpLostOnlyInFlight, Busy
  <2> QED BY <1>10, <2>2, <2>3 DEF InsertSpeedUp
<1>11. ASSUME NEW n \in 0 .. MaxRows, ChangeRows(n)
       PROVE  SpeedUpInv'
  BY <1>1, <1>11 DEF ChangeRows, locals, history
<1>12. CASE TakeJob \/ Second
  BY <1>1, <1>12 DEF TakeJob, Second, table, locals, history
<1>13. CASE UNCHANGED vars
  BY <1>1, <1>13 DEF vars, table, locals, history
<1> QED
  BY <1>2, <1>3, <1>4, <1>5, <1>6, <1>7, <1>8, <1>9, <1>10, <1>11, <1>12, <1>13
     DEF Next

(* A speed-up that disappears without being enqueued was inserted while a  *)
(* handler was in flight, however handlers overlap, fail and crash.        *)
THEOREM SpeedUpFate == Spec => []SpeedUpLostOnlyInFlight
<1>1. Init => SpeedUpInv
  <2> SUFFICES ASSUME Init PROVE SpeedUpInv
    OBVIOUS
  <2>1. TypeOK
    BY TypeInit
  <2>2. SpeedUpsFound /\ SpeedUpLostOnlyInFlight
    BY DEF Init, SpeedUpsFound, SpeedUpLostOnlyInFlight
  <2> QED BY <2>1, <2>2 DEF SpeedUpInv
<1>2. SpeedUpInv /\ [Next]_vars => SpeedUpInv'
  BY SpeedUpStep
<1>3. SpeedUpInv => SpeedUpLostOnlyInFlight
  BY DEF SpeedUpInv
<1> QED BY <1>1, <1>2, <1>3, PTL DEF Spec

----------------------------------------------------------------------------
(* A job is made of a date its handler read and of its own start, which a  *)
(* serial handler has after that date.                                     *)
LEMMA ElapsedStep ==
    ASSUME SerialInv, ElapsedNotNegative, [Next]_vars
    PROVE  ElapsedNotNegative'
<1>0. TypeOK
  BY DEF SerialInv
<1>1. CASE UNCHANGED <<queue, overlapped>>
  BY <1>1 DEF ElapsedNotNegative
<1>2. ASSUME NEW h \in Handlers, StartHandler(h)
      PROVE  ElapsedNotNegative'
  <2>1. queue' = queue /\ (overlapped => overlapped')
    BY <1>2 DEF StartHandler
  <2> QED BY <2>1 DEF ElapsedNotNegative
<1>3. ASSUME NEW h \in Handlers, AddBulk(h)
      PROVE  ElapsedNotNegative'
  <2> DEFINE elapsed == utcNow[h] - date[h]
             jobs    == Batches(count[h], elapsed, found[h], utcNow[h])
  <2>1. /\ queue' = queue \o jobs /\ overlapped' = overlapped
        /\ phase[h] = "addBulk"
    BY <1>3 DEF AddBulk
  <2>2. SUFFICES ASSUME ~overlapped, NEW i \in DOMAIN queue'
                 PROVE  queue'[i].elapsed >= 0
    BY <2>1 DEF ElapsedNotNegative
  <2>3. /\ utcNow[h] \in Nat /\ date[h] \in Nat /\ count[h] \in Nat
        /\ found[h] \in SUBSET SpeedUps
    BY <1>0, ConstantsAssumption DEF TypeOK
  <2>4. elapsed \in Int /\ elapsed >= 0
    <3>1. utcNow[h] >= lastSchedule /\ date[h] = lastSchedule
      BY <2>1, <2>2 DEF SerialInv, SerialTick, Busy
    <3> QED BY <2>3, <3>1
  <2>5. \A j \in DOMAIN jobs : jobs[j].elapsed >= 0
    BY <2>4 DEF Batches
  <2>6. jobs \in Seq(Job)
    BY <2>3, <2>4, BatchesType
  <2>7. \A j \in DOMAIN queue : queue[j].elapsed >= 0
    BY <2>2 DEF ElapsedNotNegative
  <2> HIDE DEF jobs
  <2>8. CASE i \in DOMAIN queue
    <3>1. queue'[i] = queue[i]
      BY <1>0, <2>1, <2>6, <2>8 DEF TypeOK
    <3> QED BY <2>7, <2>8, <3>1
  <2>9. CASE i \notin DOMAIN queue
    <3>1. /\ i - Len(queue) \in DOMAIN jobs
          /\ queue'[i] = jobs[i - Len(queue)]
      BY <1>0, <2>1, <2>2, <2>6, <2>9 DEF TypeOK
    <3> QED BY <2>5, <3>1
  <2> QED BY <2>8, <2>9
<1>4. CASE TakeJob
  <2>1. queue # <<>> /\ queue' = Tail(queue) /\ overlapped' = overlapped
    BY <1>4 DEF TakeJob, history
  <2>2. SUFFICES ASSUME ~overlapped, NEW i \in DOMAIN queue'
                 PROVE  queue'[i].elapsed >= 0
    BY <2>1 DEF ElapsedNotNegative
  <2>3. i + 1 \in DOMAIN queue /\ queue'[i] = queue[i + 1]
    BY <1>0, <2>1, <2>2 DEF TypeOK
  <2> QED BY <2>2, <2>3 DEF ElapsedNotNegative
<1>5. ASSUME NEW h \in Handlers,
             \/ CountRows(h) \/ FindSpeedUps(h) \/ ReadLastSchedule(h)
             \/ CommitSchedule(h) \/ FailHandler(h)
      PROVE  ElapsedNotNegative'
  BY <1>1, <1>5 DEF CountRows, FindSpeedUps, ReadLastSchedule, CommitSchedule,
                    FailHandler, history
<1>6. ASSUME NEW r \in Replicas,
             HandleLeaderElected(r) \/ HandleLeaderLost(r) \/ Crash(r)
      PROVE  ElapsedNotNegative'
  BY <1>1, <1>6 DEF HandleLeaderElected, HandleLeaderLost, Crash, history
<1>7. ASSUME NEW s \in SpeedUps, InsertSpeedUp(s)
      PROVE  ElapsedNotNegative'
  BY <1>1, <1>7 DEF InsertSpeedUp
<1>8. ASSUME NEW n \in 0 .. MaxRows, ChangeRows(n)
      PROVE  ElapsedNotNegative'
  BY <1>1, <1>8 DEF ChangeRows, history
<1>9. CASE Second \/ UNCHANGED vars
  BY <1>1, <1>9 DEF Second, vars, history
<1> QED
  BY <1>2, <1>3, <1>4, <1>5, <1>6, <1>7, <1>8, <1>9 DEF Next

(* Serial handlers enqueue no negative time, crashes and failures          *)
(* notwithstanding: the worker may add what a job carries.                 *)
THEOREM ElapsedKept == Spec => []ElapsedNotNegative
<1>1. Init => ElapsedNotNegative
  BY DEF Init, ElapsedNotNegative
<1>2. SerialInv /\ ElapsedNotNegative /\ [Next]_vars => ElapsedNotNegative'
  BY ElapsedStep
<1> QED BY <1>1, <1>2, SerialInvariant, PTL DEF Spec

----------------------------------------------------------------------------
(* The inductive invariant behind a speed-up that is applied only once: no *)
(* serial handler works on one that was enqueued before, and none that was *)
(* is in the table, unless its handler stands before its commit.           *)
NotAgain ==
    /\ unsent \cap (speedUps \cup applied) = {}
    /\ \A h \in Handlers : found[h] \cap unsent = {}
    /\ ~overlapped /\ uncommitted = 0 =>
        /\ \A h \in Handlers : phase[h] \in {"last", "addBulk"}
                                  => found[h] \cap applied = {}
        /\ (\A h \in Handlers : phase[h] # "commit") => speedUps \cap applied = {}
OnceInv == NotAgain /\ SpeedUpAppliedOnce

(* Handlers that end, other than by their commit, add nothing.             *)
LEMMA OnceEnd ==
    ASSUME TypeOK, OnceInv, NEW S \in SUBSET Handlers, End(S),
           \/ CountUncommitted(S)
           \/ uncommitted' = uncommitted /\ \A h \in S : phase[h] # "commit",
           UNCHANGED <<speedUps, unsent, applied, repeated, overlapped>>
    PROVE  OnceInv'
<1>1. uncommitted' = 0 => uncommitted = 0 /\ \A h \in S : phase[h] # "commit"
  BY CountUncommittedType DEF TypeOK
<1>2. /\ \A h \in S : phase'[h] = "idle" /\ found'[h] = {}
      /\ \A h \in Handlers \ S : phase'[h] = phase[h] /\ found'[h] = found[h]
  BY EndEffect DEF End
<1>3. NotAgain'
  BY <1>1, <1>2 DEF OnceInv, NotAgain
<1> QED BY <1>1, <1>3 DEF OnceInv, SpeedUpAppliedOnce

(* Every step of serial handlers keeps it.                                 *)
LEMMA OnceStep ==
    ASSUME SerialInv, OnceInv, [Next]_vars
    PROVE  OnceInv'
<1>0. TypeOK
  BY DEF SerialInv
<1>1. CASE UNCHANGED <<speedUps, unsent, phase, found, applied, repeated, overlapped,
                       uncommitted>>
  BY <1>1 DEF OnceInv, NotAgain, SpeedUpAppliedOnce
<1>2. ASSUME NEW h \in Handlers, StartHandler(h) \/ CountRows(h)
      PROVE  OnceInv'
  <2>1. /\ UNCHANGED <<speedUps, unsent, found, applied, repeated, uncommitted>>
        /\ overlapped => overlapped'
        /\ phase[h] \in {"idle", "count"} /\ phase'[h] \in {"count", "speedUps"}
        /\ \A g \in Handlers \ {h} : phase'[g] = phase[g]
    BY <1>0, <1>2 DEF StartHandler, CountRows, table, history, TypeOK
  <2> QED BY <2>1 DEF OnceInv, NotAgain, SpeedUpAppliedOnce
<1>3. ASSUME NEW h \in Handlers, FindSpeedUps(h)
      PROVE  OnceInv'
  <2>1. /\ UNCHANGED <<speedUps, unsent, applied, repeated, overlapped, uncommitted>>
        /\ phase[h] = "speedUps" /\ phase'[h] = "last" /\ found'[h] = speedUps
        /\ \A g \in Handlers \ {h} : phase'[g] = phase[g] /\ found'[g] = found[g]
    BY <1>0, <1>3 DEF FindSpeedUps, table, history, TypeOK
  <2>2. ~overlapped => \A g \in Handlers : phase[g] # "commit"
    BY <2>1 DEF SerialInv, SerialTick, Busy
  <2> QED BY <2>1, <2>2 DEF OnceInv, NotAgain, SpeedUpAppliedOnce
<1>4. ASSUME NEW h \in Handlers, ReadLastSchedule(h)
      PROVE  OnceInv'
  <2>1. /\ phase[h] = "last"
        /\ UNCHANGED <<speedUps, unsent, applied, repeated, overlapped, uncommitted>>
    BY <1>4 DEF ReadLastSchedule, table, history
  <2>2. CASE End({h})
    BY <1>0, <2>1, <2>2, OnceEnd
  <2>3. CASE phase' = [phase EXCEPT ![h] = "addBulk"] /\ UNCHANGED found
    <3>1. /\ phase'[h] = "addBulk"
          /\ \A g \in Handlers \ {h} : phase'[g] = phase[g]
      BY <1>0, <2>3 DEF TypeOK
    <3> QED BY <2>1, <2>3, <3>1 DEF OnceInv, NotAgain, SpeedUpAppliedOnce
  <2> QED BY <1>4, <2>2, <2>3 DEF ReadLastSchedule
<1>5. ASSUME NEW h \in Handlers, AddBulk(h)
      PROVE  OnceInv'
  <2>1. /\ phase[h] = "addBulk" /\ applied' = applied \cup found[h]
        /\ repeated' = repeated \cup (applied \cap found[h])
        /\ UNCHANGED <<speedUps, unsent, found, overlapped, uncommitted>>
        /\ phase'[h] = "commit"
        /\ \A g \in Handlers \ {h} : phase'[g] = phase[g]
    BY <1>0, <1>5 DEF AddBulk, table, locals, TypeOK
  <2>2. ~overlapped => \A g \in Handlers \ {h} : phase[g] = "idle"
    BY <2>1 DEF SerialInv, SerialTick, Busy
  <2>3. NotAgain'
    BY <2>1, <2>2 DEF OnceInv, NotAgain
  <2>4. SpeedUpAppliedOnce'
    BY <2>1 DEF OnceInv, NotAgain, SpeedUpAppliedOnce
  <2> QED BY <2>3, <2>4 DEF OnceInv
<1>6. ASSUME NEW h \in Handlers, CommitSchedule(h)
      PROVE  OnceInv'
  <2>1. /\ phase[h] = "commit" /\ End({h}) /\ speedUps' = {}
        /\ UNCHANGED <<unsent, applied, repeated, overlapped, uncommitted>>
    BY <1>6 DEF CommitSchedule, history
  <2>2. /\ phase'[h] = "idle" /\ found'[h] = {}
        /\ \A g \in Handlers \ {h} : phase'[g] = phase[g] /\ found'[g] = found[g]
    BY <1>0, <2>1, EndEffect DEF End
  <2> QED BY <2>1, <2>2 DEF OnceInv, NotAgain, SpeedUpAppliedOnce
<1>7. ASSUME NEW h \in Handlers, FailHandler(h)
      PROVE  OnceInv'
  BY <1>0, <1>7, OnceEnd DEF FailHandler, table
<1>8. ASSUME NEW r \in Replicas, Crash(r)
      PROVE  OnceInv'
  <2>1. {r} \X Slots \in SUBSET Handlers
    BY DEF Handlers
  <2> QED BY <1>0, <1>8, <2>1, OnceEnd DEF Crash, table
<1>9. ASSUME NEW r \in Replicas, HandleLeaderElected(r) \/ HandleLeaderLost(r)
      PROVE  OnceInv'
  BY <1>1, <1>9 DEF HandleLeaderElected, HandleLeaderLost, table, locals, history
<1>10. ASSUME NEW s \in SpeedUps, InsertSpeedUp(s)
       PROVE  OnceInv'
  <2>1. /\ s \in unsent /\ unsent' = unsent \ {s} /\ speedUps' = speedUps \cup {s}
        /\ UNCHANGED <<phase, found, applied, repeated, overlapped, uncommitted>>
    BY <1>10 DEF InsertSpeedUp, locals
  <2> QED BY <2>1 DEF OnceInv, NotAgain, SpeedUpAppliedOnce
<1>11. ASSUME NEW n \in 0 .. MaxRows, ChangeRows(n)
       PROVE  OnceInv'
  BY <1>1, <1>11 DEF ChangeRows, locals, history
<1>12. CASE TakeJob \/ Second \/ UNCHANGED vars
  BY <1>1, <1>12 DEF TakeJob, Second, vars, table, locals, history
<1> QED
  BY <1>2, <1>3, <1>4, <1>5, <1>6, <1>7, <1>8, <1>9, <1>10, <1>11, <1>12 DEF Next

(* A speed-up is enqueued twice only after an overlap or an enqueue that   *)
(* was not committed, for any number of replicas and speed-ups.            *)
THEOREM SpeedUpOnce == Spec => []SpeedUpAppliedOnce
<1>1. Init => OnceInv
  BY DEF Init, OnceInv, NotAgain, SpeedUpAppliedOnce
<1>2. SerialInv /\ OnceInv /\ [Next]_vars => OnceInv'
  BY OnceStep
<1>3. OnceInv => SpeedUpAppliedOnce
  BY DEF OnceInv
<1> QED BY <1>1, <1>2, <1>3, SerialInvariant, PTL DEF Spec

----------------------------------------------------------------------------
(* The energy scheduler.                                                   *)

LEMMA EnergyStep ==
    ASSUME TypeOK, [EnergyNext]_vars
    PROVE  [Next]_vars
<1>1. CASE SignUpUser
  <2>1. rows + 1 \in 0 .. MaxRows
    BY <1>1, ConstantsAssumption DEF SignUpUser, TypeOK
  <2> QED BY <1>1, <2>1 DEF SignUpUser, Next
<1>2. CASE \E h \in Handlers : HandleEnergy(h)
  BY <1>2 DEF HandleEnergy, Next
<1>3. CASE \E r \in Replicas : ElectEnergy(r)
  BY <1>3 DEF ElectEnergy, Next
<1>4. CASE (\E s \in SpeedUps : InsertSpeedUp(s)) \/ TakeJob \/ Second \/ UNCHANGED vars
  BY <1>4 DEF Next
<1> QED BY <1>1, <1>2, <1>3, <1>4 DEF EnergyNext

(* EnergyNext is made of the steps of the growth scheduler.                *)
LEMMA EnergyRefinesGrowth == EnergySpec => Spec
<1>1. TypeOK /\ [EnergyNext]_vars => TypeOK' /\ [Next]_vars
  BY EnergyStep, TypeStep
<1> QED BY <1>1, TypeInit, PTL DEF EnergySpec, Spec

(* The tick of the users is as sound as that of the crops: no second of    *)
(* energy is lost and none given twice while handlers do not overlap, none *)
(* is negative, and an EnergySpeedUp row counts once.                      *)
THEOREM EnergyTimeKept ==
    EnergySpec => [](NoTimeLost /\ TimeExact /\ ElapsedNotNegative /\ SpeedUpAppliedOnce)
BY EnergyRefinesGrowth, TimeNeverLost, TimeGivenExactly, ElapsedKept, SpeedUpOnce, PTL

(* The pages of a tick end within the rows that were counted.              *)
LEMMA PagesWithin ==
    ASSUME NEW n \in Nat, NEW elapsed, NEW boosts, NEW now,
           NEW i \in DOMAIN Batches(n, elapsed, boosts, now)
    PROVE  LET job == Batches(n, elapsed, boosts, now)[i]
           IN  job.skip < n /\ job.take <= n
<1>1. BatchSize \in Nat /\ BatchSize > 0
  BY ConstantsAssumption
<1>2. /\ BatchCount(n) \in Nat
      /\ (BatchCount(n) - 1) * BatchSize < n
  BY BatchCountNat
<1>3. i \in 1 .. BatchCount(n)
  BY DEF Batches
<1>4. (i - 1) * BatchSize <= (BatchCount(n) - 1) * BatchSize
  BY <1>1, <1>2, <1>3, SMT
<1>5. (i - 1) * BatchSize \in Int /\ i * BatchSize \in Int
  BY <1>1, <1>2, <1>3, SMT
<1>6. (i - 1) * BatchSize < n
  BY <1>1, <1>2, <1>3, <1>4, <1>5, SMT
<1>7. Min2(i * BatchSize, n) <= n
  BY <1>5 DEF Min2
<1> QED BY <1>3, <1>6, <1>7 DEF Batches

LEMMA JobNumbers ==
    ASSUME NEW q \in Seq(Job), NEW i \in DOMAIN q
    PROVE  q[i].skip \in Nat /\ q[i].take \in Nat
<1>1. q[i] \in Job
  OBVIOUS
<1> QED BY <1>1 DEF Job

Within == CountsRealUsers /\ PagesOfRealUsers

LEMMA WithinStep ==
    ASSUME TypeOK, Within, [EnergyNext]_vars
    PROVE  Within'
<1> USE DEF Within, CountsRealUsers
<1>0. rows \in Nat /\ \A h \in Handlers : count[h] \in Nat
  BY ConstantsAssumption DEF TypeOK
<1>1. ASSUME count' = count \/ \E S : End(S), rows' = rows, queue' = queue
      PROVE  Within'
  <2>1. \A h \in Handlers : count'[h] <= rows
    <3>1. CASE count' = count
      BY <3>1
    <3>2. CASE \E S : End(S)
      BY <1>0, <3>2 DEF End
    <3> QED BY <1>1, <3>1, <3>2
  <2> QED BY <1>1, <2>1 DEF PagesOfRealUsers
<1>2. ASSUME NEW h \in Handlers, CountRows(h)
      PROVE  Within'
  BY <1>0, <1>2 DEF CountRows, TypeOK, PagesOfRealUsers, table
<1>3. ASSUME NEW h \in Handlers, AddBulk(h)
      PROVE  Within'
  <2> DEFINE jobs == Batches(count[h], utcNow[h] - date[h], found[h], utcNow[h])
  <2>1. queue' = queue \o jobs /\ rows' = rows /\ count' = count
    BY <1>3 DEF AddBulk, table, locals
  <2>2. \A i \in DOMAIN jobs : jobs[i].skip < count[h] /\ jobs[i].take <= count[h]
    BY <1>0, PagesWithin
  <2>3. jobs \in Seq(Job) /\ queue \in Seq(Job)
    BY <1>0, BatchesType DEF TypeOK
  <2> HIDE DEF jobs
  <2>4. \A i \in DOMAIN jobs : jobs[i].skip < rows /\ jobs[i].take <= rows
    BY <1>0, <2>2, <2>3, JobNumbers
  <2>5. \A i \in DOMAIN queue' : queue'[i].skip < rows /\ queue'[i].take <= rows
    <3>1. ASSUME NEW i \in DOMAIN queue'
          PROVE  \/ i \in DOMAIN queue /\ queue'[i] = queue[i]
                 \/ i - Len(queue) \in DOMAIN jobs /\ queue'[i] = jobs[i - Len(queue)]
      BY <2>1, <2>3, <3>1
    <3> QED BY <2>4, <3>1 DEF PagesOfRealUsers
  <2> QED BY <2>1, <2>5 DEF PagesOfRealUsers
<1>4. CASE TakeJob
  <2>1. queue \in Seq(Job) /\ queue # <<>> /\ queue' = Tail(queue)
    BY <1>4 DEF TakeJob, TypeOK
  <2>2. \A i \in DOMAIN queue' : i + 1 \in DOMAIN queue /\ queue'[i] = queue[i + 1]
    BY <2>1
  <2>3. rows' = rows /\ count' = count
    BY <1>4 DEF TakeJob, table, locals
  <2> QED BY <2>2, <2>3 DEF PagesOfRealUsers
<1>5. CASE SignUpUser
  <2>1. rows' = rows + 1 /\ queue' = queue /\ count' = count
    BY <1>5 DEF SignUpUser, ChangeRows, locals
  <2>2. \A i \in DOMAIN queue : queue[i].skip \in Nat /\ queue[i].take \in Nat
    BY JobNumbers DEF TypeOK
  <2> QED BY <1>0, <2>1, <2>2 DEF PagesOfRealUsers
<1>6. ASSUME NEW h \in Handlers, HandleEnergy(h)
      PROVE  Within'
  <2>1. CASE StartHandler(h)
    BY <1>1, <2>1 DEF StartHandler, table
  <2>2. CASE FindSpeedUps(h)
    BY <1>1, <2>2 DEF FindSpeedUps, table
  <2>3. CASE ReadLastSchedule(h)
    BY <1>1, <2>3 DEF ReadLastSchedule, table
  <2>4. CASE CommitSchedule(h)
    BY <1>1, <2>4 DEF CommitSchedule
  <2>5. CASE FailHandler(h)
    BY <1>1, <2>5 DEF FailHandler, table
  <2> QED BY <1>2, <1>3, <1>6, <2>1, <2>2, <2>3, <2>4, <2>5 DEF HandleEnergy
<1>7. ASSUME NEW r \in Replicas, ElectEnergy(r)
      PROVE  Within'
  BY <1>1, <1>7 DEF ElectEnergy, HandleLeaderElected, HandleLeaderLost, Crash, table, locals
<1>8. ASSUME NEW s \in SpeedUps, InsertSpeedUp(s)
      PROVE  Within'
  BY <1>1, <1>8 DEF InsertSpeedUp, locals
<1>9. CASE Second \/ UNCHANGED vars
  BY <1>1, <1>9 DEF Second, vars, table, locals
<1> QED BY <1>4, <1>5, <1>6, <1>7, <1>8, <1>9 DEF EnergyNext

(* No job of the energy queue reads past the users there are, however long *)
(* it waits and however many users sign up meanwhile.                      *)
THEOREM EnergyPagesReal == EnergySpec => [](CountsRealUsers /\ PagesOfRealUsers)
<1>1. Init => Within
  BY ConstantsAssumption DEF Init, Within, CountsRealUsers, PagesOfRealUsers
<1>2. TypeOK /\ Within /\ [EnergyNext]_vars => Within'
  BY WithinStep
<1>3. EnergySpec => []TypeOK
  BY EnergyRefinesGrowth, TypeCorrect, PTL
<1>4. Within => CountsRealUsers /\ PagesOfRealUsers
  BY DEF Within
<1> QED BY <1>1, <1>2, <1>3, <1>4, PTL DEF EnergySpec
=============================================================================
