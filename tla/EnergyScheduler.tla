-------------------------- MODULE EnergyScheduler --------------------------
(***************************************************************************)
(* The tick that gives users their energy back: EnergyService.handle       *)
(* (apps/cron-scheduler/src/energy/energy.service.ts), the handler of      *)
(* GrowthScheduler over users.  It counts all users where the others count *)
(* the rows that grow, and users are never deleted, so the count it reads  *)
(* may be old but never more than there are.                               *)
(***************************************************************************)
EXTENDS GrowthScheduler

(* One await of EnergyService.handle and what follows it                   *)
HandleEnergy(h) ==
    \/ StartHandler(h)
    \/ CountRows(h)
    \/ FindSpeedUps(h)
    \/ ReadLastSchedule(h)
    \/ AddBulk(h)
    \/ CommitSchedule(h)
    \/ FailHandler(h)

ElectEnergy(r) == HandleLeaderElected(r) \/ HandleLeaderLost(r) \/ Crash(r)

(* The first login of an account                                           *)
SignUpUser == rows < MaxRows /\ ChangeRows(rows + 1)

EnergyNext ==
    \/ \E h \in Handlers : HandleEnergy(h)
    \/ \E r \in Replicas : ElectEnergy(r)
    \/ \E s \in SpeedUps : InsertSpeedUp(s)
    \/ SignUpUser
    \/ TakeJob
    \/ Second

EnergySpec == Init /\ [][EnergyNext]_vars

(* A handler never works on more users than there are, and every user it   *)
(* counted is in a page of its jobs, at the moment the jobs are enqueued.  *)
CountsRealUsers == \A h \in Handlers : count[h] <= rows

(* No job asks for users that do not exist, however long it waits: a page  *)
(* ends within the users there are when the worker takes it.               *)
PagesOfRealUsers == \A i \in DOMAIN queue : queue[i].skip < rows /\ queue[i].take <= rows
=============================================================================
