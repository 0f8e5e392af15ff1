--------------------------- MODULE GameplayRules ---------------------------
(***************************************************************************)
(* The rules the requests compute with (src/gameplay): balances, energy,   *)
(* levels and stacks of the inventory.  A rule maps columns of the row a   *)
(* request has read to the columns it is about to write.                   *)
(*                                                                         *)
(* A definition marked (slip: ...) is a mistake a change of the code could *)
(* make in the definition that follows; nothing uses it.                   *)
(***************************************************************************)
EXTENDS Integers, Sequences, FiniteSets

CONSTANTS
    BaseEnergy,       \* energy of the first level, 50 in the code
    EnergyPerLevel,   \* what each further level adds, 3 in the code
    ExperiencesUnit,  \* 25 in the code: 50 * level + 25 * (level - 1)^2
    RegenTime,        \* SystemId.EnergyRegen: the time of one energy
    MaxStack          \* InventoryTypeEntity.maxStack

ASSUME RulesAssumption ==
    /\ BaseEnergy \in Nat /\ EnergyPerLevel \in Nat
    /\ ExperiencesUnit \in Nat \ {0}
    /\ RegenTime \in Nat \ {0} /\ MaxStack \in Nat \ {0}

(***************************************************************************)
(* Balances and energy.                                                    *)
(***************************************************************************)
AddGolds(user, amount)      == [golds |-> user.golds + amount]
SubtractGolds(user, amount) == [golds |-> user.golds - amount]
AddTokens(user, amount)     == [tokens |-> user.tokens + amount]

GetMaxEnergy(level) == BaseEnergy + (level - 1) * EnergyPerLevel

SubstractEnergy(user, energy) == [energy |-> user.energy - energy]

(***************************************************************************)
(* Levels.  Passing the quota opens the next level and takes the quota off *)
(* the experiences from before the gain, which may leave less than none.   *)
(***************************************************************************)
ComputeExperiencesQuota(level) ==
    ExperiencesUnit * (2 * level + (level - 1) * (level - 1))

LevelsUp(user, gain) == user.experiences + gain >= ComputeExperiencesQuota(user.level)

AddExperiences(user, gain) ==
    IF LevelsUp(user, gain)
    THEN [level |-> user.level + 1,
          experiences |-> user.experiences - ComputeExperiencesQuota(user.level)]
    ELSE [experiences |-> user.experiences + gain]

(***************************************************************************)
(* Regeneration: at most one energy for a job, however long its time; a    *)
(* user who is full keeps the time collected before.                       *)
(***************************************************************************)
Full(user) == user.energy >= GetMaxEnergy(user.level)

(* (slip: a full user goes on)                                             *)
RegeneratedPastFull(user, time) ==
    LET collected == user.energyRegenTime + time IN
    IF collected >= RegenTime
    THEN [user EXCEPT !.energy = @ + 1, !.energyRegenTime = collected - RegenTime]
    ELSE [user EXCEPT !.energyRegenTime = collected]

(* (slip: the time over is dropped)                                        *)
RegeneratedFromZero(user, time) ==
    LET collected == user.energyRegenTime + time IN
    IF Full(user) THEN user
    ELSE IF collected >= RegenTime
         THEN [user EXCEPT !.energy = @ + 1, !.energyRegenTime = 0]
         ELSE [user EXCEPT !.energyRegenTime = collected]

Regenerated(user, time) ==
    LET collected == user.energyRegenTime + time IN
    IF Full(user) THEN user
    ELSE IF collected >= RegenTime
         THEN [user EXCEPT !.energy = @ + 1, !.energyRegenTime = collected - RegenTime]
         ELSE [user EXCEPT !.energyRegenTime = collected]

(***************************************************************************)
(* Stacks.  A quantity tops up the stacks found, one after the other, and  *)
(* what is left opens new ones.  stacks maps row ids to quantities.        *)
(***************************************************************************)
Least(a, b) == IF a < b THEN a ELSE b
Positive(a) == IF a > 0 THEN a ELSE 0

Space(stacks, i) == Positive(MaxStack - stacks[i])

(* The units for which there is space in some of the stacks, counted.      *)
SpaceIn(stacks, ids) == Cardinality(UNION {{i} \X (1 .. Space(stacks, i)) : i \in ids})

ToppedUp(stacks, quantity) ==
    [i \in DOMAIN stacks |->
        stacks[i] + Least(Space(stacks, i),
                          Positive(quantity - SpaceIn(stacks, {j \in DOMAIN stacks : j < i})))]

Opened(stacks, quantity) ==
    LET rest == Positive(quantity - SpaceIn(stacks, DOMAIN stacks)) IN
    [k \in 1 .. (rest + MaxStack - 1) \div MaxStack |->
        Least(MaxStack, rest - (k - 1) * MaxStack)]
=============================================================================
