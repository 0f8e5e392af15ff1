\* Two animals, batches of one, two workers, a request.
SPECIFICATION Spec
CONSTANTS
    Animals = {a1, a2}
    Workers = {w1, w2}
    Requests = {q1}
    GrowthTime = 1
    HungerTime = 1
    YieldTime = 2
    MinHarvest = 1
    MaxHarvest = 3
    SpeedUpTime = 1
    Replicas = {r1}
    Slots = {s1}
    SpeedUps = {}
    BatchSize = 1
    MaxClock = 1
    MaxQueue = 2
    MaxUncommitted = 0
SYMMETRY Symmetry
INVARIANTS
    TypeOK
    HarvestConserved
    QuantityFloor
    TimeReachesAnimals
    NoUnearnedTime
PROPERTIES
    SchedulerImplemented
