\* One crop, two workers, two requests.
SPECIFICATION Spec
CONSTANTS
    Tiles = {t1}
    Workers = {w1, w2}
    Requests = {q1, q2}
    Jobs <- OneStageJobs
    GrowthStages = 3
    StageDuration = 2
    MinHarvest = 1
    MaxHarvest = 3
    FertilizerEffect = 1
    MaxClock = 1
    MaxStage = 3
SYMMETRY Symmetry
INVARIANTS
    TypeOK
    QuantityFloor
    MatureOnlyAtLastStage
    HarvestConserved
    StageClock
PROPERTIES
    NeverFallsBack
