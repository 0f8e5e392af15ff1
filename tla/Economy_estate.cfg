SPECIFICATION Spec
CONSTANTS
    BaseEnergy = 2
    EnergyPerLevel = 1
    ExperiencesUnit = 1
    RegenTime = 2
    MaxStack = 2
    Requests = {q1, q2}
    Worker = worker
    RowIds = {1, 2, 3}
    TileIds = {t1, t2}
    InitialGolds = 4
    InitialStreak = 3
    Price = 1
    MaxQuantity = 2
    MaxOwnership = 2
    Capacities <- SomeCapacities
    EnergyConsume = 1
    ExperiencesGain = 2
    DailyGolds = 1
    DailyTokens = 1
    Prizes = {"golds", "seed"}
    PrizeAmount = 1
    JobTimes <- SomeJobTimes
    MaxRequests = 4
    MaxDays = 1
SYMMETRY Symmetry
CHECK_DEADLOCK FALSE
INVARIANTS
    TypeOK
    NothingOverdrawn
    StacksInBounds
    BooksBalance
    BuildingHonest
    SpinsOnceADay
PROPERTIES
    ProgressKept
