\* Two processes that may both believe they lead, one handler each.
SPECIFICATION Spec
CONSTANTS
    Replicas = {r1, r2}
    Slots = {s1}
    SpeedUps = {boost}
    BatchSize = 1
    MaxRows = 1
    MaxClock = 2
    MaxQueue = 1
    MaxUncommitted = 1
SYMMETRY Symmetry
INVARIANTS
    TypeOK
    NoTimeLost
    TimeExact
    ElapsedNotNegative
    SpeedUpLostOnlyInFlight
    SpeedUpAppliedOnce
