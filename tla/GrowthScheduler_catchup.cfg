\* One process that may fail at any await; handlers overlap, no speed-ups.
SPECIFICATION FairSpec
CONSTANTS
    Replicas = {r1}
    Slots = {s1, s2}
    SpeedUps = {}
    BatchSize = 2
    MaxRows = 1
    MaxClock = 1
    MaxQueue = 1
    MaxUncommitted = 1
PROPERTIES
    ScheduleCatchesUp
