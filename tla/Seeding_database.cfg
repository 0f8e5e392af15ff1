\* A farm of each kind of row; a command dies or fails.
SPECIFICATION FairSpec
CONSTANTS
    MaxAborts = 1
INVARIANTS
    TypeOK
    TrackedIsSeeded
PROPERTIES
    FarmsSurviveSeeding
    SeedingEnds
