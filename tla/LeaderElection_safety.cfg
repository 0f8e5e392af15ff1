\* Two nodes; the lease is written three times (taken, renewed or released,
\* deleted, taken over by a node that read it before).  Either two routines of
\* a node are at work at once (a renewal during the release, an attempt of
\* bootstrap and one after a deletion), or one node crashes or loses its watch.
\* Once that is used up the system may stop.
SPECIFICATION Spec
CONSTANTS
    Nodes = {n1, n2}
    NoNode = none
    Attempts = 2
    MaxWrites = 3
    MaxTimers = 2
    MaxRoutines = 2
    MaxFaults = 1
CONSTRAINT OverlapOrFault
SYMMETRY Symmetry
CHECK_DEADLOCK FALSE
INVARIANTS
    TypeOK
    FalseLeaderFindsOut
PROPERTIES
    LeaseTakenOnlyWhenFree
