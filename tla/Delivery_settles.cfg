\* Liveness: one worker, one request, no bound reached before the end.
SPECIFICATION FairSpec
CONSTANTS
    Users = {1}
    Parcels = {p1, p2}
    Workers = {w1}
    Requests = {q1}
    Replicas = {r1}
    BatchSize = 2
    InitialStock = 1
    Price = 1
    Reward = 0
    BelowZero = 1
    MaxQueue = 1
    MaxRewards = 0
VIEW Guarded
INVARIANTS
    TypeOK
PROPERTIES
    SentIsSettled
