\* One user, two parcels, two workers, one request.
SPECIFICATION Spec
CONSTANTS
    Users = {1}
    Parcels = {p1, p2}
    Workers = {w1, w2}
    Requests = {q1}
    Replicas = {r1}
    BatchSize = 2
    InitialStock = 2
    Price = 1
    Reward = 1
    BelowZero = 1
    MaxQueue = 1
    MaxRewards = 1
SYMMETRY Symmetry
CONSTRAINTS
    SomebodyOrderly
    WishesAreHeard
PROPERTIES
    DeliveryPromiseKept
