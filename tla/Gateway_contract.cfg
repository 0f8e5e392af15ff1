\* Logins and requests of two users, long enough for tokens to expire.
SPECIFICATION Spec
CONSTANTS
    Users = {alice, bob}
    Nobody = nobody
    Calls = {c1, c2, c3}
    MessageTime = 1
    AccessTime = 1
    RefreshTime = 2
    MaxClock = 2
SYMMETRY Symmetry
CHECK_DEADLOCK FALSE
INVARIANTS
    RequestsArriveWhole
