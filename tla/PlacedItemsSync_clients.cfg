\* One client and two farms, a visit there and back, a change of each,
\* three pushes at a time.
SPECIFICATION FairSpec
CONSTANTS
    Sockets = {s1}
    Users = {u1, u2}
    MaxVisits = 2
    MaxChanges = 1
    MaxPushes = 3
INVARIANTS
    ShownIsDue
PROPERTIES
    FarmIsShown
