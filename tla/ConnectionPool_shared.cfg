\* Four requests of any kind on two connections.  When all are answered
\* nothing is left to do.
SPECIFICATION Spec
CONSTANTS
    Requests = {q1, q2, q3, q4}
    Connections = {c1, c2}
    Nobody = nobody
SYMMETRY Symmetry
CHECK_DEADLOCK FALSE
INVARIANTS
    AnswersTrue
    PoolExact
