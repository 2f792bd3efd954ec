SPECIFICATION Spec
CONSTANTS
    Ranks = {0, 1}
    MinRecv = 2
    MaxRecv = 4
    MaxCqe = 5
INVARIANTS
    PoolExact
    NoOverflow
    NeverStarved
