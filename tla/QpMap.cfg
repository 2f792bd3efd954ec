SPECIFICATION Spec
CONSTANTS
    NRanks = 3
    QpBound = 8
    JMax = 10
INVARIANTS
    LookupCorrect
    SmallestModulus
    SearchSucceeds
PROPERTY
    Terminates
