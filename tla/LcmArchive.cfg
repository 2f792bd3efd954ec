SPECIFICATION ArchiveSpec
CONSTANTS
    Cap = 8
    Threads = {t1, t2}
    Values = {64, 576, 1088, 1600, 448}
INVARIANTS
    KeyLeadsBack
    RemoveReturnsOwn
    NothingLost
PROPERTY
    PutReturns
