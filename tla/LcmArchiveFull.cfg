SPECIFICATION ArchiveSpec
CONSTANTS
    Cap = 8
    Threads = {t1, t2}
    Values = {448, 960}
INVARIANT
    InTable
