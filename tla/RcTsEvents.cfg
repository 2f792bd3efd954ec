SPECIFICATION Spec
CONSTANTS
    Polling = {}
    Sleeping = {"rc_ts"}
    NumQp = 1
    RxDepth = 3
    Iters = 2
    Mishaps = {}
    MaxLost = 0
    MaxShort = 0
INVARIANT
    NoFailure
