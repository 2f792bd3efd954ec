SPECIFICATION Spec
CONSTANTS
    Polling = {"rc", "rc_ts", "uc", "ud", "srq"}
    Sleeping = {"rc", "uc", "ud", "srq"}
    NumQp = 2
    RxDepth = 3
    Iters = 2
    Mishaps = {"rc", "rc_ts", "uc", "ud"}
    MaxLost = 1
    MaxShort = 1
INVARIANTS
    ReceiverReady
    CreditsExact
    FailuresExplained
PROPERTIES
    IsPingPong
    Terminates
