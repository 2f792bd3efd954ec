SPECIFICATION Spec
CONSTANTS
    Programs = {"sendrecv", "write", "write_imm", "read", "rdv_write", "rdv_write_imm", "rdv_read"}
    MinMsg = 1
    MaxMsg = 4
    RdvMaxMsg = 2
    CacheLine = 2
    Ctx = {16, 80}
    Cap = 2
    Large = 4
    Skip = 1
    Total = 1
    SkipLarge = 1
    TotalLarge = 2
    InlineSize = 1
    MaxSend = 2
    MaxRecv = 3
    MinRecv = 2
    MaxCqe = 4
    MaxLost = 1
INVARIANTS
    TypeOK
    AbortsExplained
    FreshData
    ResetIsSafe
    HandlersFindTheirs
    ContextsAccounted
PROPERTIES
    SourceStable
    RecvPoolOK
    IsPingPong
    Terminates
