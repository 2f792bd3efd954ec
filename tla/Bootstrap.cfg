SPECIFICATION Spec
CONSTANTS
    NRanks = 3
    QpNums = {5, 6, 7}
INVARIANTS
    PublishedIsFound
    DeliveredOnce
    Wired
    ReadyToReceive
PROPERTY
    InitReturns
