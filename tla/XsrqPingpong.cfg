SPECIFICATION Spec
CONSTANTS
    NumClients = 2
    EventTests = {2}
    SpinTests = {3}
    Lossy = {FALSE}
    MaxLost = 1
INVARIANTS
    NobodyLeftEarly
    QueuesSuffice
PROPERTY
    Terminates
