SPECIFICATION Spec
CONSTANTS
    c1 = c1
    c2 = c2
    Clients = {c1}
    NoClient = NoClient
    ListCount = 2
    MaxBatch = 2
    MaxReads = 2
    MaxFires = 1
INVARIANTS
    TypeOK
    OneThreadUntilTimer
    CountIsPendingOrLeaked
CHECK_DEADLOCK FALSE
