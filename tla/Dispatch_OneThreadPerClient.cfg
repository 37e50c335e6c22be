SPECIFICATION Spec
CONSTANTS
    c1 = c1
    c2 = c2
    Clients = {c1}
    NoClient = NoClient
    ListCount = 2
    MaxBatch = 1
    MaxReads = 3
    MaxFires = 1
INVARIANTS
    OneThreadPerClient
CHECK_DEADLOCK FALSE
