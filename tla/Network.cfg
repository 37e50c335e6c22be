SPECIFICATION FairSpec
CONSTANTS
    c1 = c1
    c2 = c2
    Clients = {c1, c2}
    Server = s
    s = s
    MaxEvents = 2
    BufferSize = 2
    MaxBytes <- MCMaxBytes
    MaxFailures = 1
INVARIANTS
    TypeOK
    HandedAsSent
    NothingLeftBehind
    AcceptNeverBlocks
PROPERTIES
    EveryMessageIsPut
    FirstIsAccepted
CHECK_DEADLOCK FALSE
