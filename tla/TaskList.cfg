SPECIFICATION FairSpec
CONSTANTS
    epoll = epoll
    timer = timer
    Worker = Worker
    Nobody = Nobody
    Producers <- MCProducers
    BatchSizes <- MCBatchSizes
    MaxPuts = 3
INVARIANTS
    TypeOK
    NothingLostOrRepeated
    BatchInOrder
PROPERTIES
    CachedPointersCurrent
    ImplementsMailbox
    WokenWorkerDrainsBoth
CHECK_DEADLOCK FALSE
