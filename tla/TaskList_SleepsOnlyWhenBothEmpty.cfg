SPECIFICATION Spec
CONSTANTS
    epoll = epoll
    timer = timer
    Worker = Worker
    Nobody = Nobody
    Producers <- MCProducers
    BatchSizes <- MCBatchSizes
    MaxPuts = 2
INVARIANT
    SleepsOnlyWhenBothEmpty
CHECK_DEADLOCK FALSE
