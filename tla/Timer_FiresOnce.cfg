SPECIFICATION Spec
CONSTANTS
    u1 = u1
    RANK = RANK
    Users = {u1}
    Others = {RANK}
    Hours = 2
    Times = {0, 1}
    MaxEvents = 2
    MaxLogins = 2
INVARIANT FiresOnce
CHECK_DEADLOCK FALSE
