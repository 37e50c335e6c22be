SPECIFICATION FairSpec
CONSTANTS
    u1 = u1
    RANK = RANK
    Users = {u1}
    Others = {RANK}
    Hours = 2
    Times = {0, 1}
    MaxEvents = 2
    MaxLogins = 2
INVARIANTS
    TypeOK
    OnceWhenHoursAgree
PROPERTIES
    OnceLeaves
    LoopsGoOn
    EntriesTaken
CHECK_DEADLOCK FALSE
