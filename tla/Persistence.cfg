SPECIFICATION Spec
CONSTANTS
    u1 = u1
    ACTOR = ACTOR
    BAG = BAG
    v1 = v1
    v2 = v2
    w1 = w1
    w2 = w2
    NoData = NoData
    None = None
    Handler = Handler
    Users = {u1}
    Modules = {ACTOR, BAG}
    Values = {v1, v2}
    Workers = {w1, w2}
    SaveTypes = {"LOGOUT_SAVE", "SERVER_DOWN_SAVE"}
    MaxSets = 1
SYMMETRY Alike
INVARIANTS
    TypeOK
    NothingForgotten
    OnlineIsCached
CHECK_DEADLOCK FALSE
