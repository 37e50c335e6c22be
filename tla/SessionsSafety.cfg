SPECIFICATION Spec
CONSTANTS
    c1 = c1
    c2 = c2
    c3 = c3
    f1 = f1
    f2 = f2
    u1 = u1
    u2 = u2
    w1 = w1
    w2 = w2
    None = None
    Clients = {c1, c2}
    Fds = {f1, f2}
    Users = {u1, u2}
    Workers = {w1, w2}
    MaxBatch = 2
    MaxReads = 2
    MaxLogins = 2
SYMMETRY Alike
INVARIANTS
    TypeOK
    WatchedIsMapped
    OnlineClientsLive
    NeverOvercounted
    MapsAgree
CHECK_DEADLOCK FALSE
