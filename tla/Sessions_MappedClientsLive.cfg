SPECIFICATION Spec
CONSTANTS
    c1 = c1
    c2 = c2
    c3 = c3
    f1 = f1
    f2 = f2
    u1 = u1
    u2 = u2
    w1 = w1
    w2 = w2
    None = None
    Clients = {c1}
    Fds = {f1}
    Users = {u1}
    Workers = {w1}
    MaxBatch = 2
    MaxReads = 1
    MaxLogins = 1
SYMMETRY Alike
INVARIANTS
    MappedClientsLive
CHECK_DEADLOCK FALSE
