SPECIFICATION Spec
CONSTANTS
    c1 = c1
    c2 = c2
    w1 = w1
    w2 = w2
    e1 = e1
    e2 = e2
    Clients = {c1, c2}
    NoClient = NoClient
    Workers = {w1, w2}
    Emails = {e1, e2}
    ShortEmails = {e2}
    NoEmail = NoEmail
    CodeOf <- MCCodeOf
    MaxTime = 3
    Interval = 1
    MaxMails = 2
SYMMETRY Alike
INVARIANTS
    TypeOK
    AccountsAreProven
    CodeUsedOnce
CHECK_DEADLOCK FALSE
