CONSTANTS
    Users = {u1, u2}
    t1 = t1
    t2 = t2
    Tabs = {t1, t2}
    Asked <- AskedByTab
    Free = {}
    MaxRequests = 2
    MaxEvents = 1
    Writers = {w1, w2}
    Workers = {k1, k2}
    Never = Never
    None = None
SPECIFICATION SpecOf
INVARIANTS WritesAreVouched   PageIsTheTail
INVARIANTS  StatsTellTheTotal
CHECK_DEADLOCK FALSE
