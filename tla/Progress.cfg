CONSTANTS
    Caller = c1
    Threads = {t1, t2}
    Job = j1
    Users = {a1, a2}
    User = a1
    Tabs = {b1, b2}
    Tab = b1
    Key = k1
    Writer = v1
    Runners = {r1, r2}
    Cache = h1
    Code = s1
    u1 = u1
    u2 = u2
    Workers = {w1, w2}
    Owners = {o1}
    Guests = {g1}
    Urls = {u1, u2}
    Bad = bad
    Codes = {1, 2, 3}
    CodeOf <- Digests
    Lists <- Batches
    Chosen = {2}
    GuestLimit = 1
    MaxAttempts = 2
    MaxRequests = 2
    None = None
SPECIFICATION SpecOf
INVARIANTS QuotaHeld AnswerIsStored
PROPERTIES  EverythingHeals
CHECK_DEADLOCK FALSE
