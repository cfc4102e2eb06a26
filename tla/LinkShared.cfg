CONSTANTS
    w1 = w1
    w2 = w2
    k1 = k1
    k2 = k2
    Workers = {w1, w2}
    Caches = {k1}
    CacheOf <- Shared
    Codes = {c1, c2}
    Urls = {u1, u2}
    Owners = {}
    Guests = {g1}
    MaxLinks = 3
    MaxRequests = 4
    MaxAttempts = 2
    CacheMayFail = FALSE
    ClickMayBeLost = FALSE
    None = None
SYMMETRY SharedSymmetry
SPECIFICATION Spec
INVARIANTS HandedOutMatchesRequest DuplicatesAreConcurrent OneAuditPerDeletion
PROPERTY DeletesWhatItJudged
CHECK_DEADLOCK FALSE
