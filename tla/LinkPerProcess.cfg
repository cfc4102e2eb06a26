CONSTANTS
    w1 = w1
    w2 = w2
    k1 = k1
    k2 = k2
    Workers = {w1, w2}
    Caches = {k1, k2}
    CacheOf <- PerProcess
    Codes = {c1, c2}
    Urls = {u1}
    Owners = {o1}
    Guests = {g1}
    MaxLinks = 2
    MaxRequests = 3
    MaxAttempts = 2
    CacheMayFail = TRUE
    ClickMayBeLost = TRUE
    None = None
SYMMETRY CodeSymmetry
SPECIFICATION Spec
INVARIANTS NoOrphans 
CHECK_DEADLOCK FALSE
