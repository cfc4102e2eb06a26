CONSTANTS
    Workers = {w1, w2}
    Addresses = {a1}
    None = None
    MaxIds = 2
    MaxTokens = 3
    MaxOutside = 2
    MaxRequests = 4
SPECIFICATION Spec
INVARIANTS AcceptedOnce TwoLiveNeedOverlap ConfirmedStays
PROPERTIES ChangeRetiresLinks KeepsPromise
SYMMETRY Symmetry
CHECK_DEADLOCK FALSE
