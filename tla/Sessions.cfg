CONSTANTS
    Workers = {w1, w2}
    Users = {u1}
    MaxTokens = 4
    MaxRequests = 4
    None = None
SPECIFICATION FairSpec
INVARIANTS OneHeadPerChain LiveChainHasHead EndedStaysEnded
PROPERTY RequestsEnd
CHECK_DEADLOCK FALSE
