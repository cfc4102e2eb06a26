CONSTANTS
    Workers = {w1, w2}
    Users = {u1}
    MaxTokens = 4
    MaxRequests = 4
    None = None
SPECIFICATION Spec
INVARIANT EndedChainsDead
SYMMETRY WorkerSymmetry
CHECK_DEADLOCK FALSE
