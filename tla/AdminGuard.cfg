CONSTANTS
    Workers = {w1, w2}
    Users = {u1, u2}
    Admin = Admin
    Default = Default
    Custom = {c1}
    Growing = FALSE
    MaxRequests = 3
    None = None
SPECIFICATION FairSpec
 
PROPERTIES RequestsEnd 
CHECK_DEADLOCK FALSE
