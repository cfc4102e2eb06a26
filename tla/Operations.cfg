CONSTANTS
    Starting = {w1, w2}
    Operators = {o1}
    Accounts = {a1, a2, a3}
    Mailboxes = {m1}
    Keys = {k1, k2}
    Writers = {v1}
    Runners = {r1, r2}
    Retention = 1
    Span = 2
    LastDay = 2
    MaxRows = 2
SPECIFICATION SpecOf
INVARIANTS    LeadsWhereAsked DailyTotalsExact
CHECK_DEADLOCK FALSE
