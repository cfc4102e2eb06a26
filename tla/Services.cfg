CONSTANTS
    Callers = {c1, c2}
    Last = 3
    MaxMoods = 2
    Threads = {t1, t2, t3}
    Pair = {p1, p2}
    Jobs = {j1, j2}
    Languages = {"en", "ru"}
    None = None
SPECIFICATION SpecOf
INVARIANTS DroppedAtTheBottom WithinTheWindow GuessesBounded OneTryPerInterval 
PROPERTIES NoServiceSkipped TellsTheTruth
CHECK_DEADLOCK FALSE
