CONSTANTS
    r1 = r1
    r2 = r2
    u = u
    v = v
    d = d
    Requests = {r1, r2}
    Users = {u, v}
    Docs = {d}
    HistoryPairs = 1
    MaxSessions = 2
    MaxQuestions = 3
    MaxTime = 0
SPECIFICATION Spec
CHECK_DEADLOCK FALSE
SYMMETRY Interchangeable
INVARIANTS
    FiledWithOwner
