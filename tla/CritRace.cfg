CONSTANTS
    r1 = r1
    r2 = r2
    r3 = r3
    a = a
    b = b
    l = l
    x = x
    Requests = {r1, r2}
    Criteria = {a, l}
    Legacy = {l}
    Aliases = {x}
    Ops = {"upload", "delete", "replace", "deactivate", "resync", "search"}
    Faults = {"call", "late", "crash", "db", "foreign"}
    MaxTime = 3
    Reserve = 0
    MaxFaults = 1
SPECIFICATION Spec
SYMMETRY RequestSymmetry
CHECK_DEADLOCK FALSE
INVARIANTS
    TypeOK
    RowsRight
    AcknowledgedKept
PROPERTIES
    TruthAdvances
