CONSTANTS
    r1 = r1
    r2 = r2
    r3 = r3
    a = a
    b = b
    l = l
    x = x
    Requests = {r1, r2}
    Criteria = {a}
    Legacy = {}
    Aliases = {x}
    Ops = {"upload", "rename", "activate", "deactivate", "list", "search"}
    Faults = {"call"}
    MaxTime = 4
    Reserve = 1
    MaxFaults = 1
SPECIFICATION FairSpec
CHECK_DEADLOCK FALSE
PROPERTIES
    LockHandedBack
    Repaired
