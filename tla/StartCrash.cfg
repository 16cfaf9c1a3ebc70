CONSTANTS
    kim = kim
    c1 = c1
    People = {kim}
    admin = admin
    Admin = admin
    Chats = {c1}
    MaxCrashes = 2
SPECIFICATION Spec
CHECK_DEADLOCK FALSE
INVARIANTS
    NothingLost
    ServesWhole
PROPERTIES
    BootFinishes
