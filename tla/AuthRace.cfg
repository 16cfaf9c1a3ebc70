CONSTANTS
    r1 = r1
    r2 = r2
    b1 = b1
    kim = kim
    admin = admin
    Requests = {r1, r2}
    Browsers = {b1}
    Names = {kim}
    Admin = admin
    NoBrowser = NoBrowser
    NoRow = NoRow
    IdsReturn = TRUE
    MaxAccounts = 3
    MaxHash = 2
    MaxVersion = 1
    MaxFailures = 2
    OperatorLock = TRUE
    MaxAttempts = 2
SPECIFICATION Spec
SYMMETRY Interchangeable
CONSTRAINT OneAtATime
CHECK_DEADLOCK FALSE
INVARIANTS
    TypeOK
    VersionTellsPassword
    CountsFailures
    AdminsOwn
PROPERTIES
    ImplementsSignedIn
