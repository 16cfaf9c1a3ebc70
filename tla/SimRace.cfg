CONSTANTS
    r1 = r1
    r2 = r2
    Requests = {r1, r2}
    Seats = 2
    NPhases = 1
    MaxTurns = 2
    MaxUnderstanding = 2
    AgreeThreshold = 1
    MaxRise = 1
SPECIFICATION AloneSpec
SYMMETRY RequestSymmetry
CONSTRAINT TwoLevels
CHECK_DEADLOCK FALSE
INVARIANTS
    RewritesSafe
    ReactionsEarned
    StoredAsDocumented
PROPERTIES
    AgreementStays
