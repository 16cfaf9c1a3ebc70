CONSTANTS
    r1 = r1
    r2 = r2
    Requests = {r1, r2}
    Seats = 1
    NPhases = 2
    MaxTurns = 1
    MaxUnderstanding = 1
    AgreeThreshold = 1
    MaxRise = 1
SPECIFICATION FairSpec
CHECK_DEADLOCK FALSE
INVARIANTS
    TypeOK
    LessonInOrder
PROPERTIES
    PastKept
    ImplementsLesson
    SkippingEndsLesson
