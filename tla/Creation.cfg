CONSTANTS
    r1 = r1
    r2 = r2
    Calls = {r1, r2}
    Records = {1, 2, 3, 4, 5, 6}
    Levels <- MCLevels
    LevelOf <- MCLevelOf
    GenderOf <- MCGenderOf
    NamesOf <- MCNamesOf
    Neutral <- MCNeutral
    Seeds = {1}
    OrderOf <- MCOrderOf
    Draw <- MCDraw
    AbsoluteMax = 3
    Answers <- MCAnswers
    Profiles <- MCProfiles
    Filters = {"all"}
    Letters = 2
    MaxPhases = 4
    MaxMinutes = 1
    MaxPlans = 1
    MaxSessions = 1
SYMMETRY Symmetric
SPECIFICATION SetupSpec
CHECK_DEADLOCK FALSE
INVARIANTS
    SessionsSound
    SeatsAsShown
    OffersStartable
