SPECIFICATION Spec
CONSTANTS
    Symbols = {s1}
    MaxFills = 2
    LastHour = 5
    HoursPerSession = 6
    Window = 2
    ExpireSessions = 3
    Failures = {}
CHECK_DEADLOCK FALSE
INVARIANTS NoFillLost
