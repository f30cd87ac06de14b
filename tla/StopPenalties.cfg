SPECIFICATION Spec
CONSTANTS
    Symbols = {s1, s2}
    MaxFills = 3
    LastHour = 6
    HoursPerSession = 3
    Window = 2
    ExpireSessions = 3
    Failures = {"missed", "seen", "decay", "write"}
CHECK_DEADLOCK FALSE
SYMMETRY Symmetry
INVARIANTS TypeOK PenaltyOnce PromptFillsKept OnePenaltyLostPerCut
