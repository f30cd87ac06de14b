SPECIFICATION Spec
CONSTANTS
    Symbols = {s1}
    FirstDay = 0
    LastDay = 2
    Weekdays = {0, 1, 2}
    TradingDays = {0, 1, 2}
    NewYear = 3
    NumberedParams = FALSE
    BatchLimit = 3
    MinBuild = 2
    MinTrain = 3
    MaxRuns = 1
    ToolMoments = {11}
    Failures = {}
    MaxFaults = 0
CHECK_DEADLOCK FALSE
INVARIANT CountedOnce
