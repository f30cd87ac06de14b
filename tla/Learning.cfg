SPECIFICATION FairSpec
CONSTANTS
    Symbols = {s1}
    FirstDay = 1
    LastDay = 3
    Weekdays = {0, 1, 2, 3}
    TradingDays = {0, 2, 3}
    NewYear = 2
    NumberedParams = TRUE
    BatchLimit = 3
    MinBuild = 2
    MinTrain = 3
    MaxRuns = 1
    ToolMoments = {11}
    Failures = {"cycle", "persist", "row", "batch", "update", "restart"}
    MaxFaults = 1
CHECK_DEADLOCK FALSE
INVARIANTS TypeOK LabelsStand PhantomSpansASession
PROPERTIES LabelNotBeforeOrder PhantomsResolved
