SPECIFICATION Spec
CONSTANTS
    LastDay = 3
    TradingDays = {0, 1, 3}
    Spreads <- MCSpreads
    QuoteTimes = {480, 735, 940}
    Means <- MCMeans
    Readings <- MCReadings
    StressDays = 1
    Failures = {"features", "regime", "persist", "previous", "bump"}
    MaxFaults = 1
CHECK_DEADLOCK FALSE
INVARIANTS TypeOK NoReentrySameSession BacktestOptimistic
PROPERTIES AgingNeverHelps OneReadingContributesLittle
