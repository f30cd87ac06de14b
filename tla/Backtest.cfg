SPECIFICATION Spec
CONSTANTS
    Symbols = {s1, s2}
    LastDay = 4
    TradingDays = {0, 1, 3, 4}
    MaxLen = 2
    WINDOW_TRADING_DAYS = 3
    MAX_DAY_TRADES = 1
    PDT_ENFORCE = TRUE
    InitialCash = 7
    FillModel = "delayed_mid"
    Haircut = 1
    Prices = {2, 3}
    WallBar = 0
    MaxQty = 2
    MaxOrders = 4
    Gaps = TRUE
    Raises = TRUE
CHECK_DEADLOCK FALSE
INVARIANTS TypeOK LedgerMatches NoLookAhead QueueDrained
