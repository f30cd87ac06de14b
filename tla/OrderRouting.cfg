SPECIFICATION Spec
CONSTANTS
    Symbols = {s1, s2}
    LastDay = 4
    TradingDays = {0, 1, 3, 4}
    MaxLen = 2
    WINDOW_TRADING_DAYS = 3
    MAX_DAY_TRADES = 2
    PDT_ENFORCE = TRUE
    MaxExits = 4
    BrokerCloses = TRUE
    Restarts = TRUE
SYMMETRY Symmetry
CHECK_DEADLOCK FALSE
INVARIANTS TypeOK EvictionHarmless
