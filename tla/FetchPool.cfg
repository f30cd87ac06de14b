SPECIFICATION Spec
CONSTANTS
    Procs = {"main", "tool"}
    Symbols = {s1, s2, etf}
    ETFs = {etf}
    MaxWorkers = 1
    MaxAttempts = 2
    Ttl = 1
    LastDay = 2
    Faults = TRUE
INVARIANTS TypeOK StaleOnlyOnFailure
PROPERTIES KeepsPromise CallsReturn
