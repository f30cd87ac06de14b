SPECIFICATION Spec
CONSTANTS
    Symbols = {s1}
    Procs = {"main", "tool"}
    Prices = {1000, 1100}
    MaxQty = 2
    MaxOrders = 4
    LastDay = 2
    KChandelier = 3
    KLooseVol = 3
    KTightVol = 1
    Hysteresis = 5
    Atr = 20
    Vols = {10}
    Canary = {s1}
    Failures = {}
    MaxFaults = 0
CHECK_DEADLOCK FALSE
INVARIANTS CoveredIntraday OneStopPerSymbol
PROPERTIES NoSubmitOnEntryDay KeepsPromise
