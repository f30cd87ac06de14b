SPECIFICATION Spec
CONSTANTS
    Symbols = {s1, s2}
    Procs = {"main"}
    Prices = {1000, 1100}
    MaxQty = 2
    MaxOrders = 6
    LastDay = 1
    KChandelier = 3
    KLooseVol = 3
    KTightVol = 1
    Hysteresis = 5
    Atr = 20
    Vols = {4}
    Canary = {s1}
    Failures = {"prior", "standing", "bars", "cancel", "submit", "reply", "persist", "record", "skip", "crash"}
    MaxFaults = 1
CHECK_DEADLOCK FALSE
INVARIANTS TypeOK RowNearOrder RepairedByLive
PROPERTY RowRatchets
