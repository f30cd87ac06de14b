SPECIFICATION Spec
CONSTANTS
    s1 = s1
    s2 = s2
    s3 = s3
    Symbols = {s1, s2, s3}
    Order <- MCOrder
    MaxHoldings = 2
    Hysteresis = 20
    NameCap = 40
    Budget = 95
    Prior = 138
    InverseCV = 20
    Precision <- MCPrecision
    Edges <- MCEdges
    Unseen = {s3}
    Guarded = {s1}
    DeadBand = 5
    Failures = {"weights", "quantities", "order", "crash"}
    MaxUpsets = 1
    Moves <- MCMoves
INVARIANTS TypeOK FairShares NoOrphans WithinMandate NoChurn
