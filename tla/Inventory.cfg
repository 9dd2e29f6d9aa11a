SPECIFICATION FairSpec
CONSTANTS
    Variants = {v1, v2}
    Reservations = {r1, r2}
    Sweepers = {s1, s2}
    Syncers = {e1}
    None = None
    Quantities = {1}
    StockLevels = {1}
    TTL = 1
    BatchSize = 2
    MaxNow = 2
    MaxWrites = 1
    MaxFaults = 1
INVARIANTS TypeOK StockConserved SweepsPartition
PROPERTIES SettledIsFinal ExpiredIsSettled
CHECK_DEADLOCK FALSE
