SPECIFICATION FairSpec
CONSTANTS
    c1 = c1
    c2 = c2
    w1 = w1
    w2 = w2
    Callers = {c1, c2}
    Slots = {1, 2}
    Workers = {w1, w2}
    MaxRetries = 2
    MaxFaults = 1
    NoJob = NoJob
    Shipped = Shipped
    Paid = Paid
    Endpoints = {1, 2}
    MaxPaid = 1
    Jobs <- MCJobs
    Setups <- MCSetups
INVARIANTS OneMailPerSubject TriesBounded NothingRunsAfterDrain
PROPERTIES ShipmentMovesForward ShippedMailIsSent
CHECK_DEADLOCK FALSE
