SPECIFICATION Spec
CONSTANTS
    Calls = {c1, c2, c3}
    Currencies = {eur, usd}
    Amounts = {1, 2}
    Keys = {k1}
    NoKey = NoKey
    Notes = {NoNote, n1}
    NoNote = NoNote
    MaxBalance = 2
    MaxIssue = 1
    SavedOrders = {o1}
    UnsavedOrders = {o2}
    NoOrder = NoOrder
    NoCall = NoCall
    MaxFaults = 2
SYMMETRY Symmetry
INVARIANTS BalanceIsLedgerSum AnswersAgreeWithLedger NobodyWaitsInVain
PROPERTY ImplementsLedger
CHECK_DEADLOCK FALSE
