SPECIFICATION FairSpec
CONSTANTS
    a1 = a1
    a2 = a2
    c1 = c1
    c2 = c2
    v1 = v1
    v2 = v2
    Attempts = {a1}
    Carts = {c1, c2}
    CartOf <- OneCart
    Variants = {v1}
    Stock <- AmpleStock
    Price = 2
    Credit = 1
    Wanted = {0, 1}
    RedeemNeedsOrder = FALSE
    Handlers = {h1, h2}
    Admins = {m1}
    MaxFaults = 3
PROPERTIES PaymentMovesForward DeclineIsCompensated RefundIsRecorded
CHECK_DEADLOCK FALSE
