SPECIFICATION Spec
CONSTANTS
    a1 = a1
    a2 = a2
    c1 = c1
    c2 = c2
    v1 = v1
    v2 = v2
    Attempts = {a1}
    Carts = {c1, c2}
    CartOf <- OneCart
    Variants = {v1}
    Stock <- AmpleStock
    Price = 2
    Credit = 0
    Wanted = {0}
    RedeemNeedsOrder = TRUE
    Handlers = {h1}
    Admins = {}
    MaxFaults = 0
INVARIANT SucceededIsRecorded
CHECK_DEADLOCK FALSE
