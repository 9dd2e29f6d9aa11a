SPECIFICATION Spec
CONSTANTS
    a1 = a1
    a2 = a2
    c1 = c1
    c2 = c2
    v1 = v1
    v2 = v2
    Attempts = {a1, a2}
    Carts = {c1, c2}
    CartOf <- TwoCarts
    Variants = {v1, v2}
    Stock <- ScarceStock
    Price = 2
    Credit = 2
    Wanted = {0, 1, 2}
    RedeemNeedsOrder = FALSE
    Handlers = {h1}
    Admins = {}
    MaxFaults = 2
INVARIANTS CreditComesBackOnce RefusedLeavesNothing CompletedIsNotFailed
PROPERTY CheckoutKeepsAcceptedCharge
CHECK_DEADLOCK FALSE
