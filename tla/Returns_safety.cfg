SPECIFICATION Spec
CONSTANTS
    card = card
    ticket = ticket
    pass = pass
    file = file
    o1 = o1
    o2 = o2
    Cards = {card, pass}
    Tickets = {ticket}
    Files = {file}
    OrderOf <- OrderOfUnit
    Rank <- UnitRank
    Ordered <- OneEach
    Price <- OneEach
    Baskets <- AllBaskets
    Rets = {1, 2}
    Callers = {w1, w2}
    Nobody = Nobody
    MaxRows = 2
    MaxFaults = 0
    Limit = 2
    MaxPaidEvents = 2
    MaxReissues = 1
INVARIANTS ReturnedUnitsAreUnbound DeliveriesWithinLimit
PROPERTIES ReturnsFollowLifecycle
SYMMETRY CallerSymmetry
CHECK_DEADLOCK FALSE
