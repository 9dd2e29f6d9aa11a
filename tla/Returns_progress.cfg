SPECIFICATION FairSpec
CONSTANTS
    card = card
    ticket = ticket
    pass = pass
    file = file
    o1 = o1
    o2 = o2
    Cards = {card, pass}
    Tickets = {ticket}
    Files = {file}
    OrderOf <- OrderOfUnit
    Rank <- UnitRank
    Ordered <- OneEach
    Price <- OneEach
    Baskets <- AllBaskets
    Rets = {1}
    Callers = {w1, w2}
    Nobody = Nobody
    MaxRows = 1
    MaxFaults = 1
    Limit = 1
    MaxPaidEvents = 1
    MaxReissues = 0
INVARIANT RefundedPaymentIsPaidBack
PROPERTIES EveryCallEnds PaidFileGetsGrant
CHECK_DEADLOCK FALSE
