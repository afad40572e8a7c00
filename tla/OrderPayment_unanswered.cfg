CONSTANTS
    o1 = o1
    p1 = p1
    c1 = c1
    Orders = {o1}
    Payments = {p1}
    Workers = {w1}
    Coupons = {}
    MaxAttempts = 1
    MaxCrashes = 0
    CouponOf <- NoCouponOrders
    MaxUsage <- NoLimits
    Moves = {"cancelled"}
    Legacy <- NoLegacy
    CanInquire = TRUE
    NoOrder = NoOrder
    NoPayment = NoPayment
    NoCoupon = NoCoupon

SPECIFICATION RepeatedSpec
PROPERTIES
    EveryAttemptIsResolved
CHECK_DEADLOCK FALSE
