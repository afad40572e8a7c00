CONSTANTS
    o1 = o1
    p1 = p1
    c1 = c1
    Orders = {o1}
    Payments = {p1}
    Workers = {w1, w2}
    Coupons = {c1}
    MaxAttempts = 2
    MaxCrashes = 1
    CouponOf <- SharedCoupon
    MaxUsage <- OneUse
    Moves = {"failed", "pending", "processing", "shipped", "cancelled", "refunded"}
    Legacy <- OneLegacy
    CanInquire = TRUE
    NoOrder = NoOrder
    NoPayment = NoPayment
    NoCoupon = NoCoupon

SPECIFICATION RepeatedSpec
PROPERTIES
    ChargedIsConsumed
    AuthorityIsResolved
CHECK_DEADLOCK FALSE
