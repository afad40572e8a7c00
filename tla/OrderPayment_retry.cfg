CONSTANTS
    o1 = o1
    p1 = p1
    c1 = c1
    Orders = {o1, o2}
    Payments = {p1, p2}
    Workers = {w1, w2}
    Coupons = {c1}
    MaxAttempts = 2
    MaxCrashes = 0
    CouponOf <- SharedCoupon
    MaxUsage <- OneUse
    Moves = {"failed", "pending", "processing", "cancelled", "refunded"}
    Legacy <- OneLegacy
    CanInquire = TRUE
    NoOrder = NoOrder
    NoPayment = NoPayment
    NoCoupon = NoCoupon

SPECIFICATION Spec
SYMMETRY WorkerSymmetry
INVARIANTS
    TypeOK
    OneActivePayment
    ExecutionAgreement
    OutcomesHaveEvidence
    OneInitiation
    PaidOrdersAccounted
    ChargedOncePerOrder
PROPERTIES
    TerminalIsFinal
    ImplementsSale
CHECK_DEADLOCK FALSE
