CONSTANTS
    k1 = k1
    i1 = i1
    i2 = i2
    Payments = {p1}
    Keys = {k1, k2, k3}
    Workers = {w1, w2}
    Identities = {i1, i2}
    Amount <- TwoUnits
    IdentityOf <- SomeShared
    NoPayment = NoPayment
    NoKey = NoKey

SPECIFICATION Spec
SYMMETRY Symmetry
INVARIANTS
    TypeOK
    BalanceAgrees
    ExecutionAgrees
PROPERTIES
    ImplementsLedger
CHECK_DEADLOCK FALSE
