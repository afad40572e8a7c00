CONSTANTS
    Orders = {1, 2, 3}
    Products = {1, 2}
    Workers = {w1, w2}
    Editors = {}
    NoProduct = NoProduct
    Carts <- BothWays
    InitialStock <- TwoOfEach
    Quantities = {1}
    Corrections <- OnlySave
    MaxStock = 2
    MaxCrashes = 1

SPECIFICATION Spec
SYMMETRY WorkerSymmetry
INVARIANTS
    TypeOK
    LedgerBalances
    ReservedUntilCancelled
PROPERTIES
    StatusFollowsMachine
    ImplementsWarehouse
CHECK_DEADLOCK FALSE
