CONSTANTS
    Orders = {1}
    Products = {1, 2}
    Workers = {w1}
    Editors = {}
    NoProduct = NoProduct
    Carts <- BothWays
    InitialStock <- TwoOfEach
    Quantities = {}
    Corrections <- OnlySave
    MaxStock = 2
    MaxCrashes = 0

SPECIFICATION Spec
INVARIANTS
    LocksInProductOrder
CHECK_DEADLOCK FALSE
