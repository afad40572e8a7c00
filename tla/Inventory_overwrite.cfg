CONSTANTS
    Orders = {1}
    Products = {1}
    Workers = {w1}
    Editors = {e1}
    NoProduct = NoProduct
    Carts <- OneProduct
    InitialStock <- OneOfEach
    Quantities = {}
    Corrections <- OnlySave
    MaxStock = 1
    MaxCrashes = 0

SPECIFICATION Spec
INVARIANTS
    LedgerBalances
CHECK_DEADLOCK FALSE
