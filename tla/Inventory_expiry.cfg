CONSTANTS
    Orders = {1, 2}
    Products = {1, 2}
    Workers = {w1, w2}
    Editors = {e1}
    NoProduct = NoProduct
    Carts <- BothWays
    InitialStock <- OneOfEach
    Quantities = {}
    Corrections <- OnlySave
    MaxStock = 1
    MaxCrashes = 0

SPECIFICATION FairSpec
PROPERTIES
    OverdueIsExpired
CHECK_DEADLOCK FALSE
