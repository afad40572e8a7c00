CONSTANTS
    MaxAttempts = 3
    Workers = {w1, w2}
    Authorities = {x}
    References = {r, s}
    Transactions = {t}
    Keys = {k}
    NamesAtOpening = TRUE
    None = None
    Attempts = {a1, a2}
    Gateways = {zarinpal, mellat, stripe}
    Registered = {zarinpal, mellat}
    ZarinPal = zarinpal
    Issued = {u, v}
    Unreadable = TRUE

SPECIFICATION ViewsSpec
SYMMETRY Symmetry
INVARIANTS
    ViewsTyped
    OnlyLatestIsLive
    RowsAreClean
    SuccessIsSettled
    FailureIsRefusal
PROPERTIES
    ChangesAreSound
CHECK_DEADLOCK FALSE
