CONSTANTS
    Events = {1, 2, 3}
    Processors = {p1, p2}
    Handlers <- Routes
    MaxHandlers = 2
    BatchSize = 2
    MaxRetry = 2
    MaxCrashes = 1

SPECIFICATION Spec
INVARIANTS
    TypeOK
    SettledAsEarned
    RepeatsHaveACause
    WaitIsBounded
PROPERTIES
    ImplementsDelivery
CHECK_DEADLOCK FALSE
