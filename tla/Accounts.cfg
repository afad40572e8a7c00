CONSTANTS
    Sessions = {s1, s2}
    Tokens = {t1, t2, t3, t4}
    Workers = {w1, w2}
    MaxTimeouts = 1
    Purposes = {signup, login}
    Lifetime = 2
    MinInterval = 1
    Window = 2
    MaxPerWindow = 2
    MaxAttempts = 2
    MaxCodes = 4
    MaxClock = 3
    MaxFailures = 1
    Requests = {r1, r2, r3, r4, r5, r6}
    Limit = 2
    MaxWindows = 3

SPECIFICATION PartsSpec
SYMMETRY Symmetry
INVARIANTS
    PartsTyped
    OneValidToken
    CodesAreFew
    CountIsFair
PROPERTIES
    LogoutIsFinal
    AcceptedOnceInTime
CHECK_DEADLOCK FALSE
