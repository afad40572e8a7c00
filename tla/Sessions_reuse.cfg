CONSTANTS
    Sessions = {s1, s2}
    Tokens = {t1, t2, t3}
    Workers = {w1, w2}
    MaxTimeouts = 0

SPECIFICATION Spec
INVARIANTS
    ReuseEndsSession
CHECK_DEADLOCK FALSE
