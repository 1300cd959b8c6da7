SPECIFICATION Spec
CONSTANTS
    c1 = c1
    c2 = c2
    t1 = t1
    Loggers = {t1}
    Controllers = {c1, c2}
    Sizes = {1}
    Counts = {2}
    MaxLines = 1
    MaxInits = 2
INVARIANTS
    HandlesExact
CHECK_DEADLOCK FALSE
