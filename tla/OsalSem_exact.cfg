SPECIFICATION Spec
CONSTANTS
    p1 = p1
    p2 = p2
    Procs = {p1, p2}
    Start = 0
    MaxCount = 2
INVARIANT QuietValueIsExact
CHECK_DEADLOCK FALSE
