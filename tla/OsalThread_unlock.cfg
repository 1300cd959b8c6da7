SPECIFICATION ThreadSpec
CONSTANTS
    t1 = t1
    t2 = t2
    Threads = {t1, t2}
    k1 = k1
    Tasks = {k1}
    Servers = {}
    r1 = r1
    Results = {r1}
    None = None
INVARIANT CompleterHasContext
CHECK_DEADLOCK FALSE
