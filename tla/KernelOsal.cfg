SPECIFICATION OsalSpec
CONSTANTS
    p1 = p1
    p2 = p2
    p3 = p3
    p4 = p4
    Procs = {p1, p2, p3, p4}
    Consumers = {"c1", "c2"}
    Producers = {"p1", "p2"}
    MaxItems = 3
    Generations = 4
    Nobody = "none"
    Threads = {"t1", "t2"}
    Tasks = {"k1", "k2"}
    Servers = {"t1"}
    Results = {"r1", "r2"}
    None = "none"
    Start = 1
    MaxCount = 4
    Timeouts = {0, 3}
    Tick = 2
    ClockWord = 10
    Slack = 2
    Amounts = {1, 3}
    AtomicWord = 4
    MaxCalls = 2
    Blocks = {"b1", "b2", "b3"}
    Sizes = {1, 2}
    Thresholds = {4}
    Percent = 5
    HeapWord = 64
    NoBlock = "none"
INVARIANTS
    ReleasesWhatItHolds
    NothingIsLost
    WaitKeepsMutex
    OwnerHandleIsGood
    SelfIsFound
PROPERTIES
    ReportsAreTrue
    CallsReturn
CHECK_DEADLOCK FALSE
