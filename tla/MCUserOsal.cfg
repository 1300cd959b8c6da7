SPECIFICATION UserSpec
CONSTANTS
    NoOne = NoOne
    Users = {"p1", "p2"}
    Objects = {"o1", "o2"}
    Values = {1, 2}
    Freedoms = {}
    Null = "none"
    Entries = {"e1", "e2"}
    Validities = {1, 3}
    MaxNow = 5
    AgeWord = 4
    NsPerMs = 2
    MsPerSec = 2
    Lockers = {"p1", "p2"}
    LockTimeouts = {1, 2}
    MaxClock = 6
    Threads = {"t1", "t2"}
    WaitTimeouts = {0, 1}
    MaxTime = 4
    MaxUnits = 1
    ProcessOf <- MCProcessOf
    ShmNames = {"n1"}
    Sizes = {1}
    Slots = 1
    TableFds = {0, 1, 2}
    Devices = {"m1", "l1"}
    TypeOf <- MCTypeOf
    Ids = {0, 1}
    Contexts = {"cm", "cl"}
    KindOf <- MCKindOf
    PdiFds = {0, 1}
    Blocks = {"b1", "b2"}
    BlockSizes = {1, 2}
    Thresholds = {4}
    Percent = 5
    HeapWord = 64
    Readings <- MCReadings
    Amounts = {1, 3}
    AtomicWord = 4
    MaxCalls = 2
    Controllers = {"c1"}
    LogSizes = {1, 2}
    LogCounts = {1, 2, 4}
    MaxLines = 5
    MaxInits = 2
    LogCalls = {"emit", "plain"}
    Levels = {1}
    Info = 1
    Rates = {1, 2}
    ServerFds = {0, 1}
    MaxCount = 2
INVARIANTS
    ReadIsWhole
    AnswersInTime
    LogIsSound
    LocksAreTrue
    FiguresExact
    DescriptorsExact
    SidesAgree
PROPERTIES
    TimeoutsAreLate
    CallsEnd
CHECK_DEADLOCK FALSE
