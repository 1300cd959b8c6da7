SPECIFICATION PdmSpec
CONSTANTS
  \* One device, two processes with its node, two with its diagnostic files;
  \* storage for two instances, since a file keeps one past its device.
  Devices = {"d1"}
  Memory = {"m1", "m2"}
  Procs = {"p1", "p2"}
  Minors = {0, 1}
  Readers = {"r1", "r2"}
  None = "none"
  \* A fifo of three bytes, three transfers of up to two.
  FifoSize = 3
  MaxLen = 2
  MaxXfers = 3
  \* Frames of up to two bytes, a queue of two, and a query that does not fit.
  CanMcus = {"i1", "i2"}
  MaxDlen = 2
  IndexLen = 1
  QueryLen = 3
  CanTransfer = 3
  QueueSize = 2
  MaxRequests = 3
  Strangers = 1
  \* Digits of base 2 make up the bytes.
  Clients = {"a", "b"}
  ClientType <- MCClientType
  BusMcus = {"i1", "i2"}
  Base = 2
  Prefixes = {0, 1, 3}
  MaxPrefix = 2
  BusTransfer = 1
  MaxCommand = 2
  NoOne = "none"
  MaxLevel = 3
  Backends <- MCBackends
  Enumerating = {"mcu_uart", "mcu_i2c"}
  Drivers <- MCDriverEntries
  BusDevices = {"can", "uart", "i2c", "mock_led"}
  Enumerator <- MCEnumerator
  DriverOf <- MCDriverOf
  MaxLoads = 2
  Nodes = {"a", "b", "c", "d", "u", "i"}
  Children <- MCChildren
  Bus <- MCBus
  Compatible <- MCCompatible
  Name <- MCName
  PdmId <- MCPdmId
  Second <- MCSecond
  Half = 8
  Ids = {0, 1}
  \* Lines of up to four words, and a list of up to three LEDs.
  Leds = {"a", "b", "c"}
  Mcus = 1
  Verbs = {"reset", "version", "command", "other"}
  Numbers <- MCNumbers
  MaxWords = 4
  MaxBytes = 2
  WriteMax = 4
  MaxMoves = 5
  \* A ring of three errors, out of five.
  RingSize = 3
  Errors <- MCErrors
  Kinds = {"probe", "runtime"}
  MaxErrors = 5
INVARIANTS
  StreamUnbroken
  CleanAnswers
  FailuresGiveBack
  LedStateIsShown
  FilesKeepInstance
  RequestsExclusive
  Grounded
  ServedAsDescribed
  DiagnosticsTell
PROPERTY
  TransfersComplete
CHECK_DEADLOCK FALSE
