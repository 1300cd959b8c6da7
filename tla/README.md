# Formal model of LPF: the Linux peripheral framework

TLA+ modules, TLC configurations and TLAPS proofs for the code of this
repository: the kernel modules `osal.ko` and `pdm.ko` (`kernel/`), the user
libraries OSAL, PDI and ACONFIG (`user/`), and the Kconfig system that configures
the build (`scripts/`). Every definition is translated from the source;
`PROJECT.json` names the lines each one stands for.

    tlasany M.tla                                   parse a module
    tlc -workers 2 -config MCPdmBus.cfg MCPdmBus    model-check an instance
    tlapm PdmManager.tla                            check proofs

## 1. The system

Below, "hard" names what makes a part difficult to test, and "correct" what has
to hold.

**PDM bus and device model** (`kernel/pdm/bus/pdm_bus.c`, `pdm_device.c`). A
Linux bus type. A device has a type, an instance number, capabilities, a state
and a last error; there is one `ida` and one counter per type. Enumerators
allocate, register and unregister devices; the driver core calls probe and
remove, which call `pdm_device_bind`, the driver, and `pdm_device_unbind`.
*Hard*: devices of a type bind and unbind on their own threads; the number is
freed before the fields are cleared; any step of probe can fail; ioctls write
state and error while probe ends. *Correct*: a number has one holder, a request
for a number is honoured, failures give everything back, the name of a node is
free when it is needed.

**Enumerators and matching** (`pdm_of_bus.c`, the serdev, i2c and spi drivers,
mock devices, `registry/`). A node of the Device Tree becomes a device; a
compatible string decides which driver and which backend serve it. *Hard*:
drivers and devices come in any order, a child or a backend may fail. *Correct*:
what is bound is what the node describes; children come all or not at all.

**Manager and device nodes** (`pdm_cdev.c`). `/dev/pdm_manager` answers queries
by walking the bus; `/dev/mcu<n>` and `/dev/led<n>` are the nodes of devices. State:
minor numbers, the cdevs with their reference counts, the instances (open count,
online flag, mutex). *Hard*: the walk takes no lock a binding takes; a file is
opened, used and closed before, during and after the removal of the driver.
*Correct*: an undisturbed answer is exact; nobody reaches a freed instance; the
last reference frees it.

**MCU driver** (`drivers/mcu/pdm_mcu.c`, `pdm_mcu_diag.c`). Ioctls claim the
instance's mutex and transfer; remove shuts the instance down, cleans the
transport up and takes the node away. `/proc/pdm/mcu` and debugfs reach the same
instances through a list; a ring keeps the last errors. *Hard*: remove against
ioctls and diagnostics. *Correct*: one transfer at a time, none after the
shutdown, remove ends.

**MCU transports** (`pdm_mcu_uart*.c`, `pdm_mcu_can.c`, `pdm_mcu_i2c.c`,
`pdm_mcu_spi.c`) and the **protocol** (`pdm_mcu_protocol.c`). UART: a fifo filled
by the tty and emptied by a transfer with a deadline. CAN: a raw socket on a
network device. I2C and SPI: a prefix, a command, an answer. *Hard*: late,
partial and missing answers, a fifo that is full, a callback during the clean-up.
*Correct*: no byte is lost or moved, an answer belongs to its command, transfers
end.

**LED driver** (`drivers/led/`). Settings, a maximum, and a GPIO or PWM that can
refuse. *Correct*: the reported state is the one shown.

**Loading, unloading, diagnostic files** (`pdm.c`, `registry/`, `diag/`). Six
steps with nested error labels, two registries, counted roots in `/proc` and
debugfs; text commands and lists. *Hard*: the exit is not the reverse of the load;
a list is written row by row while LEDs come and go. *Correct*: nothing is used after
it was taken down, nothing stays; the bytes of a command keep their order.

**Kernel OSAL** (`kernel/osal/src`). Threads (context, registry, completion),
semaphore (with a counter beside it), condition (generation and wait queue),
read-write lock (with a mode flag), mutex (with a polling timed lock), atomic
words, heap (usage, peak, thresholds), time, CRC, strings, log. *Hard*: every one
keeps a field next to the kernel's object. *Correct*: field and object agree, no
wake-up is lost, a context is freed once, a time-out is not early.

**User OSAL** (`user/osal/src`). A cache in shared memory with a mutex shared by
processes, a table of shared memories, a log with rotation and a remote server, a
heap with statistics, file locks, waits with deadlines, atomic words, and thin
wrappers of pthreads and system calls. *Hard*: processes die; a file is rotated
by the threads that write it; a socket is closed under a sender. *Correct*: a
read is whole, a lock's flag says what the kernel says, figures match blocks.

**PDI** (`user/pdi`). Clients of MCU and LED: find a number by name, open the node
of that number, one ioctl per call. *Hard*: devices come and go in between.
*Correct*: no descriptor is lost or closed twice. **ACONFIG**: a table.
**Applications** (`apps/`): tools that print.

**Kconfig** (`scripts/kconfig`, `scripts/basic`). The parser builds a tree of
menus, `menu_finalize` simplifies and propagates dependencies; values of symbols
are calculated when asked for and kept; `.config` is read and written; conf,
menuconfig and nconfig change values; syncconfig and fixdep tell make what to
compile again. *Hard*: what is asked first decides what is kept; a kill between
two renames or two touched files; keys in any order. *Correct*: a kept value is
the one that would be calculated now; what is written is what is read; an object
taken for current has the current options; nothing is lost without a question.

The components meet at few places: the bus calls drivers (PdmBus leaves a driver
as one step with a result; PdmInstance, PdmLed and PdmMatch are that step), the
manager reads the devices of the bus (PdmManager extends PdmBus), diagnostics
read the instances of the driver (the readers of PdmInstance), the module brings
all of them up and down (PdmModule). The objects of the OSAL, the transports and
the LED share nothing with each other. In Kconfig everything stands on the values
of symbols: KconfigFile and KconfigConf extend KconfigSymbol, and KconfigMenus, which
uses KconfigFile; KconfigMenu extends KconfigExpr.

## 2. Modules

Kernel, peripherals:

| module | models | state and steps |
|---|---|---|
| PdmBus | bus, device, numbering | One label per device says where the thread that binds or unbinds it is: between `ida_alloc`, the counter, the fields, the driver, the tail of probe, and back. Labels of two devices interleave freely. An ioctl is a writer beside it. |
| PdmIdService | what numbering promises | Acquire and Release of (type, number) holdings; PdmBus implements it (`IdServiceSpec`). |
| PdmManager | control node, `pdi_list_devices` | Extends PdmBus with readers. A walk visits one device per step; the copy of the match is another. |
| PdmMatch | Device Tree, match, backends, requested numbers | Drivers register and go, devices are made and bound; a driver that registers is offered the devices one by one, while others come and go; each probe is one step that may fail. |
| PdmInstance | pdm_cdev, the MCU driver and its diagnostics | Three actors: binding of a device (setup, register, publish, shutdown, cleanup, delete, put) processes with a file, readers of diagnostic files that find, claim and query. Memory of instances is reused. |
| PdmCommand | text commands, the list of LEDs | A line of words, read token by token into the bytes of a request. An LED is counted, listed by the driver core, taken off the count, cleared and taken off the list in steps of their own; a reader takes the count and walks the list between them. |
| PdmErrorLog | error ring and counters | Records of probe, bind and runtime; the ioctls' copies of state and counters. |
| McuUart | UART transport | Transfer thread, tty callback, MCU, time. The callback looks for the instance twice, and the clean-up may come between. The bytes carry the transfer they answer. |
| McuCan | CAN transport and the protocol's checks of sizes | Instances on a network device, strangers on the bus. |
| McuBus | I2C and SPI | Bus drivers that make devices, transport set-up, a request with its prefix and what the wire does to it. |
| PdmLed | LED driver | Probe, ioctls, diagnostic files, remove; each call on the hardware may fail. |
| PdmModule | load, unload, registries, counted roots | A program counter through init, its labels and exit; registrations are counted, so that undoing what was not done shows; so are the structs of the debugfs directory. |
| PdmDrivers | all of these from PdmMatch to PdmModule but PdmInstance | Instances of each for any constants, what they promise together, and the proofs. |

OSAL and PDI:

| module | models | state and steps |
|---|---|---|
| OsalThread | kernel threads | Owner and thread; tasks and contexts are memory that is freed and reused. |
| OsalSem, OsalCond, OsalRwlock | kernel synchronisation | Each operation is split where another thread can come between. |
| OsalMutex | kernel mutex | The timed lock as the loop it is: try, look at jiffies (which wrap), sleep. |
| OsalAtomic | atomic words, both sides | Additions and compare-and-exchange loops; the kernel's failed exchange reads again. |
| OsalHeap | heaps, both sides | Allocation, clearing, counting, freeing as separate steps; the user's figure is also overwritten from `/proc`. |
| OsalSides | time and checksums, both sides | Pure operators: the words of their conversions, the bit loop beside the table; sleeps that a signal ends. |
| UserWait | POSIX waits with a time limit | The deadline as a time of day in seconds and nanoseconds. |
| OsalFlock | file locks | Processes that lock, poll, sleep, close and die; the flag beside the kernel's lock. |
| ShmCache | shared memory cache | Processes that create, open, read, write, delete, die. An entry is two halves. |
| ShmFreshness | times of entries | Clock, ages that wrap, invalidation, statistics. |
| ShmTable | table of shared memories | Create, open and close step by step; the names and sizes of objects belong to all processes. |
| OsalLog | user log | Start, shutdown, limits, writing, rotation in its own steps, of whose removals and renames any may fail; files of a directory. |
| OsalRemoteLog | levels, sampling, filter, server | Regions under the two mutexes; descriptors that are given to others once closed. |
| PdiClient | MCU and LED clients | Look-up, close, open as separate steps, while devices are bound, unbound and renumbered. |

Kconfig:

| module | models | state and steps |
|---|---|---|
| KconfigExpr | `expr.c` | Operators: value, transformation, elimination of duplicates and common parts, comparison. |
| KconfigMenu | `parser.y`, `menu.c` | Statements in any order the grammar admits; then the finalization, entry by entry. Beside that (`ExprSpec`) one expression taken through the calls `menu_finalize` makes, one call per step. |
| KconfigSymbol | `symbol.c` | One record of values, visibilities and flags, passed through the mutually recursive calculations as the code's globals are; questions and settings in any order. |
| KconfigFile | `confdata.c`, files | Extends KconfigSymbol with reading, writing, renaming, a kill between any two steps, a second run; defconfig. |
| KconfigSync | `confdata.c` (syncconfig), make's rule, `fixdep.c` | Each file written and each file touched is a step; a run may stop after any. |
| KconfigConf | `conf.c` | Extends KconfigSymbol; the walk's recursion is a sequence of tasks; the modes that set everything at once. |
| KconfigPreprocess | `preprocess.c` | Definitions and uses of variables, recursion, functions, the record of the environment. |
| KconfigMenus | `mconf.c`, `nconf.c` | Extends KconfigFile with a stack of menus, the list on the screen (built anew only where the code does), files by name. One key is one step. |

`MC…` modules give instances to TLC. MCDrivers, MCUserOsal and MCKconfig, and KernelOsal,
each put together several components that share no state: a behaviour is one of
one of them (variable `part`, chosen in Init), while the others stay in their
initial states. Nothing is lost by that, as there is nothing between them to
interleave, and every component is explored in full. A property of such a module
is the conjunction of what the components promise of one kind; the parts have
names of their own in the components. KernelOsal is the composition of the kernel's
objects for any values of their constants: its own constants are theirs, the .cfg gives
them values, and theorems are about the composed specification `OsalSpec` that the run
checks. Of the others, the components whose properties are proved are extended
(MCDrivers extends PdmInstance and PdmDrivers, MCUserOsal extends UserOsal), so that run
and theorem speak of one and the same definition; their constants are given in the .cfg.
PdmDrivers extends McuUart and instantiates McuCan (`Can`), McuBus (`Serial`), PdmLed
(`Led`), PdmModule (`Load`), PdmMatch (`Tree`), PdmCommand (`Text`) and
PdmErrorLog (`History`).
UserOsal extends ShmCache and instantiates ShmFreshness, OsalFlock, UserWait, ShmTable,
PdiClient, OsalHeap, OsalAtomic, OsalLog and OsalRemoteLog. The rest is instantiated with its constants in place. ShmCache is there three times, also
with processes that die (`Dying`, `Again`).

Theorems and proofs stand in `PdmBus_proofs` and `PdmInstance_proofs`, in `PdmDrivers`,
`KernelOsal` and `UserOsal` for what those compose, and for the other components at the
end of the module itself (PdmManager, OsalCond, OsalThread), behind its inductive
invariant.

Definitions called "A slip: …" or "A faulty …" stand before the definition they
spoil; no specification uses them. They are mistakes one could make in that code;
every property is one that TLC reports when such a slip takes the place of the
definition.

## 3. Runs

| run | parts and bounds | distinct states | shows |
|---|---|---|---|
| bus | 3 devices of one type, 2 numbers, requests for 1 or any, one error | 1.1 M (symmetric) | `UniqueInstances`, `NoIdLeak`, `CountExact`, `RequestHonoured`, `UnboundIsClean`, `NodeNameFree`, refinement `IdServiceSpec` |
| manager | 2 devices of two types, 1 reader, 4 queries, lists of 2 | 3.3 M | `AnswersAreExact`: an undisturbed answer (`QuietAnswerExact`) and list (`QuietListExact`) is exact, a walk does not overlook a device that stays (`SteadyDevicesAnswered`) |
| drivers | UART: fifo of 3, 3 transfers of up to 2; CAN: one MCU alone with 3 requests, two MCUs and a stranger; I2C and SPI: one client each, prefixes 0, 1, 3; LED with levels 0–3 and diagnostic files; node: 1 device, 2 instances of memory and minors, 2 processes, 2 diagnostic readers; load: 3 backends, 2 drivers, 4 devices, 2 loads; tree: 6 nodes on 3 buses; command lines of 4 words; a list of 3 LEDs shown row by row while 5 times one comes or goes; a ring of 3 out of 5 errors | 247 k | `StreamUnbroken`, `CleanAnswers`, `FailuresGiveBack`, `LedStateIsShown`, `FilesKeepInstance`, `RequestsExclusive`, `Grounded`, `ServedAsDescribed`, `DiagnosticsTell`, and `TransfersComplete` under fairness |
| kernel_osal | rwlock with 4 threads, semaphore with 4, condition with 2+2, 3 items and a generation modulo 4, 2 threads on 2 tasks, mutex with 2 threads and jiffies modulo 10, atomic word of 2 bits, heap with 2 users and 3 blocks | 131 k | `ReleasesWhatItHolds`, `NothingIsLost`, `WaitKeepsMutex`, `OwnerHandleIsGood`, `SelfIsFound`, `ReportsAreTrue`, and `CallsReturn` under fairness |
| user_osal | cache: 2 processes, with and without deaths; 2 entries, validities 1 and 3, time to 5, ages modulo 4; table: 2 processes, 1 entry each; log: 2 loggers, 1 controller, 5 lines, 2 starts, limits 1, 2, 4; the same with a server; file locks: 2 processes, time to 6; waits: 2 threads, time to 4; heap, atomic word, times, checksums; 2 clients on 2 devices | 357 k | `ReadIsWhole`, `AnswersInTime`, `LogIsSound`, `LocksAreTrue`, `FiguresExact`, `DescriptorsExact`, `SidesAgree`, `TimeoutsAreLate`, and `CallsEnd` under fairness |
| kconfig | expressions up to three operators over a bool, a tristate and an int, in every environment; trees of 2 entries of any kind and of 3 of few; three sets of symbols (select, choice, range); `.config` with 2 runs and kills; all modes of conf on a tree of 9 entries; menuconfig and nconfig with 6 keys, dialogs 3 deep and 2 files; 2 options and 2 objects; 3 lines of preprocessor | 276 k | `ExpressionsKeepValue`, `TreeIsAsWritten`, `ValuesAreRight`, `FilesKeepSettings`, `BuildIsCurrent`, `FrontEndsAreTrue` |
| diag_found, led_refused, thread_unlock, sem_exact, log_lifecycle, command_data | small | | one disagreement each, section 6 |

**Why the bounds suffice.** Three devices are the first number at which one binds,
one unbinds and one waits for the number between them; two numbers let a
request collide and let it succeed. Two devices make a list shift, and a walk
meets a device before and behind it. Two instances of memory let an old one live
with open files while the next is bound; a third would be like the second.
Two processes and two readers make two callers on each side of the mutex. A fifo of
three with transfers of two overfills after a late answer. Prefixes below, at and
above the largest reach each check of a length. Three LEDs let one
go before and behind the row that is written next, while another is between two steps. Two processes tear a cache entry. Two threads that log
and one that controls cover each pair of the critical sections. Four rwlock
threads have two readers, a writer and one that waits. A generation modulo 4 and
jiffies modulo 10 wrap in the run, and so do ages modulo 4; the code's generation is an `int`, and a waiter
that sleeps through exactly 2^32 signals is out of reach. A second of two
milliseconds of two nanoseconds carries in both places. Three operators are the
least at which every rule of `expr_eliminate_dups` and of the common parts has
something left over; two runs of a Kconfig program are a program and one that finds
what it left; two options let a touched file be wanted by one object and not by
the other.

**Bounds that stop a behaviour** (MaxXfers, MaxRequests, MaxItems, MaxLoads,
MaxLines, MaxInits, MaxNow, MaxTime, MaxCalls, MaxErrors, MaxMoves, MaxRuns, MaxKeys,
one life per thread) end a behaviour early. Such runs have `CHECK_DEADLOCK FALSE`; bus
and manager have no such end and do check deadlock. MCKconfig leaves its
recursion to RECURSIVE operators, as the code's functions call each other through
its globals; of its modules only KconfigSync is free of them.

**Types.** Most component modules have a type invariant. For PdmBus, PdmManager,
PdmInstance, McuUart, McuCan, PdmLed, OsalCond, OsalThread, ShmCache and the objects of
KernelOsal and UserOsal it is proved (for many as part of their inductive
invariants); TLC finds the others to hold on the same instances when they are added as
an INVARIANT to the runs' configurations (where two instances share variables, each in
its own part). `FilesKeepSettings` has that of KconfigFile.

**Fairness**, and why the code has it:
- PdmInstance: the removal of a device goes on (the driver core does not abandon
  it) and a transfer ends (transports have deadlines, see `XferEnds`).
  `RemoveShutdown` waits for the instance's mutex that ioctls take again
  and again; strong fairness is the kernel mutex's hand-off to a waiter that has
  been passed over. A diagnostic query ends for the same reason as a transfer.
- McuUart, McuCan: a thread inside a transfer runs, and time passes. Nothing is assumed
  of the MCU or of the line.
- OsalThread: thread and owner run; routines return, and those that serve return
  when told to stop (constant `Servers`), as kthread_stop demands of a routine.
- OsalCond: threads run; strong fairness on taking the mutex again (`Relock`), as
  for any kernel mutex. Not that anybody puts an item.
- OsalMutex: the clock ticks and a thread inside a call runs; not that the owner
  ever unlocks.
- OsalFlock: a process inside a timed lock runs; its sleeps make time pass.
- ShmCache: a process inside a call that does not die goes on.

The other modules state safety only. In MCDrivers, KernelOsal and MCUserOsal a fair
action is one of the part under way.

## 4. Proofs

Each theorem is for every value of the constants that the assumptions of the module
admit. The argument is the same everywhere: the property follows from an invariant that
says what each thread knows at each of its places, and that one holds initially and is
kept by every step; one lemma per action or group of actions. TLC checked each of these
invariants on the instances of the runs first.

**PdmBus** (`PdmBus_proofs`, from `BusAssumption`): `InstancesAreUnique`,
`NumbersDoNotLeak`, `RequestsAreHonoured`, `NodeNamesAreFree`, `UnboundDevicesAreClean`,
`CountersAreExact`, `TypeCorrect` (with it, that a recorded error is 0 or negative: the
codes are negative by assumption), and `NumberingIsService`: PdmBus implements
PdmIdService. Holdings are computed from labels and local variables; every step is an
Acquire, a Release or a stutter. That a number has one holder depends on what a thread
between `ida_alloc` and the fields knows. `IndInv` adds: a label belongs to a device on
the bus (`LifeInv`); the local number is known from the allocation to the clearing
(`GrantInv`) and equals the fields between bind and the end of unbind (`FieldsInv`),
which are otherwise those of a device never bound (`CleanInv`); the node exists exactly
while the driver serves (`NodeInv`); a request fixes the number before it reaches a
field (`RequestInv`). The name of a node is free because nodes are named after numbers
and numbers have one holder. The counter of a type is the number of devices whose label
says that they are counted: a step moves one device over that line and the counter with
it.

**PdmManager** (in the module, upon `PdmBus_proofs`; from `ManagerAssumption`):
`AnswersAreSound` says of every query that an answer during which nothing changed is
exact, that a device that stays is not overlooked, and that an undisturbed list holds
the first devices of the bus in order. What an observer can see is put into sets and an
order: the devices on the bus (`OnBus`), which precedes which (`Precedes`), and which of
them can be discovered (`Discoverable`). `ManagerInv` says: a walk has passed everything
that precedes what it has passed; among the passed it has counted the devices that have
been discoverable all the time, and exactly the able ones if nothing has changed
(`WalkInv`); the device a callback matched is then the one asked for (`FillInv`); the
list holds the answers to the indices asked so far (`ListInv`). Steps of the bus keep
the order of what stays. Those that leave everything visible as it was leave every
answer as exact as it was; the others end the quiet, and only take devices from those
that stayed. A reader's step changes its own conjunct alone, which is why the invariant
is a conjunction over readers.

**PdmInstance** (`PdmInstance_proofs`, from `InstanceAssumption` and
`ReaderAssumption`): `InstancesAreKept` (nobody reaches a freed instance through a file,
each reference is owned, nothing leaks, nothing stays behind a binding: the parts of
`FilesKeepInstance`), `RequestsAreExclusive` (transfers and diagnostic queries exclude
each other and none outlasts the shutdown), and their parts by themselves, among them
`ReferencesAreExact` and `TransfersAreExclusive`. `IndInv`: a binding thread works on
one live instance (`OwnInv`); the count of each reference is the cardinality of its
owners (`RefInv`); an instance without references is its thread's alone (`FreshInv`); a
minor belongs to one instance with references (`MinorInv`); the transport is up while
the instance serves (`ServeInv`); who is inside a transfer, a query or a clean-up holds
the mutex (`LockInv`). All steps of nodes are proved beside readers that may hold the
mutex. Of a reader whose instance is freed between its look-up and its claim nothing is
known any more (`lost`; run `diag_found`), so no theorem says anything of what it does.

**PdmDrivers** (from `UartAssumption` and `DriverConstants`): the other parts of pdm.ko,
each with an inductive invariant of its own, that TLC finds to hold on the run's instance.
A theorem names the specification of each part it is about.
- *UART*: `StreamsAreUnbroken`, `CleanLinesAnswer` and `UartTypes`. The stream is what the
  user's buffer, the fifo and the tty hold, in that order. It stays unbroken since the
  answers under way are whole, each of a later transfer than the one before and than all
  that has come, and while the port is open the stream ends with the end of an answer
  (`DueInv`, `StreamInv`). Copying and receiving move bytes within the stream; the return
  of the ioctl drops its front, the close its end. On a clean line nothing is under way
  between two transfers, and nothing but its own answer during one (`CleanInv`).
- *CAN* (`CanInvariant`): a transport that is not open has nothing under way, and a clean
  one has nothing queued or due but, while it waits, the one answer to its last request
  (`CleanMcu`), on a bus with any number of instances and of strangers: a frame that
  reaches another's queue makes that one unclean. The references of a network device are
  the cardinality of the transports set up on it.
- *I2C and SPI* (`BusInvariant`): a device and its instance point at each other or at
  nobody (`BusLinks`); what goes out is the prefix and then the data (`SentIsBoth`).
- *LED* (`LedInvariant`): the hardware shows what is stored once it has been applied; a
  value that is stored and refused is taken back before anybody can ask for it. The
  diagnostic files do not take it back: a setting of theirs that the hardware refused is
  recorded in `astray`, until one is taken, and nothing is claimed meanwhile of a PWM. A
  GPIO cannot refuse.
- *Match* (`TreeInvariant`): the children before the one the walk is at have been made and
  no others (`WalkInv`); a name is the node's number or its own, so two nodes have two
  (`NameInv`); who is bound was matched, by a driver that is still registered, with a
  number no other of the driver has (`ServeInv`). An offer that a driver still has to make
  says nothing of the device it is made to, which may be bound or gone by then.
- *Load and unload* (`LoadInvariant`): the place a load or an unload is at, and the entry
  of the registry it is at there, determine exactly what is registered (`Standing`), for
  registries of any length; the proc entries are those of the drivers up to there, those
  in debugfs are among them, and the counts of the directories are cardinalities
  (`EntryInv`). So a module that is out has left nothing (`OutIsEmpty`) and what is there
  has below it what it needs (`StandsOnCore`). A load makes one struct of the debugfs
  directory (`RootsInv`), which the unload does not free (section 6).
- *Commands, lists, errors* (`TextInvariant`, `RingInvariant`): the bytes of a command are
  the words behind its id up to the first that is no number, which a least element of a
  set of positions marks (`SmallestOf`, `DataInOrder`), with one byte before them that
  section 6 is about; the count is that of the LEDs counted and not yet taken off it, the
  list has one place for each that is on it, and the rows written are the first of it while no LED
  is between two steps (`ListInv`); and counted backwards from the last one
  the slots of the ring hold the last errors, each step moving all by one (`SlotsOfRing`,
  `RingRecords`).
- From these: `AnswersAreClean` (`CleanAnswers`), `FailuresAreUndone` (`FailuresGiveBack`),
  `LedsAreShown` (`LedStateIsShown`), `BusStandsOnCore` (`Grounded`), `BoundAsDescribed`
  (`ServedAsDescribed`) and `DiagnosticsAreTrue` (`DiagnosticsTell`).

**KernelOsal** (from `KernelOsalAssumption`): read-write lock, semaphore, mutex, atomic
word and heap, each with an inductive invariant of its own. `OsalInvariant` joins them:
a step of the composition is a step of one object and leaves the others
(`StepsOfObjects`). `OsalInv` is also what TLC finds to hold on the run's instance.
- *Read-write lock*: `UnlockMatchesLock` (an unlock releases the mode in which the thread
  holds the lock) and `RwlockTypes`. `osal_rwlock_unlock` learns the mode by exchanging a
  flag that the writer sets *after* it has the lock. `RwlockInv` says where a thread
  stands when it holds, that a writer is alone, and that the flag is set only while a
  writer that has set it has not released yet. A reader cannot see it set, because the
  writer clears the flag before it gives the lock up.
- `UpdatesAreKept` (`NothingIsLost`) has three parts. *Semaphore*: `NeverUnderreports`
  is inductive once threads are finite in number: each step moves one thread between the
  two counters, and those under way are counted by where they stand. *Atomic word*: it is
  the start value and all additions, modulo the word (`AtomicInv`); an exchange adds what
  its caller wanted to what the caller expected, which is what is there, else it does
  nothing. Two lemmas on remainders (`RemainderIs`, `RemainderOfSum`) carry that across
  the wrap. *Heap*: `HeapInv` says which blocks a call holds at each of its places and
  that no block has two owners (`OwnersInv`, `CallIsSound`), and that the figure is the
  number of bytes of the blocks between the two countings (`FiguresInv`); a block's bytes
  are a set of pairs, so a block that comes or goes adds or takes exactly its size
  (`BlockAdds`, `BytesFit`).
- `ReportsAreRight` (`ReportsAreTrue`) has two. *Mutex*: the time a caller gives up at is
  always the clock plus the ticks it has left, modulo the clock's word, and those are
  fewer than half the word (`MutexInv`), for which `MutexAssumption` bounds the
  timeouts; so the comparison through a signed difference tells late from early, wherever
  the clock wraps (`LateIsLate`). *Heap*: the quotient that is compared reaches the
  threshold exactly when the product does (`QuotientReaches`).

`MemoryFits` is an assumption of these about the heap: all blocks together, times 100,
fit the word of the figures, 42.9 MB for 32 bits. Without it the alert is wrong (section
6, OsalHeap).

**OsalCond** (from `CondAssumption`): `WaitsAreSound` (who returns from a wait holds the
mutex, one at a time, and no sleeper is left behind with an item that nobody will
signal) and `CondTypes`. A generation that wraps is the danger: a sleeper that sees its
own value again sleeps on. Signals follow puts, so there were at most as many as items
put (`SignalsInv`), fewer than the generation has values (`MaxItems < Generations`);
hence a sleeper that sees its own generation has seen no signal, and what was put since
is yet to be signalled (`SleepersInv`). With as many signals as the counter has values
the property is false: it is the 2^32 of section 3.

**OsalThread** (from `ThreadAssumption`): `SelvesAreFound` (a running
thread finds its own context and no other), `HandlesAreGood` (a handle its owner may
still use leads to memory that is not freed, a join returns the routine's result, every
context is freed, once) and `ThreadTypes`. `ThreadInv` ties, thread by thread, the place
of the thread, the place of its owner and the fields of the context to each other, says
who frees the context, and that registry and tasks belong to the threads that are on
their way. Owners cancel whenever they like, but `kthread_stop`, which a cancel calls, is
made for a thread that has begun and still runs. One that has not begun ends without its
function, so its context stays registered for whoever gets its task; one that is gone
has no task. `stray` records that this happened; the theorems speak of all states until
then, and `ThreadInv` is claimed while it is FALSE.

**UserOsal** (from `CacheConstants` and `UserConstants`): the cache, the times of its
entries, the locks of files, the waits, the tables of shared memory, the clients of
devices, the heap, the atomic word, the log file and the log server, each with an
inductive invariant of its own that TLC finds to hold on the run's instance. A theorem names the specification of each
component it is about.
- *The cache*: `CacheTypes` for any use, and `ReadsAreWhole` for `Freedoms` within
  {"crash"}: the calm use, in which the processes may die at any moment. The
  two halves of an entry differ only while its mutex has a holder, dead or alive, who is
  not reading (`DataInv`); what is mapped is what the name refers to and its mutex is
  in use (`NameInv`, `HolderInv`); what is marked valid was written (`ValidIsWritten`). A
  creation or a deletion under others breaks it (section 6).
- *Times of entries*: `ReadersAreToldRight` (`AnswersInTime`). `FreshInv` says that an
  entry with data has the time it was written, that what a reader was told is what it would
  be told again (a clock that ticks or a write clears it), and that the statistics are those
  of this moment; the fresh and the stale entries are apart and together all with data, so
  their numbers add up. Nothing is assumed of the width of an age: an entry whose age no
  longer fits it may be FRESH again, as `FreshIsInTime` says, and one that was invalidated
  may be STALE or, as it happens, FRESH (section 6).
- *Locks of files*: the flag and the type in the object are what the kernel has, and an
  exclusive lock is alone (`FlockInv`, which is `Flock!LocksAreTrue` and types): a grant is
  only made when nobody is in the way, and no refusal, change of the lock or death leaves
  one of the two behind. The code takes seconds and nanoseconds apart before it divides, so
  the milliseconds that it finds elapsed are at most one more than those that have passed
  (`DivisionReaches`, `ElapsedReaches`): a lock is not given up a whole millisecond early.
- *Waits*: a deadline of a wait under way is the time of day it should end at, in seconds
  and nanoseconds that are fewer than a second has (`DeadlineIsDue`, with the carry that
  each of the three functions has of its own), and who waits is where it may (`WaitInv`).
  `OverIsLater`: the clock is past a pair only when it is past the time the pair stands for.
  While nobody sets the time of day (`Settings` is empty); else see section 6.
- These two give `LocksTellTheTruth` (`LocksAreTrue`) and `TimeoutsAreTrue`
  (`TimeoutsAreLate`).
- *Tables of shared memory*: the handles a process has got are as many entries of its table
  with as many descriptors, each leading to its object (`HandlesAreGood`), and a call under
  way has a descriptor or an entry that no handle has (`CallsAreGood`), so that every open
  descriptor is a handle's or a call's. Its hypothesis `OneThreadEach` is that no two threads
  are in one process: the table has no lock, and with two the property is false (section 6).
- *Clients*: a descriptor is one context's or one call's, which is at the place where it has
  one (`FilesAreOwned`), no two devices of a type have one number (`NumbersDiffer`), and a
  call whose device has kept its node knows that device and its number (`CalmStands`).
- The two give `DescriptorsAreOwned` (`DescriptorsExact`): the open descriptors are counted
  by a bijection with the handles, and `HasLowest` is the smallest free one that the
  kernel hands out.
- *Heap*: two threads never own one block, by a pointer or by a call under way, and what
  the allocator has given away is all owned (`OwnersInv`); what a call holds at each of its
  places is sound (`CallIsSound`); the usage is the bytes of the blocks that are counted at
  this moment, or, when `/proc/self/status` can be read, at most the peak (`FiguresInv`).
  `readable`, chosen once, says which of the two systems it is (`ReadsAreReal`): on one where
  the file cannot be read no figure is ever replaced. The hypothesis `MemoryFits` is that
  all blocks together have fewer bytes than the figures can count, so that a sum does not
  wrap (`BytesFit`).
- *Atomic word*: as in the kernel, it is the start value and all additions (`AtomicInv`).
- The two give `FiguresAreRight` (`FiguresExact`).
- *Log file*: with `OneController`, from the end of a shutdown to the next start no path and
  no file is set (`Unset`), whatever rotation is under way, so that an opening never
  overwrites a FILE; a rotation moves each backup to a name at or after its own, in order
  (`ShiftKeeps`), puts the file ahead of them (`BackupKeeps`), and what is opened then is
  the youngest (`OpeningKeeps`), whichever removals and renames failed, and the opening.
- *Log server*: each message under way is counted, and has a number of its own; those kept
  or to be kept are at most as many as the multiples of the rate up to the counter
  (`CountInv`, `QuotientGrows`). The open sockets are the one in use and the one about to be,
  the compiled expressions are the filter, nothing is configured before the log is started,
  and who sends has the socket in use (`ServerInv`). The controller configures a started log,
  and changes the server while nobody logs (section 6 has the rest).
- The two give `LogsAreKept` (`LogIsSound`).

Only model-checked: all liveness (`TransfersComplete`, `CallsReturn`, `CallsEnd`, under
fairness, of which and of ENABLED the prover knows nothing); and what recursive
definitions and folds compute, which takes an induction over data: all of Kconfig, the
loops of checksums, times and copies (`SidesAgree`), and that the bytes of a command of
an MCU on I2C or SPI read as the number that was asked (`CommandsAreHeard` in
`TransfersComplete`).

## 5. What is not modelled, and the plan

Not modelled and why:
- suspend, resume and uevent (one call forwarded); the sysfs attributes (read-only
  prints); formats, colours, log levels of the kernel and console output (wording);
- device tree parsing (external; PdmMatch has its results);
- thin wrappers of the user OSAL (threads, read-write lock, files, sockets,
  terminals, processes, signals), ACONFIG and the applications: one call each, no
  state of their own; kernel strings and errors likewise;
- Kconfig's graphical front ends (`qconf.cc`, `gconf.c`: the operations of
  KconfigMenus on widgets), its lexer, `lxdialog` and drawing, searching, the wording of
  messages about recursive dependencies;
- which value `randconfig` picks: left open, any value may come.

Choices: what a kernel does with a module whose init fails while a file of it is
open is outside the source, so PdmModule opens files of a live module only. In
PdmInstance nobody opens a cdev by number before `device_add` has made its node. In
OsalRemoteLog the controller changes the server while nobody logs and configures
a started log (section 6 has the rest). In ShmCache and ShmTable the calm use is
checked; what a careless one does is in section 6.

Done: all components of section 1 but those above, the runs of section 3, the proofs of
section 4. To come:

1. An abstract specification of discovery (an atomic snapshot) that PdmManager
   implements as long as nothing changes, and of a device file.
2. Suspend and resume beside ioctls, the sysfs attributes.

## 6. Where the code and what is said of it differ

Checked as runs (each ends in a counterexample of the one property named; the
quotations are in `PROJECT.json`):

| run | property | what happens |
|---|---|---|
| thread_unlock | CompleterHasContext | `osal_thread_join` wakes at `complete_all`, frees the context, and the finishing thread unlocks its mutex. |
| sem_exact | QuietValueIsExact | A waiter takes a unit between `up` and the increment; `value` stays one too large. `NeverUnderreports` is what remains true. |
| diag_found | FoundInstanceExists | Diagnostics find an instance without a reference; a remove frees it before it is claimed. |
| led_refused | StateIsShown | A setting the hardware refused through `/proc` or debugfs is kept and reported. Through ioctls it is taken back; `LedStateIsShown` holds with the diagnostic files as the one exception (`astray`). |
| command_data | DataIsWritten | The pointer into a debugfs command stays before its id, so the id is read again as a hexadecimal number and sent as the first byte of the data. `BytesKeepOrder` says what holds of the bytes behind it. |
| log_lifecycle | HandlesExact | With two controllers, an init between the state change and the close of a shutdown loses a FILE. With one controller it holds, rotations included (`LogIsSound`). |

Further ones, stated in the modules and checked by hand: add the property to the
instance named. Where a constant is given, the instance of the run excludes
the case and the changed constant brings it in.

PDM:

| module | property | instance | what happens |
|---|---|---|---|
| PdmBus | VisibleInstancesUnique | MCPdmBus | A device that is being unbound is still visible with a number another has got. |
| PdmBus | ErrorStateHasError | MCPdmBus | The tail of probe clears the error an ioctl has just reported; the state stays ERROR. |
| PdmBus | ProbeErrorExported | MCPdmBus | The error of a failed probe is hidden with the device. |
| PdmManager | ReportedDeviceHasInstance | MCPdmManager | A device unbound between the match and the copy is reported without type and number. |
| PdmManager | ListHoldsSteadyDevices | MCPdmManager | A list misses a device that was there all along, since an unbinding shifted it. |
| McuUart | AnswersOwnCommand | MCDrivers | The answer to a transfer that timed out is taken for the next one's. |
| McuUart | CallbackHasInstance | MCDrivers | The receive callback reads `bus_dev->inst` once to test and once to use it (`pdm_mcu_uart_serdev.c:33`, `37`); the clean-up sets it to NULL in between (`261`), and if the compiler reads twice the callback works on NULL. |
| McuCan | ReceivesResponse, QueryIsAsked | `Can` | Any frame is taken for the answer; version and status requests exceed a frame and are never sent. |
| McuBus | CommandsAreTold | `Serial` | A command is a `__u32`; the default `command-bytes` cuts it to one byte. |
| PdmModule | RootsAreFreed | `Load` | The struct of the debugfs directory that the first driver makes (`pdm_debugfs.c:128`) is never freed: one is left by each load and unload. |
| PdmErrorLog | TotalCountsAll | `History` | The failed requests of an MCU are in `error_count` alone, not in the total since registration. |

OSAL and PDI:

| module | property | instance | what happens |
|---|---|---|---|
| OsalThread | StopsItsTask | kernel_osal | Cancelling a thread that has returned stops a freed task. |
| OsalThread | SelfIsFound, OwnerHandleIsGood, CancelEnds without `stray` | kernel_osal | A thread that is stopped before it ran never signals: cancel waits for ever, and its context stays registered under a task that another thread may get. |
| OsalMutex | OwnerIsNotStuck | `Relocks` TRUE | The type a mutex is asked for is not looked at: a recursive lock hangs. |
| OsalAtomic | FailureTellsWhy | `Kernel` TRUE | A failed exchange reads again and may report the value that was expected. |
| OsalSides | UserMsleepEnough | `Sides` | `osal_msleep` multiplies in 32 bits: above 71 minutes it sleeps too little. |
| OsalSides | SleepsEnough without `missing` | `Sides` | A signal in the last second of the user's `osal_sleep` goes unnoticed, as `sleep()` has no whole second left to report. |
| OsalHeap | AlertIsTrue | `Word` 16 | `usage * 100` is 32 bits wide: above 42.9 MB the alert is wrong. |
| OsalSides | — | — | Of NULL data the kernel's crc32 is 0xFFFFFFFF, the user's 0. |
| UserWait | TimeoutsAreExact | `Settings` {4} | Deadlines are times of day: a clock that is set ends a wait early. |
| OsalFlock | TimeoutsAreExact | `Flock` | The division of the elapsed time may take a millisecond off. |
| ShmCache | ReadIsWhole | `Freedoms` {"create"} | A second create clears a cache in use, its locked mutex included. |
| ShmCache | MutexIsReleased | `Freedoms` {"crash"} | The mutex is not robust: it stays locked when its owner dies. |
| ShmFreshness | FreshIsInTime without `AgeWord` | `Fresh` | Ages are truncated to 32 bits: after 49.7 days data is FRESH again. |
| ShmFreshness | InvalidatedIsNotFresh | `Fresh` | A reader is told FRESH after an invalidation, which says that it marks the entry STALE (`osal_shm_cache.h:111-112`): a read goes by the age alone. `StaleIsLate` admits both. |
| ShmTable | MapsWhole | `Sizes` {1, 2} | With length 0 what is mapped is what the creation was told, not what there is. |
| ShmTable | HandlesLeadHome | two threads of one process; `Careless` TRUE | The table has no lock, and a handle never given closes descriptor 0. |
| OsalLog | OnlyFullRotated | `Log` | Two threads that saw one full file both rotate. |
| OsalLog | AllBackupsKept | `Log` | At most max-1 backups are kept. |
| OsalRemoteLog | SentToServer | `Busy` TRUE | A message is sent to a descriptor that is another file's by then (`osal_log.c:544`). |
| OsalRemoteLog | ConfigurationIsOwned | `Eager` TRUE | What is configured before the start is cleared by it without being freed (`osal_log.c:118-130`). |
| PdiClient | OpensNamedDevice | two MCUs | An open by name may open the node of another device that has got the number (`user/pdi/README.md:26-27`). |

Kconfig:

| module | property | instance | what happens |
|---|---|---|---|
| KconfigMenu | ValueIsKept without `Misread` | `Simplify` | Of a bool, `A != y` becomes a negation whose operand is a symbol taken for an expression (`expr.c:649`: `left.expr` of a comparison is its `left.sym`), where the comment at line 573 says `A!=y -> !A`. |
| KconfigMenu | ComparisonIsExact for any `state` | `Simplify` | `expr_trans_compare` leaves and, or and negations out when it compares with m, and does not mind m when it compares with n. Its callers compare with n (`menu.c:140`, `421`, `444`). |
| KconfigSymbol | UnmetIsNotWritten | `Choosing` | A choice goes by a visibility from before: a member whose dependencies are not met is written (`tests/no_write_if_dep_unmet/__init__.py:5` says it is not). |
| KconfigSync | AutoMarksCompletion | `Sync` | auto.conf is written last to mark completion (`confdata.c:1108-1112`), but make looks at `gen_autoconf.h` (`Makefile:371`), which is written before: an interruption between the two leaves an old auto.conf that is taken for current. `CurrentIsRight` holds all the same. |
| KconfigSync | OnlyAffectedAreCompiled | `Sync` | Objects that a change does not affect are compiled again (`fixdep.c:36-38`). |
| KconfigPreprocess | NothingFreedIsUsed | `Preprocess` | `X := $(X)` expands a value that was freed (`preprocess.c:283-326`). |
| KconfigMenus | QuietExitIsSaved | a missing file to load | After the failed load nothing counts as changed, and the program ends without a question (`confdata.c:493`). |
| KconfigMenus | AllIsCurrent | nconf, show all | A value is read before it is calculated (`nconf.c:838-850`). |
| KconfigMenus | EscapeContinues | `signals` TRUE | After SIGINT an escape in the question ends the program (`mconf.c:886`). |

Read beside the models and not stated as properties: an undefined name of the
environment is not recorded (`preprocess.c:82`), so defining it later does not make the
files be read again (`EnvironmentIsRecorded` says "of those that are set");
`conf_choice` and `conf_string` go on asking at the end of input
(`conf.c:323-354`, `423-507`); `conf_write` does not look at the errors of its
prints, and a kill between its two renames leaves no `.config`;
`menu_finalize` joins `dir_dep` with an `expr_alloc_or(NULL, …)` for the first entry of a
symbol (`menu.c:464-474`); ranges that name each other are not a recursive
dependency; `child_count` of mconf is not reset; `pdm_driver_show` reads
`dev->driver` twice (`pdm_sysfs.c:95`).

`osal_cond_signal` calls `wake_up_interruptible`, which wakes every waiter that is not
exclusive, and none is; each looks at the generation for itself. OsalCond has it
so: signal and broadcast are one action.
