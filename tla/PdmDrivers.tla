------------------------------ MODULE PdmDrivers ------------------------------
(***************************************************************************)
(* What is proved of the parts of pdm.ko beside its bus and the instances of   *)
(* its drivers, for any devices, nodes, drivers, backends and lengths: the     *)
(* transports of an MCU on a UART, which this module extends, on CAN and on     *)
(* I2C and SPI (McuCan, McuBus), an LED (PdmLed), the load and unload of the     *)
(* module (PdmModule), how devices and drivers find each other (PdmMatch), and   *)
(* what the diagnostics tell (PdmCommand, PdmErrorLog).  No two of them share    *)
(* state, so a theorem names the specification of each it is about; their steps  *)
(* may come in any order or together.                                        *)
(***************************************************************************)
EXTENDS McuUart, FiniteSets, SequenceTheorems, FiniteSetTheorems, TLAPS

CONSTANTS
  CanMcus, MaxDlen, IndexLen, QueryLen, CanTransfer, QueueSize, MaxRequests,
  Strangers,                                   (* the MCUs of a CAN bus        *)
  Clients, ClientType, BusMcus, Base, Prefixes, MaxPrefix, BusTransfer,
  MaxCommand, NoOne,                           (* those on I2C and SPI         *)
  MaxLevel,                                    (* an LED                       *)
  Backends, Enumerating, Drivers, BusDevices, Enumerator, DriverOf,
  MaxLoads,                                    (* load and unload              *)
  Nodes, Children, Bus, Compatible, Name, PdmId, Second, Half, Ids,  (* the match  *)
  Leds, Mcus, Verbs, Numbers, MaxWords, MaxBytes, WriteMax, MaxMoves,    (* the files *)
  RingSize, Errors, Kinds, MaxErrors           (* the ring of errors           *)

VARIABLES
  canStage, refs, canPc, number, canWant, query, canGot, queue, canDue,
  canClean, strangers,
  device, back, bound, client, prefix, heard, said,
  place, backend, stored, held, light, astray,
  loadPc, entry, up, proc, debug, procUsers, procRoot, debugUsers, debugRoot,
  roots, devices, served, files, loads,
  drivers, offers, tree, child, auto, named, requested, match,
  line, request, ledAt, list, ledCount, moves, row, limit, rows, calm,
  errors, writeIndex, lastError, errorCount, totalCount, state, runs

canVars == <<canStage, refs, canPc, number, canWant, query, canGot, queue, canDue,
             canClean, strangers>>
busVars == <<device, back, bound, client, prefix, heard, said>>
ledVars == <<place, backend, stored, held, light, astray>>
loadVars == <<loadPc, entry, up, proc, debug, procUsers, procRoot, debugUsers, debugRoot,
              roots, devices, served, files, loads>>
matchVars == <<drivers, offers, tree, child, auto, named, requested, match>>
textVars == <<line, request, ledAt, list, ledCount, moves, row, limit, rows, calm>>
errorVars == <<errors, writeIndex, lastError, errorCount, totalCount, state, runs>>

Can == INSTANCE McuCan WITH
  Instances <- CanMcus, MaxTransfer <- CanTransfer,
  stage <- canStage, pc <- canPc, want <- canWant, got <- canGot, due <- canDue,
  clean <- canClean

Serial == INSTANCE McuBus WITH
  Type <- ClientType, Instances <- BusMcus, MaxTransfer <- BusTransfer, None <- NoOne

Led == INSTANCE PdmLed

Load == INSTANCE PdmModule WITH Devices <- BusDevices, pc <- loadPc, k <- entry,
  bound <- served

Tree == INSTANCE PdmMatch WITH device <- named, bound <- match

Text == INSTANCE PdmCommand WITH count <- ledCount

History == INSTANCE PdmErrorLog WITH Size <- RingSize

ASSUME DriverConstants ==
  /\ Can!CanAssumption /\ Serial!BusAssumption
  /\ Led!LedAssumption
  /\ Load!ModuleAssumption /\ Tree!MatchAssumption
  /\ Text!CommandAssumption /\ History!ErrorLogAssumption

(* On a line where every answer has come whole and in time each transfer     *)
(* reads its own, on a UART (pdm_mcu_uart_cmd_xfer) and on a CAN bus on which   *)
(* nobody else has sent meanwhile (pdm_mcu_can_cmd_xfer); a transport that is   *)
(* set up again has nothing left of what went wrong before; and on I2C and SPI  *)
(* a request is heard whole or not at all (pdm_mcu_i2c_cmd_xfer).             *)
CleanAnswers ==
  /\ CleanLineAnswers
  /\ Can!CleanBusAnswers
  /\ Serial!RequestsAreWhole

(* What PDM_LED_IOC_GET_STATE reports of a bound LED is what the hardware     *)
(* shows, also after an ioctl the hardware refused.  The one exception is an    *)
(* LED on a PWM that refused the setting of a file of /proc or debugfs and has   *)
(* taken none since: those keep what was refused (pdm_led_diag.c).            *)
LedStateIsShown == Led!StateIsShownUnlessAstray

(* What a part takes from another subsystem it gives back, whichever step      *)
(* failed: a network device is held once by each CAN transport on it that is    *)
(* set up (pdm_mcu_can_setup, _cleanup); without an instance nothing holds the  *)
(* GPIO or the PWM of an LED (pdm_led_probe, pdm_led_remove); a device on I2C   *)
(* or SPI and its instance know each other and nobody else; the children of    *)
(* the PDM bus node come all or not at all (pdm_of_bus_probe); and a module    *)
(* that is out has left nothing behind (pdm_init, pdm_exit) but one struct of    *)
(* the debugfs directory for each load, which nothing frees (pdm_debugfs.c:128).  *)
FailuresGiveBack ==
  /\ Can!NetdevRefsExact
  /\ Led!ReleasedWhenUnbound
  /\ Serial!LinksAgree
  /\ Tree!TreeIsWhole
  /\ Load!NothingStays

(* What is on the bus stands on what it uses, at every moment of a load, a      *)
(* failed load and an unload; and the directories the drivers share are there   *)
(* as long as an entry is (pdm.c, pdm_proc.c, pdm_debugfs.c).                  *)
Grounded == Load!Grounded /\ Load!DirectoriesShared

(* Whatever comes first, driver or device, one that is bound has the driver its *)
(* compatible names, the transport of its bus and the number its node asks for  *)
(* (pdm_mcu_match, pdm_led_match, pdm_of_bus_probe).                          *)
ServedAsDescribed == Tree!ServedAsDescribed

(* The diagnostics tell what is: the bytes of a command reach the MCU in their   *)
(* order, a list during which no LED came or went has each of them once, and     *)
(* the ring has the last errors and how often each came (pdm_mcu_debugfs_write,  *)
(* pdm_led_proc_show, pdm_device_record_error_type).                          *)
DiagnosticsTell ==
  /\ Text!BytesKeepOrder
  /\ Text!CalmListIsExact
  /\ History!RingIsRecent
-------------------------------------------------------------------------------
(* The inductive invariants.                                                  *)

(* A transport that is not open has nothing under way; and a clean one has       *)
(* nothing queued or due but, while it waits, the answer to its last request.     *)
CanStageInv ==
  /\ \A i \in CanMcus : canStage[i] # "open" => canPc[i] = "idle" /\ queue[i] = <<>>
  /\ \A i \in CanMcus : canPc[i] # "idle" => number[i] > 0

CleanMcu(i) ==
  IF canPc[i] = "receive"
  THEN \/ queue[i] = <<>> /\ canDue[i] \subseteq {number[i]}
       \/ Len(queue[i]) = 1 /\ queue[i][1].to = <<i, number[i]>> /\ canDue[i] = {}
  ELSE queue[i] = <<>> /\ canDue[i] = {}

CanCleanInv ==
  \A i \in CanMcus : canClean[i] /\ canPc[i] # "failed" => CleanMcu(i)

CanInv ==
  /\ Can!TypeOK /\ CanStageInv /\ CanCleanInv
  /\ Can!NetdevRefsExact /\ Can!CleanBusAnswers

(* A device that is bound and its instance point at each other.                *)
BusTypes ==
  /\ device \in [Clients -> BOOLEAN]
  /\ back \in [Clients -> BusMcus \cup {NoOne}]
  /\ bound \in [Clients -> BusMcus \cup {NoOne}]
  /\ client \in [BusMcus -> Clients \cup {NoOne}]
  /\ prefix \in [BusMcus -> Nat]

BusLinks ==
  /\ BusTypes
  /\ Serial!LinksAgree
  /\ \A c \in Clients : bound[c] # NoOne => client[bound[c]] = c

BusInv == BusLinks /\ Serial!RequestsAreWhole

(* The hardware shows what is stored once it has been applied, until a PWM       *)
(* refuses the setting of a diagnostic file.                                  *)
LedInv ==
  /\ Led!TypeOK
  /\ place \in {"absent", "configured"} => ~held /\ (backend = "gpio" => light = 0)
  /\ place = "applied" => light = Led!Shown(stored)
  /\ place = "bound" /\ (astray => backend # "pwm") => light = Led!Shown(stored)

(* Where a load or an unload is says what of the core is registered, ...         *)
Rising == {"bus", "of", "misc", "chrdev", "class"}

CoreUp(at) ==
  CASE at = "out" -> {}
    [] at \in {"bus", "err_id"} -> {"ids"}
    [] at \in {"of", "of_failed", "bus_unregister"} -> {"ids", "bus"}
    [] at \in {"misc", "err_bus"} -> {"ids", "bus", "of"}
    [] at \in {"chrdev", "cdev_err_manager", "cdev_misc"} -> {"ids", "bus", "of", "misc"}
    [] at \in {"class", "cdev_err_chrdev", "cdev_chrdev"} ->
         {"ids", "bus", "of", "misc", "chrdev"}
    [] OTHER -> {"ids", "bus", "of", "misc", "chrdev", "class"}

(* ... and how many of the backends and of the drivers.                         *)
InDriver == {"driver", "proc", "debug", "driver_failed"}
Complete == {"mock", "live"}

BackendsUp(at, n) ==
  CASE at = "backends" -> n - 1
    [] at \in Load!Undoing -> n
    [] at \in InDriver \cup {"undo_drivers", "err_drivers"} \cup Complete ->
         Len(Backends)
    [] OTHER -> 0

DriversUp(at, n) ==
  CASE at = "driver" -> n - 1
    [] at \in {"proc", "debug", "driver_failed"} \cup Load!Leaving -> n
    [] at \in Complete \cup {"exit_backends"} -> Len(Drivers)
    [] OTHER -> 0

(* The entries in the proc directory, and those that may be in debugfs.          *)
ProcUp(at, n) ==
  IF at \in {"proc", "driver_failed"} THEN n - 1 ELSE DriversUp(at, n)
DebugUp(at, n) == IF at = "debug" THEN n - 1 ELSE ProcUp(at, n)

First(s, n) == {s[j] : j \in 1..n}

Standing(at, n) ==
  CoreUp(at) \cup (Enumerating \cap First(Backends, BackendsUp(at, n)))
    \cup First(Drivers, DriversUp(at, n))

PlaceInv ==
  /\ loadPc \in Rising => entry = 1
  /\ loadPc = "backends" => entry \in 1..Len(Backends) + 1
  /\ loadPc = "driver" => entry \in 1..Len(Drivers) + 1
  /\ loadPc \in InDriver \ {"driver"} => entry \in 1..Len(Drivers)
  /\ loadPc \in Load!Undoing => entry \in 0..Len(Backends)
  /\ loadPc \in Load!Leaving => entry \in 0..Len(Drivers)

EntryInv ==
  /\ proc = First(Drivers, ProcUp(loadPc, entry))
  /\ debug \subseteq First(Drivers, DebugUp(loadPc, entry))
  /\ IsFiniteSet(proc) /\ IsFiniteSet(debug)
  /\ Load!DirectoriesShared

DeviceInv ==
  /\ served \subseteq devices /\ devices \subseteq BusDevices
  /\ \A d \in devices :
       IF Enumerator[d] = "mock" THEN loadPc = "live" ELSE Enumerator[d] \in Standing(loadPc, entry)
  /\ \A d \in served : DriverOf[d] \in Standing(loadPc, entry)

LoadInv ==
  /\ up = [r \in Load!Parts |-> IF r \in Standing(loadPc, entry) THEN 1 ELSE 0]
  /\ PlaceInv /\ EntryInv /\ DeviceInv

(* A load whose struct of the debugfs directory is not made yet has one to spare.  *)
RootsInv ==
  /\ roots \in Nat /\ loads \in Nat /\ roots <= loads
  /\ debugRoot = "absent" /\ loadPc # "out" => roots < loads

(* A device has the name of its node; the children up to the one the walk is at   *)
(* have been made; and who is bound was matched.                               *)
TreeTypes ==
  /\ drivers \subseteq {"mcu", "led"} /\ offers \subseteq drivers \X Nodes
  /\ tree \in {"away", "probing", "there", "failed"}
  /\ child \in 1..Len(Children) + 1
  /\ requested \in [Nodes -> Int]
  /\ DOMAIN named = Nodes /\ DOMAIN match = Nodes

NameInv ==
  /\ \A n \in Nodes : named[n] # <<>> =>
       /\ Tree!CompatibleOf(n) # "none"
       /\ named[n][2] \in IF Bus[n] = "of" THEN {"id", "auto"} ELSE {n}
  /\ \A m, n \in Nodes : m # n /\ named[m] # <<>> => named[m] # named[n]

WalkInv ==
  /\ tree \in {"away", "failed"} => \A n \in Tree!OfDevices : named[n] = <<>>
  /\ tree = "probing" =>
       \A j \in DOMAIN Children :
         (named[Children[j]] # <<>>) <=> (j < child /\ Compatible[Children[j]] # "none")
  /\ tree = "there" =>
       \A n \in Tree!OfDevices : (named[n] # <<>>) <=> (Compatible[n] # "none")

ServeInv ==
  /\ \A n \in Nodes : match[n] # Tree!NoDriver =>
       /\ named[n] # <<>> /\ match[n].driver \in drivers
       /\ Tree!Matches(match[n].driver, n)
       /\ match[n].backend \in Tree!McuTransports => Tree!SetupFits(n, match[n].backend)
       /\ requested[n] < 0 \/ requested[n] = match[n].id
  /\ \A m, n \in Nodes :
       m # n /\ match[m] # Tree!NoDriver /\ match[n] # Tree!NoDriver =>
         match[m].driver # match[n].driver \/ match[m].id # match[n].id

TreeInv == TreeTypes /\ NameInv /\ WalkInv /\ ServeInv

(* The count is that of the LEDs that have been counted, the list is as long as  *)
(* there are LEDs on it; and while none moves the rows are those of the list.     *)
LedsAt(places) == {led \in Leds : ledAt[led] \in places}
Counted == LedsAt({"counted", "listed"})
OnList == LedsAt({"listed", "leaving", "cleared"})

ListInv ==
  /\ ledAt \in [Leds -> {"out", "counted", "listed", "leaving", "cleared"}]
  /\ list \in Seq(Leds) /\ row \in Nat /\ limit \in Nat
  /\ IsFiniteSet(Counted) /\ ledCount = Cardinality(Counted)
  /\ IsFiniteSet(OnList) /\ Len(list) = Cardinality(OnList)
  /\ calm /\ row > 0 =>
       /\ Text!Settled
       /\ limit = Len(list) /\ row <= limit + 1 /\ rows = SubSeq(list, 1, row - 1)

TextInv == ListInv /\ Text!BytesKeepOrder

(* The ring goes back from its last error.                                     *)
RingInv ==
  /\ writeIndex \in 0..RingSize - 1
  /\ runs \in Seq([code : Errors, kind : Kinds, count : Nat])
  /\ DOMAIN errors = 0..RingSize - 1
  /\ History!RingIsRecent
-------------------------------------------------------------------------------
(* Why the stream is unbroken: the answers under way are whole, each newer *)
(* than the one before and than what the line has, which ends with the end *)
(* of an answer while the port is open.                                    *)

(* The transfer a whole answer is for.                                     *)
XferOf(answer) == answer[1][1]

Past(xfer) == xfer <= cur /\ (pc = "write" => xfer < cur)

DueInv ==
  /\ \A i \in 1..Len(due) :
       /\ due[i] # <<>>
       /\ due[i] = Response(XferOf(due[i]), Len(due[i]))
       /\ Past(XferOf(due[i]))
  /\ \A i, j \in 1..Len(due) : i < j => XferOf(due[i]) < XferOf(due[j])

StreamInv ==
  /\ Unbroken(Stream)
  /\ \A k \in 1..Len(Stream) : Past(Stream[k][1])
  /\ stage # "closed" /\ Stream # <<>> =>
       LET last == Stream[Len(Stream)] IN
         /\ last[2] = last[3]
         /\ \A i \in 1..Len(due) : last[1] < XferOf(due[i])

PortInv ==
  /\ stage # "open" => pc = "idle"
  /\ stage = "closed" => wire = <<>> /\ receiving = "no"
  /\ pc \in {"idle", "write"} => got = <<>>
  /\ pc # "idle" => cur > 0

(* On a clean line nothing is under way between two transfers, and nothing *)
(* but the answer to its own command during one.                           *)
CleanInv ==
  clean /\ stage = "open" =>
    IF pc \in {"idle", "write"} THEN Stream = <<>> /\ due = <<>>
    ELSE \/ due = <<>> /\ Stream \in {<<>>, Response(cur, want)}
         \/ due = <<Response(cur, want)>> /\ Stream = <<>>

UartInv == UartTypeOK /\ PortInv /\ DueInv /\ StreamInv /\ CleanInv
-------------------------------------------------------------------------------
(* Streams: what is put together of unbroken parts, and the parts of one.  *)

LEMMA PartsUnbroken ==
  ASSUME NEW s \in Seq(Bytes), NEW t \in Seq(Bytes), Unbroken(s \o t)
  PROVE  Unbroken(s) /\ Unbroken(t)
<1> PICK m \in Nat : m = Len(s)
  OBVIOUS
<1> PICK n \in Nat : n = Len(t)
  OBVIOUS
<1>1. Len(s \o t) = m + n
  OBVIOUS
<1>2. \A k \in 1..m : (s \o t)[k] = s[k]
  OBVIOUS
<1>3. \A k \in 1..n : (s \o t)[m + k] = t[k]
  OBVIOUS
<1>4. ASSUME NEW k \in 1..m - 1  PROVE  Follows(s[k], s[k + 1])
  <2>1. k \in 1..m + n - 1 /\ k \in 1..m /\ k + 1 \in 1..m
    OBVIOUS
  <2> QED
    BY <2>1, <1>1, <1>2 DEF Unbroken
<1>5. ASSUME NEW k \in 1..n - 1  PROVE  Follows(t[k], t[k + 1])
  <2>1. m + k \in 1..m + n - 1 /\ k \in 1..n /\ k + 1 \in 1..n
    OBVIOUS
  <2>2. (s \o t)[m + k] = t[k] /\ (s \o t)[(m + k) + 1] = t[k + 1]
    <3>1. (m + k) + 1 = m + (k + 1)
      OBVIOUS
    <3> QED
      BY <2>1, <3>1, <1>3
  <2>3. Follows((s \o t)[m + k], (s \o t)[(m + k) + 1])
    BY <2>1, <1>1 DEF Unbroken
  <2> QED
    BY <2>2, <2>3
<1> QED
  BY <1>4, <1>5 DEF Unbroken

LEMMA JoinUnbroken ==
  ASSUME NEW s \in Seq(Bytes), NEW t \in Seq(Bytes),
         Unbroken(s), Unbroken(t), t # <<>>,
         s # <<>> => Follows(s[Len(s)], t[1])
  PROVE  Unbroken(s \o t)
<1> PICK m \in Nat : m = Len(s)
  OBVIOUS
<1> PICK n \in Nat : n = Len(t)
  OBVIOUS
<1>1. Len(s \o t) = m + n /\ n > 0 /\ (m > 0 => s # <<>>)
  OBVIOUS
<1>2. \A k \in 1..m : (s \o t)[k] = s[k]
  OBVIOUS
<1>3. \A k \in 1..n : (s \o t)[m + k] = t[k]
  OBVIOUS
<1> SUFFICES ASSUME NEW k \in 1..m + n - 1
             PROVE  Follows((s \o t)[k], (s \o t)[k + 1])
  BY <1>1 DEF Unbroken
<1>4. CASE k < m
  <2>1. k \in 1..m - 1 /\ k \in 1..m /\ k + 1 \in 1..m
    BY <1>4
  <2> QED
    BY <2>1, <1>2 DEF Unbroken
<1>5. CASE k = m
  <2>1. (s \o t)[m + 1] = t[1] /\ (s \o t)[m] = s[m]
    BY <1>1, <1>2, <1>3, <1>5
  <2> QED
    BY <2>1, <1>1, <1>5
<1>6. CASE k > m
  <2> PICK j \in 1..n - 1 : k = m + j
    <3>1. k - m \in 1..n - 1 /\ k = m + (k - m)
      BY <1>6
    <3> QED
      BY <3>1
  <2>1. j \in 1..n /\ j + 1 \in 1..n /\ k + 1 = m + (j + 1)
    OBVIOUS
  <2> QED
    BY <2>1, <1>3 DEF Unbroken
<1> QED
  BY <1>4, <1>5, <1>6

LEMMA BytesAssociate ==
  ASSUME NEW s \in Seq(Bytes), NEW t \in Seq(Bytes), NEW u \in Seq(Bytes)
  PROVE  (s \o t) \o u = s \o (t \o u)
BY ConcatAssociative

(* What is taken from the front of t and put behind s moves, no more.      *)
LEMMA FrontMoves ==
  ASSUME NEW s \in Seq(Bytes), NEW t \in Seq(Bytes), NEW n \in 0..Len(t)
  PROVE  /\ SubSeq(t, 1, n) \in Seq(Bytes) /\ Len(SubSeq(t, 1, n)) = n
         /\ Drop(t, n) \in Seq(Bytes)
         /\ SubSeq(t, 1, n) \o Drop(t, n) = t
         /\ (s \o SubSeq(t, 1, n)) \o Drop(t, n) = s \o t
<1>1. \A k \in 1..n : t[k] \in Bytes
  OBVIOUS
<1>2. \A k \in n + 1..Len(t) : t[k] \in Bytes
  OBVIOUS
<1>3. SubSeq(t, 1, n) \in Seq(Bytes) /\ Len(SubSeq(t, 1, n)) = n
  BY <1>1, SubSeqProperties
<1>4. Drop(t, n) \in Seq(Bytes)
  BY <1>2, SubSeqProperties DEF Drop
<1>5. SubSeq(t, 1, n) \o Drop(t, n) = t
  <2>1. /\ 1 \in 1..Len(t) + 1 /\ n \in 1 - 1..Len(t)
        /\ Len(t) \in n..Len(t)
    OBVIOUS
  <2>2. SubSeq(t, 1, n) \o SubSeq(t, n + 1, Len(t)) = SubSeq(t, 1, Len(t))
    BY <2>1, ConcatAdjacentSubSeq
  <2> QED
    BY <2>2, SubSeqFull DEF Drop
<1>6. (s \o SubSeq(t, 1, n)) \o Drop(t, n) = s \o (SubSeq(t, 1, n) \o Drop(t, n))
  <2> DEFINE front == SubSeq(t, 1, n)
  <2> DEFINE rest == Drop(t, n)
  <2>1. front \in Seq(Bytes) /\ rest \in Seq(Bytes)
    BY <1>3, <1>4
  <2> HIDE DEF front, rest
  <2>2. (s \o front) \o rest = s \o (front \o rest)
    BY <2>1, BytesAssociate, Zenon
  <2> QED
    BY <2>2 DEF front, rest
<1> QED
  BY <1>3, <1>4, <1>5, <1>6

(* A whole answer.                                                         *)
LEMMA ResponseIsWhole ==
  ASSUME NEW x \in 1..MaxXfers, NEW n \in 0..MaxLen
  PROVE  /\ Response(x, n) \in Seq(Bytes) /\ Len(Response(x, n)) = n
         /\ \A k \in 1..n : Response(x, n)[k] = <<x, k, n>>
         /\ Unbroken(Response(x, n))
         /\ n = 0 => Response(x, n) = <<>>
<1> USE UartConstants DEF UartAssumption
<1>1. n \in Nat /\ \A k \in 1..n : <<x, k, n>> \in Bytes
  BY DEF Bytes
<1>2. Response(x, n) \in Seq(Bytes) /\ Len(Response(x, n)) = n
  BY <1>1 DEF Response
<1>3. \A k \in 1..n : Response(x, n)[k] = <<x, k, n>>
  BY DEF Response
<1>4. Unbroken(Response(x, n))
  BY <1>2, <1>3 DEF Unbroken, Follows
<1> QED
  BY <1>2, <1>3, <1>4
-------------------------------------------------------------------------------
LEMMA StreamIsSeq ==
  ASSUME UartTypeOK
  PROVE  /\ Stream \in Seq(Bytes) /\ got \o fifo \in Seq(Bytes)
         /\ Len(Stream) = Len(got) + Len(fifo) + Len(wire)
BY DEF UartTypeOK, Stream

LEMMA InitInv == UartInit => UartInv
<1> SUFFICES ASSUME UartInit  PROVE UartInv
  OBVIOUS
<1> USE UartConstants DEF UartAssumption, UartInit
<1>1. UartTypeOK
  <2>1. <<>> \in Seq(Bytes) /\ <<>> \in Seq(Seq(Bytes)) /\ Len(<<>>) = 0
    BY EmptySeq
  <2>2. 0 \in 0..MaxXfers /\ 0 \in 0..MaxLen /\ 0 <= FifoSize
    OBVIOUS
  <2>3. /\ expired \in BOOLEAN /\ clean \in BOOLEAN
        /\ receiving \in {"no", "looked", "copying", "lost"}
    OBVIOUS
  <2>4. /\ cur \in 0..MaxXfers /\ want \in 0..MaxLen
        /\ got \in Seq(Bytes) /\ Len(got) <= want
        /\ fifo \in Seq(Bytes) /\ Len(fifo) <= FifoSize
        /\ wire \in Seq(Bytes) /\ due \in Seq(Seq(Bytes))
    BY <2>1, <2>2
  <2> QED
    BY <2>3, <2>4 DEF UartTypeOK
<1>2. Stream = <<>>
  BY DEF Stream
<1> QED
  BY <1>1, <1>2 DEF UartInv, PortInv, DueInv, StreamInv, CleanInv, Unbroken

(* A step that leaves the line's contents as they are, or moves bytes along *)
(* it, and neither begins nor ends a transfer.                             *)
LEMMA LineKept ==
  ASSUME UartInv, UNCHANGED <<stage, cur, want, due, clean>>, Stream' = Stream,
         pc' = pc \/ (pc # "idle" /\ pc' \notin {"idle", "write"})
  PROVE  DueInv' /\ StreamInv' /\ CleanInv'
<1>1. DueInv'
  BY DEF UartInv, UartTypeOK, DueInv, Past
<1>2. StreamInv'
  <2>1. \A x : Past(x) => Past(x)'
    BY DEF Past
  <2> QED
    BY <2>1 DEF UartInv, StreamInv
<1>3. CleanInv'
  BY DEF UartInv, CleanInv
<1> QED
  BY <1>1, <1>2, <1>3

(* The thread's steps that copy nothing, and time.                         *)
LEMMA PlainSteps ==
  ASSUME UartInv,
         \/ WriteFails \/ CopyNothing \/ Check \/ Wake \/ WaitTimeout \/ Signal
         \/ Expire \/ Receive \/ Take
  PROVE  UartInv'
<1>1. /\ UNCHANGED <<stage, cur, want, due, clean, got, fifo, wire>>
      /\ pc' = pc \/ (pc # "idle" /\ pc' \notin {"idle", "write"})
      /\ pc' \in {"idle", "write", "copy", "check", "wait", "done", "failed"}
      /\ expired' \in BOOLEAN /\ receiving' \in {"no", "looked", "copying", "lost"}
      /\ receiving' = receiving \/ stage # "closed"
  <2>1. /\ expired \in BOOLEAN /\ receiving \in {"no", "looked", "copying", "lost"}
        /\ Ended \in {"failed", "done"}
        /\ pc \in {"idle", "write", "copy", "check", "wait", "done", "failed"}
    BY DEF UartInv, UartTypeOK, Ended
  <2>2. CASE WriteFails \/ CopyNothing \/ Wake \/ Signal
    BY <2>1, <2>2 DEF WriteFails, CopyNothing, Wake, Signal, Go, readVars, lineVars
  <2>3. CASE Check \/ WaitTimeout
    BY <2>1, <2>3 DEF Check, WaitTimeout, Go, readVars, lineVars
  <2>4. CASE Expire \/ Receive \/ Take
    <3>1. CASE Expire
      BY <2>1, <3>1 DEF Expire, lineVars
    <3>2. CASE Receive
      <4>1. stage = "open" /\ receiving' = "looked"
        BY <3>2 DEF Receive
      <4>2. UNCHANGED <<stage, pc, cur, want, got, expired, fifo, wire, due, clean>>
        BY <3>2 DEF Receive, readVars
      <4> QED
        BY <2>1, <4>1, <4>2
    <3>3. CASE Take
      <4>1. stage # "closed" /\ receiving' \in {"copying", "lost"}
        BY <3>3 DEF Take, UartInv, PortInv
      <4>2. UNCHANGED <<stage, pc, cur, want, got, expired, fifo, wire, due, clean>>
        BY <3>3 DEF Take, readVars
      <4> QED
        BY <2>1, <4>1, <4>2
    <3> QED
      BY <2>4, <3>1, <3>2, <3>3
  <2> QED
    BY <2>2, <2>3, <2>4
<1>2. UartTypeOK'
  BY <1>1 DEF UartInv, UartTypeOK
<1>3. PortInv'
  BY <1>1 DEF UartInv, PortInv
<1>4. Stream' = Stream
  BY <1>1 DEF Stream
<1>5. DueInv' /\ StreamInv' /\ CleanInv'
  BY <1>1, <1>4, LineKept
<1> QED
  BY <1>2, <1>3, <1>5 DEF UartInv

LEMMA CopyStep == UartInv /\ Copy => UartInv'
<1> SUFFICES ASSUME UartInv, Copy  PROVE UartInv'
  OBVIOUS
<1> USE UartConstants DEF UartAssumption
<1> DEFINE n == Lesser(want - Len(got), Len(fifo))
<1>1. /\ got \in Seq(Bytes) /\ fifo \in Seq(Bytes) /\ wire \in Seq(Bytes)
      /\ Len(got) <= want /\ Len(fifo) <= FifoSize /\ want \in Nat
      /\ Len(got) \in Nat /\ Len(fifo) \in Nat
  BY DEF UartInv, UartTypeOK
<1>2. n \in 0..Len(fifo) /\ n <= want - Len(got)
  BY <1>1 DEF Lesser
<1>3. /\ pc = "copy" /\ pc' \in {"done", "copy"}
      /\ got' = got \o SubSeq(fifo, 1, n) /\ fifo' = Drop(fifo, n)
      /\ UNCHANGED <<stage, cur, want, expired, wire, receiving, due, clean>>
  BY DEF Copy
<1> HIDE DEF n
<1>4. /\ SubSeq(fifo, 1, n) \in Seq(Bytes) /\ Len(SubSeq(fifo, 1, n)) = n
      /\ Drop(fifo, n) \in Seq(Bytes)
      /\ SubSeq(fifo, 1, n) \o Drop(fifo, n) = fifo
      /\ got' \o fifo' = got \o fifo
  <2>1. /\ SubSeq(fifo, 1, n) \in Seq(Bytes) /\ Len(SubSeq(fifo, 1, n)) = n
        /\ Drop(fifo, n) \in Seq(Bytes)
        /\ SubSeq(fifo, 1, n) \o Drop(fifo, n) = fifo
        /\ (got \o SubSeq(fifo, 1, n)) \o Drop(fifo, n) = got \o fifo
    BY <1>1, <1>2, FrontMoves
  <2> QED
    BY <2>1, <1>3
<1>5. Len(fifo') <= FifoSize /\ Len(got') <= want' /\ got' \in Seq(Bytes)
  <2>1. Len(SubSeq(fifo, 1, n) \o Drop(fifo, n)) = n + Len(Drop(fifo, n))
    BY <1>4, ConcatProperties
  <2>2. Len(got') = Len(got) + n /\ got' \in Seq(Bytes)
    BY <1>1, <1>3, <1>4, ConcatProperties
  <2>3. Len(Drop(fifo, n)) \in Nat
    BY <1>4
  <2> QED
    BY <2>1, <2>2, <2>3, <1>1, <1>2, <1>3, <1>4
<1>6. UartTypeOK'
  BY <1>3, <1>4, <1>5 DEF UartInv, UartTypeOK
<1>7. PortInv'
  BY <1>3 DEF UartInv, PortInv
<1>8. Stream' = Stream
  BY <1>3, <1>4 DEF Stream
<1>9. DueInv' /\ StreamInv' /\ CleanInv'
  BY <1>3, <1>8, LineKept
<1> QED
  BY <1>6, <1>7, <1>9 DEF UartInv

LEMMA ReceiveStep ==
  ASSUME UartInv, NEW count \in 1..Len(wire), ReceiveCopy(count)
  PROVE  UartInv'
<1> USE UartConstants DEF UartAssumption
<1> DEFINE n == Lesser(count, FifoSize - Len(fifo))
<1>1. /\ got \in Seq(Bytes) /\ fifo \in Seq(Bytes) /\ wire \in Seq(Bytes)
      /\ Len(fifo) <= FifoSize /\ Len(fifo) \in Nat /\ Len(wire) \in Nat
  BY DEF UartInv, UartTypeOK
<1>2. n \in 0..Len(wire) /\ n <= FifoSize - Len(fifo)
  BY <1>1 DEF Lesser
<1>3. /\ receiving = "copying" /\ receiving' = "no"
      /\ fifo' = fifo \o SubSeq(wire, 1, n) /\ wire' = Drop(wire, n)
      /\ UNCHANGED <<stage, pc, cur, want, got, expired, due, clean>>
  BY DEF UartInv, UartTypeOK, ReceiveCopy, readVars
<1> HIDE DEF n
<1>4. /\ SubSeq(wire, 1, n) \in Seq(Bytes) /\ Len(SubSeq(wire, 1, n)) = n
      /\ Drop(wire, n) \in Seq(Bytes)
  BY <1>1, <1>2, FrontMoves
<1>5. fifo' \in Seq(Bytes) /\ Len(fifo') <= FifoSize
  <2>1. Len(fifo') = Len(fifo) + n /\ fifo' \in Seq(Bytes)
    BY <1>1, <1>3, <1>4, ConcatProperties
  <2> QED
    BY <2>1, <1>1, <1>2
<1>6. UartTypeOK'
  BY <1>3, <1>4, <1>5 DEF UartInv, UartTypeOK
<1>7. PortInv'
  BY <1>3 DEF UartInv, PortInv
<1>8. Stream' = Stream
  <2> DEFINE front == SubSeq(wire, 1, n)
  <2> DEFINE there == got \o fifo
  <2>1. front \in Seq(Bytes) /\ there \in Seq(Bytes)
    BY <1>1, <1>4
  <2>2. got \o (fifo \o front) = there \o front
    <3> HIDE DEF front
    <3>1. front \in Seq(Bytes) /\ got \in Seq(Bytes) /\ fifo \in Seq(Bytes)
      BY <1>1, <2>1
    <3>2. (got \o fifo) \o front = got \o (fifo \o front)
      BY <3>1, BytesAssociate, Zenon
    <3> QED
      BY <3>2, Zenon
  <2>3. (there \o front) \o Drop(wire, n) = there \o wire
    <3> HIDE DEF there
    <3> QED
      BY <2>1, <1>1, <1>2, FrontMoves
  <2> QED
    BY <2>2, <2>3, <1>3 DEF Stream
<1>9. DueInv' /\ StreamInv' /\ CleanInv'
  <2>1. UNCHANGED <<stage, cur, want, due, clean>> /\ pc' = pc
    BY <1>3
  <2> QED
    BY <2>1, <1>8, LineKept
<1> QED
  BY <1>6, <1>7, <1>9 DEF UartInv

LEMMA SetupStep == UartInv /\ Setup => UartInv'
<1> SUFFICES ASSUME UartInv, Setup  PROVE UartInv'
  OBVIOUS
<1> USE UartConstants DEF UartAssumption
<1>1. /\ stage = "closed" /\ stage' = "open" /\ fifo' = <<>>
      /\ clean' = (due = <<>>)
      /\ UNCHANGED <<pc, cur, want, got, expired, wire, receiving, due>>
  BY DEF Setup, readVars
<1>2. pc = "idle" /\ got = <<>> /\ wire = <<>> /\ receiving = "no"
  BY <1>1 DEF UartInv, UartTypeOK, PortInv
<1>3. Stream' = <<>>
  BY <1>1, <1>2 DEF Stream
<1>4. UartTypeOK'
  <2>1. <<>> \in Seq(Bytes) /\ Len(<<>>) = 0
    BY EmptySeq
  <2>2. fifo' \in Seq(Bytes) /\ Len(fifo') <= FifoSize /\ clean' \in BOOLEAN
    BY <1>1, <2>1
  <2> QED
    BY <1>1, <2>2 DEF UartInv, UartTypeOK
<1>5. PortInv' /\ DueInv'
  BY <1>1, <1>2 DEF UartInv, PortInv, DueInv, Past
<1>6. StreamInv'
  BY <1>3 DEF StreamInv, Unbroken
<1>7. CleanInv'
  BY <1>1, <1>2, <1>3 DEF CleanInv
<1> QED
  BY <1>4, <1>5, <1>6, <1>7 DEF UartInv

LEMMA DetachStep == UartInv /\ Detach => UartInv'
<1> SUFFICES ASSUME UartInv, Detach  PROVE UartInv'
  OBVIOUS
<1>1. /\ stage = "open" /\ pc = "idle" /\ stage' = "detached"
      /\ UNCHANGED <<pc, cur, want, got, expired, fifo, wire, receiving, due, clean>>
  BY DEF Detach, readVars, lineVars
<1>2. Stream' = Stream
  BY <1>1 DEF Stream
<1>3. UartTypeOK' /\ PortInv' /\ DueInv' /\ CleanInv'
  BY <1>1 DEF UartInv, UartTypeOK, PortInv, DueInv, CleanInv, Past
<1>4. StreamInv'
  BY <1>1, <1>2 DEF UartInv, StreamInv, Past
<1> QED
  BY <1>3, <1>4 DEF UartInv

(* What is left when the tty's bytes are thrown away is the front of what   *)
(* there was.                                                              *)
LEMMA CleanupStep == UartInv /\ Cleanup => UartInv'
<1> SUFFICES ASSUME UartInv, Cleanup  PROVE UartInv'
  OBVIOUS
<1>1. /\ stage = "detached" /\ receiving = "no" /\ stage' = "closed" /\ wire' = <<>>
      /\ UNCHANGED <<pc, cur, want, got, expired, fifo, receiving, due, clean>>
  BY DEF UartInv, UartTypeOK, Cleanup, readVars
<1>2. UartTypeOK'
  <2>1. wire' \in Seq(Bytes)
    BY <1>1, EmptySeq
  <2> QED
    BY <1>1, <2>1 DEF UartInv, UartTypeOK
<1>3. PortInv' /\ DueInv' /\ CleanInv'
  BY <1>1 DEF UartInv, PortInv, DueInv, CleanInv, Past
<1>4. StreamInv'
  <2> DEFINE front == got \o fifo
  <2>1. front \in Seq(Bytes) /\ wire \in Seq(Bytes)
    BY DEF UartInv, UartTypeOK
  <2>2. Stream' = front
    BY <1>1, <2>1 DEF Stream
  <2>3. Stream = front \o wire
    BY DEF Stream
  <2> HIDE DEF front
  <2>4. Unbroken(front)
    BY <2>1, <2>3, PartsUnbroken DEF UartInv, StreamInv
  <2>5. \A n \in 1..Len(front) : n \in 1..Len(front \o wire) /\ (front \o wire)[n] = front[n]
    BY <2>1
  <2>6. \A x : Past(x) => Past(x)'
    BY <1>1 DEF Past
  <2>7. \A n \in 1..Len(front) : Past(front[n][1])
    BY <2>3, <2>5 DEF UartInv, StreamInv
  <2>8. \A n \in 1..Len(Stream') : Past(Stream[n][1])'
    BY <2>2, <2>6, <2>7
  <2> QED
    BY <1>1, <2>2, <2>4, <2>8 DEF StreamInv
<1> QED
  BY <1>2, <1>3, <1>4 DEF UartInv

LEMMA XferStep ==
  ASSUME UartInv, NEW len \in 0..MaxLen, Xfer(len)
  PROVE  UartInv'
<1> USE UartConstants DEF UartAssumption
<1>1. /\ stage = "open" /\ cur < MaxXfers /\ pc = "idle" /\ pc' = "write"
      /\ cur' = cur + 1 /\ want' = len /\ got' = <<>> /\ expired' = FALSE
      /\ UNCHANGED <<stage, fifo, wire, receiving, due, clean>>
  BY DEF Xfer, Go, lineVars
<1>2. got = <<>>
  BY <1>1 DEF UartInv, PortInv
<1>3. UartTypeOK'
  <2>1. got' \in Seq(Bytes) /\ Len(got') <= want'
    BY <1>1, EmptySeq
  <2>2. cur' \in 0..MaxXfers /\ want' \in 0..MaxLen
    BY <1>1 DEF UartInv, UartTypeOK
  <2> QED
    BY <1>1, <2>1, <2>2 DEF UartInv, UartTypeOK
<1>4. PortInv'
  <2>1. cur + 1 > 0
    BY DEF UartInv, UartTypeOK
  <2> QED
    BY <1>1, <2>1 DEF UartInv, PortInv
<1>5. Stream' = Stream
  BY <1>1, <1>2 DEF Stream
<1>6. cur \in Nat
  BY DEF UartInv, UartTypeOK
<1>7. ASSUME NEW x \in Nat, Past(x)  PROVE Past(x)'
  BY <1>1, <1>6, <1>7 DEF Past
<1>8. \A n \in 1..Len(Stream) : Stream[n][1] \in Nat
  <2>1. Stream \in Seq(Bytes)
    BY StreamIsSeq DEF UartInv
  <2>2. \A b \in Bytes : b[1] \in Nat
    BY DEF Bytes
  <2> QED
    BY <2>1, <2>2
<1>9. \A n \in 1..Len(due) : due[n] # <<>> => XferOf(due[n]) \in Nat
  <2>1. due \in Seq(Seq(Bytes))
    BY DEF UartInv, UartTypeOK
  <2>2. \A s \in Seq(Bytes) : s # <<>> => s[1] \in Bytes
    OBVIOUS
  <2>3. \A b \in Bytes : b[1] \in Nat
    BY DEF Bytes
  <2> QED
    BY <2>1, <2>2, <2>3 DEF XferOf
<1>10. DueInv'
  BY <1>1, <1>7, <1>9 DEF UartInv, DueInv
<1>11. StreamInv'
  BY <1>1, <1>5, <1>7, <1>8 DEF UartInv, StreamInv
<1>12. CleanInv'
  BY <1>1, <1>5 DEF UartInv, CleanInv
<1> QED
  BY <1>3, <1>4, <1>10, <1>11, <1>12 DEF UartInv

(* What a whole answer under way is known by.                              *)
LEMMA DueIsWhole ==
  ASSUME UartInv, NEW n \in 1..Len(due)
  PROVE  LET answer == due[n] IN
           /\ answer \in Seq(Bytes) /\ Len(answer) \in 1..MaxLen
           /\ XferOf(answer) \in 1..MaxXfers
           /\ answer = Response(XferOf(answer), Len(answer))
<1> USE UartConstants DEF UartAssumption
<1> DEFINE answer == due[n]
<1>1. answer \in Seq(Bytes) /\ answer # <<>>
  BY DEF UartInv, UartTypeOK, DueInv
<1>2. answer = Response(XferOf(answer), Len(answer))
  BY DEF UartInv, DueInv
<1> HIDE DEF answer
<1>3. answer[1] \in Bytes /\ Len(answer) \in Nat /\ Len(answer) > 0
  BY <1>1
<1>4. XferOf(answer) \in 1..MaxXfers
  BY <1>3 DEF XferOf, Bytes
<1>5. Len(answer) \in 1..MaxLen
  <2>1. answer[1] = <<XferOf(answer), 1, Len(answer)>>
    <3>1. \A x, m : m \in Nat /\ m > 0 => Response(x, m)[1] = <<x, 1, m>>
      BY DEF Response
    <3> QED
      BY <1>2, <1>3, <3>1
  <2> QED
    BY <1>3, <2>1 DEF Bytes
<1> QED
  BY <1>1, <1>2, <1>4, <1>5 DEF answer

LEMMA WriteStep == UartInv /\ Write => UartInv'
<1> SUFFICES ASSUME UartInv, Write  PROVE UartInv'
  OBVIOUS
<1> USE UartConstants DEF UartAssumption
<1>1. /\ pc = "write" /\ pc' = IF want = 0 THEN "done" ELSE "copy"
      /\ due' = IF want = 0 THEN due ELSE Append(due, Response(cur, want))
      /\ UNCHANGED <<stage, cur, want, got, expired, fifo, wire, receiving, clean>>
  BY DEF Write, Go, readVars
<1>2. stage = "open" /\ got = <<>>
  BY <1>1 DEF UartInv, UartTypeOK, PortInv
<1>3. PortInv'
  BY <1>1, <1>2 DEF UartInv, PortInv
<1>4. Stream' = Stream
  BY <1>1 DEF Stream
<1>5. CASE want = 0
  <2>1. UNCHANGED <<stage, cur, want, due, clean>> /\ pc' = "done"
    BY <1>1, <1>5
  <2>2. UartTypeOK'
    BY <1>1, <2>1 DEF UartInv, UartTypeOK
  <2>3. DueInv' /\ StreamInv' /\ CleanInv'
    BY <1>1, <1>4, <2>1, LineKept
  <2> QED
    BY <1>3, <2>2, <2>3 DEF UartInv
<1>6. CASE want # 0
  <2> DEFINE new == Response(cur, want)
  <2>1. /\ cur \in Nat /\ cur <= MaxXfers /\ want \in 1..MaxLen
        /\ due \in Seq(Seq(Bytes)) /\ Len(due) \in Nat
    BY <1>6 DEF UartInv, UartTypeOK
  <2>2. pc' = "copy" /\ due' = Append(due, new)
    BY <1>1, <1>6
  <2>3. /\ new = [k \in 1..want |-> <<cur, k, want>>]
        /\ Len(new) = want /\ new # <<>> /\ XferOf(new) = cur
    <3>1. new = [k \in 1..want |-> <<cur, k, want>>]
      BY DEF Response
    <3>2. Len(new) = want
      BY <2>1, <3>1
    <3>3. new[1] = <<cur, 1, want>> /\ new # <<>>
      <4>1. 1 \in 1..want /\ want # 0
        BY <2>1
      <4> QED
        BY <3>1, <3>2, <4>1
    <3> HIDE DEF new
    <3>4. XferOf(new) = cur
      BY <3>3 DEF XferOf
    <3> QED
      BY <3>1, <3>2, <3>3, <3>4
  <2>4. new = Response(XferOf(new), Len(new))
    BY <2>3
  <2>5. cur \in 1..MaxXfers
    BY <1>1, <2>1 DEF UartInv, PortInv
  <2>6. new \in Seq(Bytes)
    BY <2>1, <2>5, ResponseIsWhole
  <2> HIDE DEF new
  <2>7. /\ Len(due') = Len(due) + 1 /\ due' \in Seq(Seq(Bytes))
        /\ \A n \in 1..Len(due) : due'[n] = due[n]
        /\ due'[Len(due) + 1] = new
    BY <2>1, <2>2, <2>6
  <2>8. UartTypeOK'
    BY <1>1, <2>2, <2>7 DEF UartInv, UartTypeOK
  <2>9. \A x : Past(x) => x < cur /\ Past(x)'
    BY <1>1, <2>2 DEF Past
  <2>10. Past(cur)'
    BY <1>1, <2>1, <2>2 DEF Past
  <2>11. \A n \in 1..Len(due) : Past(XferOf(due[n]))
    BY DEF UartInv, DueInv
  <2>12. DueInv'
    <3>1. ASSUME NEW n \in 1..Len(due')
          PROVE  /\ due'[n] # <<>>
                 /\ due'[n] = Response(XferOf(due'[n]), Len(due'[n]))
                 /\ Past(XferOf(due[n]))'
      <4>1. CASE n = Len(due) + 1
        <5>1. due'[n] = new
          BY <4>1, <2>7
        <5>2. Past(XferOf(due[n]))'
          BY <5>1, <1>1, <2>3, <2>10
        <5> QED
          BY <5>1, <5>2, <2>3, <2>4
      <4>2. CASE n # Len(due) + 1
        <5>1. n \in 1..Len(due)
          BY <4>2, <2>1, <2>7
        <5> QED
          BY <5>1, <2>7, <2>9 DEF UartInv, DueInv
      <4> QED
        BY <4>1, <4>2
    <3>2. ASSUME NEW m \in 1..Len(due'), NEW n \in 1..Len(due'), m < n
          PROVE  XferOf(due'[m]) < XferOf(due'[n])
      <4>1. m \in 1..Len(due)
        BY <3>2, <2>1, <2>7
      <4>2. CASE n = Len(due) + 1
        BY <4>1, <4>2, <2>3, <2>7, <2>9, <2>11
      <4>3. CASE n # Len(due) + 1
        <5>1. n \in 1..Len(due)
          BY <4>3, <2>1, <2>7
        <5> QED
          BY <3>2, <4>1, <5>1, <2>7 DEF UartInv, DueInv
      <4> QED
        BY <4>2, <4>3
    <3> QED
      BY <3>1, <3>2 DEF DueInv
  <2>13. StreamInv'
    <3>1. ASSUME Stream # <<>>
          PROVE  LET last == Stream[Len(Stream)] IN
                   /\ last[2] = last[3]
                   /\ \A n \in 1..Len(due') : last[1] < XferOf(due'[n])
      <4> DEFINE last == Stream[Len(Stream)]
      <4>1. Len(Stream) \in 1..Len(Stream)
        BY <3>1, StreamIsSeq DEF UartInv
      <4>2. last[1] < cur
        BY <4>1, <2>9 DEF UartInv, StreamInv
      <4>3. last[2] = last[3] /\ \A n \in 1..Len(due) : last[1] < XferOf(due[n])
        BY <1>2, <3>1 DEF UartInv, StreamInv
      <4> HIDE DEF last
      <4>4. \A n \in 1..Len(due') : n = Len(due) + 1 \/ n \in 1..Len(due)
        BY <2>1, <2>7
      <4>5. \A n \in 1..Len(due') : last[1] < XferOf(due'[n])
        BY <4>2, <4>3, <4>4, <2>3, <2>7
      <4> QED
        BY <4>3, <4>5 DEF last
    <3>2. \A n \in 1..Len(Stream) : Past(Stream[n][1])
      BY DEF UartInv, StreamInv
    <3>3. Unbroken(Stream)
      BY DEF UartInv, StreamInv
    <3> QED
      BY <1>4, <2>9, <3>1, <3>2, <3>3 DEF StreamInv
  <2>14. CleanInv'
    <3>1. clean => Stream = <<>> /\ due = <<>>
      BY <1>1, <1>2 DEF UartInv, CleanInv
    <3>2. due = <<>> => due' = <<new>>
      BY <2>2
    <3> QED
      BY <1>1, <1>4, <2>2, <3>1, <3>2 DEF CleanInv, new
  <2> QED
    BY <1>3, <2>8, <2>12, <2>13, <2>14 DEF UartInv
<1> QED
  BY <1>5, <1>6

(* What is left when the buffer is with the user is the end of what there   *)
(* was.                                                                    *)
LEMMA ReturnStep == UartInv /\ Return => UartInv'
<1> SUFFICES ASSUME UartInv, Return  PROVE UartInv'
  OBVIOUS
<1> USE UartConstants DEF UartAssumption
<1>1. /\ pc \in {"done", "failed"} /\ pc' = "idle" /\ got' = <<>>
      /\ UNCHANGED <<stage, cur, want, expired, fifo, wire, receiving, due>>
  BY DEF Return, lineVars
<1>2. clean' = (clean /\ pc = "done" /\ Len(got) = want)
  BY DEF Return
<1> DEFINE rest == fifo \o wire
<1>3. got \in Seq(Bytes) /\ fifo \in Seq(Bytes) /\ wire \in Seq(Bytes)
  BY DEF UartInv, UartTypeOK
<1>4. rest \in Seq(Bytes) /\ Len(rest) = Len(fifo) + Len(wire)
  BY <1>3
<1>5. Stream = got \o rest
  BY <1>3, BytesAssociate DEF Stream
<1>6. Stream' = rest
  BY <1>1, <1>3 DEF Stream
<1> HIDE DEF rest
<1>7. UartTypeOK'
  <2>1. got' \in Seq(Bytes) /\ Len(got') = 0
    BY <1>1, EmptySeq
  <2>2. want \in Nat /\ clean' \in BOOLEAN
    BY <1>2 DEF UartInv, UartTypeOK
  <2> QED
    BY <1>1, <2>1, <2>2 DEF UartInv, UartTypeOK
<1>8. PortInv'
  BY <1>1 DEF UartInv, PortInv
<1>9. \A x : Past(x) => Past(x)'
  BY <1>1 DEF Past
<1>10. DueInv'
  BY <1>1, <1>9 DEF UartInv, DueInv
<1>11. StreamInv'
  <2> PICK m \in Nat : m = Len(got)
    BY <1>3
  <2> PICK n \in Nat : n = Len(rest)
    BY <1>4
  <2>1. Unbroken(rest)
    BY <1>3, <1>4, <1>5, PartsUnbroken DEF UartInv, StreamInv
  <2>2. Len(Stream) = m + n /\ \A k \in 1..n : Stream[m + k] = rest[k]
    BY <1>3, <1>4, <1>5
  <2>3. \A k \in 1..n : m + k \in 1..m + n
    OBVIOUS
  <2>4. \A k \in 1..Len(rest) : Past(rest[k][1])
    BY <2>2, <2>3 DEF UartInv, StreamInv
  <2>5. ASSUME stage # "closed", rest # <<>>
        PROVE  LET last == rest[Len(rest)] IN
                 /\ last[2] = last[3]
                 /\ \A k \in 1..Len(due) : last[1] < XferOf(due[k])
    <3>1. n > 0
      BY <1>4, <2>5
    <3>2. Stream # <<>>
      <4>1. m + n > 0
        BY <3>1
      <4> QED
        BY <4>1, <2>2
    <3>3. Stream[Len(Stream)] = rest[Len(rest)]
      BY <2>2, <3>1
    <3> QED
      BY <2>5, <3>2, <3>3 DEF UartInv, StreamInv
  <2> QED
    BY <1>1, <1>6, <1>9, <2>1, <2>4, <2>5 DEF StreamInv
<1>12. CleanInv'
  <2> SUFFICES ASSUME clean, pc = "done", Len(got) = want, stage = "open"
               PROVE  rest = <<>> /\ due = <<>>
    BY <1>1, <1>2, <1>6 DEF CleanInv
  <2>1. /\ cur \in 1..MaxXfers /\ want \in 0..MaxLen
    BY <1>1 DEF UartInv, UartTypeOK, PortInv
  <2>2. Len(Response(cur, want)) = want /\ (want = 0 => Response(cur, want) = <<>>)
    BY <2>1, ResponseIsWhole
  <2>3. \/ due = <<>> /\ Stream \in {<<>>, Response(cur, want)}
        \/ due = <<Response(cur, want)>> /\ Stream = <<>>
    BY DEF UartInv, CleanInv
  <2>4. Len(Stream) = want + Len(rest)
    <3>1. Len(got \o rest) = Len(got) + Len(rest)
      BY <1>3, <1>4, ConcatProperties
    <3> QED
      BY <1>5, <3>1
  <2>5. want \in Nat /\ Len(rest) \in Nat
    BY <1>4, <2>1
  <2>6. Len(Stream) <= want
    BY <2>2, <2>3, <2>5
  <2>7. rest = <<>>
    BY <1>4, <2>4, <2>5, <2>6
  <2>8. due # <<Response(cur, want)>> \/ Stream # <<>>
    <3> SUFFICES ASSUME due = <<Response(cur, want)>>, Stream = <<>>  PROVE FALSE
      OBVIOUS
    <3>1. want = 0
      BY <2>4, <2>5
    <3>2. due[1] = <<>> /\ 1 \in 1..Len(due)
      BY <2>2, <3>1
    <3> QED
      BY <3>2 DEF UartInv, DueInv
  <2> QED
    BY <2>3, <2>7, <2>8
<1> QED
  BY <1>7, <1>8, <1>10, <1>11, <1>12 DEF UartInv

(* The oldest answer under way leaves.                                     *)
LEMMA TailKept ==
  ASSUME UartInv, due # <<>>, due' = Tail(due), pc' = pc, cur' = cur
  PROVE  /\ due' \in Seq(Seq(Bytes)) /\ DueInv'
         /\ \A n \in 1..Len(due') : n + 1 \in 1..Len(due) /\ due'[n] = due[n + 1]
<1>1. due \in Seq(Seq(Bytes))
  BY DEF UartInv, UartTypeOK
<1>2. /\ due' \in Seq(Seq(Bytes)) /\ Len(due) \in Nat
      /\ Len(due') = Len(due) - 1
      /\ \A n \in 1..Len(due') : due'[n] = due[n + 1]
  BY <1>1, HeadTailProperties
<1>3. \A n \in 1..Len(due') : n + 1 \in 1..Len(due)
  BY <1>2
<1>4. \A x : Past(x) => Past(x)'
  BY DEF Past
<1>5. ASSUME NEW n \in 1..Len(due')
      PROVE  /\ due'[n] # <<>>
             /\ due'[n] = Response(XferOf(due'[n]), Len(due'[n]))
             /\ Past(XferOf(due[n]))'
  <2>1. Past(XferOf(due[n + 1])) /\ due[n + 1] # <<>>
        /\ due[n + 1] = Response(XferOf(due[n + 1]), Len(due[n + 1]))
    BY <1>3 DEF UartInv, DueInv
  <2>2. due'[n] = due[n + 1]
    BY <1>2
  <2> QED
    BY <1>4, <2>1, <2>2
<1>6. ASSUME NEW m \in 1..Len(due'), NEW n \in 1..Len(due'), m < n
      PROVE  XferOf(due'[m]) < XferOf(due'[n])
  <2>1. m + 1 < n + 1 /\ m + 1 \in 1..Len(due) /\ n + 1 \in 1..Len(due)
    BY <1>2, <1>3, <1>6
  <2>2. XferOf(due[m + 1]) < XferOf(due[n + 1])
    BY <2>1 DEF UartInv, DueInv
  <2> QED
    BY <1>2, <2>2
<1>7. DueInv'
  BY <1>5, <1>6 DEF DueInv
<1> QED
  BY <1>2, <1>3, <1>7

(* An answer that is lost: nothing came.                                   *)
LEMMA NoReplyStep ==
  ASSUME UartInv, due # <<>>, due' = Tail(due),
         UNCHANGED <<stage, pc, cur, want, got, expired, fifo, wire, receiving, clean>>
  PROVE  UartInv'
<1>1. UartTypeOK' /\ PortInv' /\ DueInv'
  BY TailKept DEF UartInv, UartTypeOK, PortInv
<1>2. Stream' = Stream
  BY DEF Stream
<1>3. StreamInv'
  <2>1. \A x : Past(x) => Past(x)'
    BY DEF Past
  <2>2. \A n \in 1..Len(due') : n + 1 \in 1..Len(due) /\ due'[n] = due[n + 1]
    BY TailKept
  <2> QED
    BY <1>2, <2>1, <2>2 DEF UartInv, StreamInv
<1>4. CleanInv'
  <2>1. due = <<Response(cur, want)>> => due' = <<>>
    OBVIOUS
  <2> QED
    BY <1>2, <2>1 DEF UartInv, CleanInv
<1> QED
  BY <1>1, <1>3, <1>4 DEF UartInv

(* An answer that comes is newer than all that is there.                   *)
LEMMA ReplyComes ==
  ASSUME UartInv, due # <<>>, due' = Tail(due), stage # "closed",
         wire' = wire \o Head(due),
         UNCHANGED <<stage, pc, cur, want, got, expired, fifo, receiving, clean>>
  PROVE  UartInv'
<1> USE UartConstants DEF UartAssumption
<1> DEFINE new == due[1]
<1> DEFINE n == Len(new)
<1> DEFINE x == XferOf(new)
<1>1. due \in Seq(Seq(Bytes)) /\ 1 \in 1..Len(due) /\ Head(due) = new
  BY DEF UartInv, UartTypeOK
<1>2. /\ new \in Seq(Bytes) /\ n \in 1..MaxLen /\ x \in 1..MaxXfers
      /\ new = Response(x, n)
  BY <1>1, DueIsWhole
<1>3. /\ Unbroken(new) /\ \A k \in 1..n : new[k] = <<x, k, n>>
  <2>1. n \in 0..MaxLen
    BY <1>2
  <2>2. Unbroken(Response(x, n)) /\ \A k \in 1..n : Response(x, n)[k] = <<x, k, n>>
    BY <1>2, <2>1, ResponseIsWhole
  <2> QED
    BY <1>2, <2>2
<1>4. Past(x) /\ \A k \in 1..Len(due) : k > 1 => x < XferOf(due[k])
  BY <1>1 DEF UartInv, DueInv
<1>5. /\ got \in Seq(Bytes) /\ fifo \in Seq(Bytes) /\ wire \in Seq(Bytes)
      /\ got \o fifo \in Seq(Bytes) /\ Stream \in Seq(Bytes)
  BY StreamIsSeq DEF UartInv, UartTypeOK
<1>6. clean /\ stage = "open" => due = <<Response(cur, want)>> /\ Stream = <<>>
                               /\ pc \notin {"idle", "write"}
  BY DEF UartInv, CleanInv
<1>7. wire' = wire \o new
  BY <1>1
<1> HIDE DEF new
<1>8. Stream' = Stream \o new
  <2>1. (got \o fifo) \o (wire \o new) = ((got \o fifo) \o wire) \o new
    <3>1. new \in Seq(Bytes) /\ wire \in Seq(Bytes) /\ got \o fifo \in Seq(Bytes)
      BY <1>2, <1>5
    <3>2. ((got \o fifo) \o wire) \o new = (got \o fifo) \o (wire \o new)
      BY <3>1, BytesAssociate, Zenon
    <3> QED
      BY <3>2, Zenon
  <2> QED
    BY <1>7, <2>1 DEF Stream
<1>9. n > 0 /\ n \in Nat /\ new # <<>> /\ new[1] = <<x, 1, n>> /\ new[n] = <<x, n, n>>
  <2>1. n > 0 /\ n \in Nat /\ 1 \in 1..n /\ n \in 1..n
    BY <1>2
  <2>2. new[1] = <<x, 1, n>> /\ new[n] = <<x, n, n>>
    BY <1>3, <2>1
  <2>3. new # <<>>
    BY <2>1
  <2> QED
    BY <2>1, <2>2, <2>3
<1> HIDE DEF n, x
<1>10. UartTypeOK' /\ PortInv' /\ DueInv'
  <2>1. wire' \in Seq(Bytes)
    BY <1>2, <1>5, <1>7, ConcatProperties
  <2> QED
    BY <2>1, TailKept DEF UartInv, UartTypeOK, PortInv
<1>11. StreamInv'
  <2>1. Unbroken(Stream \o new)
    <3>1. Stream # <<>> => Follows(Stream[Len(Stream)], new[1])
      <4> SUFFICES ASSUME Stream # <<>>  PROVE Follows(Stream[Len(Stream)], new[1])
        OBVIOUS
      <4> DEFINE last == Stream[Len(Stream)]
      <4>1. last[2] = last[3] /\ last[1] < x
        BY <1>1 DEF UartInv, StreamInv, x, new
      <4>2. last[1] \in Int
        <5>1. Len(Stream) \in 1..Len(Stream)
          BY <1>5
        <5>2. last \in Bytes
          BY <1>5, <5>1
        <5> QED
          BY <5>2 DEF Bytes
      <4> HIDE DEF last
      <4>3. Follows(last, <<x, 1, n>>)
        BY <1>2, <4>1, <4>2 DEF Follows
      <4> QED
        BY <1>9, <4>3 DEF last
    <3>2. Unbroken(Stream)
      BY DEF UartInv, StreamInv
    <3> QED
      BY <1>2, <1>3, <1>5, <1>9, <3>1, <3>2, JoinUnbroken
  <2> PICK m \in Nat : m = Len(Stream)
    BY <1>5
  <2>2. /\ Len(Stream \o new) = m + n
        /\ \A k \in 1..m : (Stream \o new)[k] = Stream[k]
        /\ \A k \in 1..n : (Stream \o new)[m + k] = new[k]
    BY <1>2, <1>5 DEF n
  <2>3. ASSUME NEW k \in 1..m + n  PROVE Past((Stream \o new)[k][1])
    <3>1. CASE k <= m
      <4>1. k \in 1..m
        BY <3>1
      <4> QED
        BY <2>2, <4>1 DEF UartInv, StreamInv
    <3>2. CASE k > m
      <4>1. k - m \in 1..n /\ k = m + (k - m)
        BY <1>9, <3>2
      <4>2. (Stream \o new)[k] = <<x, k - m, n>>
        BY <1>3, <2>2, <4>1 DEF n, x
      <4> QED
        BY <1>4, <4>2
    <3>3. k <= m \/ k > m
      BY <1>9
    <3> QED
      BY <3>1, <3>2, <3>3, Zenon
  <2>4. \A y : Past(y) => Past(y)'
    BY DEF Past
  <2>5. (Stream \o new)[Len(Stream \o new)] = <<x, n, n>>
    <3>1. n \in 1..n
      BY <1>9
    <3> QED
      BY <1>9, <2>2, <3>1
  <2>6. ASSUME NEW k \in 1..Len(due')  PROVE x < XferOf(due'[k])
    <3>1. k + 1 \in 1..Len(due) /\ due'[k] = due[k + 1]
      BY TailKept
    <3>2. k + 1 > 1
      OBVIOUS
    <3> QED
      BY <1>4, <3>1, <3>2
  <2>7. \A k \in 1..Len(Stream') : Past(Stream[k][1])'
    BY <1>8, <2>2, <2>3, <2>4
  <2> QED
    <3>1. Unbroken(Stream')
      BY <1>8, <2>1
    <3> PICK last : last = Stream'[Len(Stream')]
      OBVIOUS
    <3>2. last = <<x, n, n>>
      BY <1>8, <2>5
    <3>3. last[1] = x /\ last[2] = last[3]
      BY <3>2
    <3>4. \A k \in 1..Len(due') : last[1] < XferOf(due'[k])
      BY <2>6, <3>3
    <3> QED
      BY <2>7, <3>1, <3>3, <3>4 DEF StreamInv, Unbroken
<1>12. CleanInv'
  <2> SUFFICES ASSUME clean, stage = "open"
               PROVE  due' = <<>> /\ Stream' = Response(cur, want)
    BY <1>6 DEF CleanInv
  <2>1. due = <<Response(cur, want)>> /\ Stream = <<>>
    BY <1>6
  <2>2. due' = <<>>
    BY <2>1
  <2>3. new = Response(cur, want)
    BY <2>1 DEF new
  <2>4. Stream \o new = new
    BY <1>2, <2>1
  <2> QED
    BY <1>8, <2>2, <2>3, <2>4
<1> QED
  BY <1>10, <1>11, <1>12 DEF UartInv

LEMMA ReplyStep == UartInv /\ (Reply \/ NoReply) => UartInv'
<1> SUFFICES ASSUME UartInv, Reply \/ NoReply  PROVE UartInv'
  OBVIOUS
<1>1. CASE NoReply \/ (Reply /\ stage = "closed")
  BY <1>1, NoReplyStep DEF Reply, NoReply, readVars
<1>2. CASE Reply /\ stage # "closed"
  BY <1>2, ReplyComes DEF Reply, readVars
<1> QED
  BY <1>1, <1>2
-------------------------------------------------------------------------------
THEOREM UartInvariant == UartSpec => []UartInv
<1>1. ASSUME UartInv, UartNext  PROVE UartInv'
  <2>1. CASE Setup
    BY <1>1, <2>1, SetupStep
  <2>2. CASE Detach
    BY <1>1, <2>2, DetachStep
  <2>3. CASE Cleanup
    BY <1>1, <2>3, CleanupStep
  <2>4. CASE \E len \in 0..MaxLen : Xfer(len)
    BY <1>1, <2>4, XferStep
  <2>5. CASE Write
    BY <1>1, <2>5, WriteStep
  <2>6. CASE Copy
    BY <1>1, <2>6, CopyStep
  <2>7. CASE Return
    BY <1>1, <2>7, ReturnStep
  <2>8. CASE \/ WriteFails \/ CopyNothing \/ Check \/ Wake \/ WaitTimeout \/ Signal
             \/ Expire \/ Receive \/ Take
    BY <1>1, <2>8, PlainSteps
  <2>9. CASE Reply \/ NoReply
    BY <1>1, <2>9, ReplyStep
  <2>10. CASE \E count \in 1..Len(wire) : ReceiveCopy(count)
    BY <1>1, <2>10, ReceiveStep
  <2> QED
    BY <1>1, <2>1, <2>2, <2>3, <2>4, <2>5, <2>6, <2>7, <2>8, <2>9, <2>10
       DEF UartNext, Thread, Line
<1>2. ASSUME UartInv, UNCHANGED uartVars  PROVE UartInv'
  BY <1>2 DEF uartVars, readVars, lineVars, UartInv, UartTypeOK, PortInv, DueInv, StreamInv,
              CleanInv, Past, Stream
<1> QED
  BY <1>1, <1>2, InitInv, PTL DEF UartSpec

(* The state has its types whatever the sizes of fifo and transfers are.     *)
THEOREM UartTypes == UartSpec => []UartTypeOK
<1>1. UartInv => UartTypeOK
  BY DEF UartInv
<1> QED
  BY <1>1, UartInvariant, PTL

(* Between the tty and the user no byte of the MCU is lost, doubled or moved,  *)
(* and no byte reaches an instance after its cleanup.                         *)
THEOREM StreamsAreUnbroken == UartSpec => []StreamUnbroken
<1>1. UartInv => StreamUnbroken
  <2> SUFFICES ASSUME UartInv  PROVE StreamUnbroken
    OBVIOUS
  <2>1. receiving # "no" => stage # "closed"
    BY DEF UartInv, PortInv
  <2> QED
    BY <2>1 DEF UartInv, StreamInv, StreamUnbroken
<1> QED
  BY <1>1, UartInvariant, PTL

(* On a clean line a transfer reads its own answer.                          *)
THEOREM CleanLinesAnswer == UartSpec => []CleanLineAnswers
<1>1. UartInv => CleanLineAnswers
  <2> SUFFICES ASSUME UartInv, clean, pc = "done"
               PROVE  got = SubSeq(Response(cur, want), 1, Len(got))
    BY DEF CleanLineAnswers
  <2>1. stage = "open"
    BY DEF UartInv, PortInv
  <2>2. Stream = <<>> \/ Stream = Response(cur, want)
    BY <2>1 DEF UartInv, CleanInv
  <2> DEFINE rest == fifo \o wire
  <2>3. got \in Seq(Bytes) /\ fifo \in Seq(Bytes) /\ wire \in Seq(Bytes)
        /\ rest \in Seq(Bytes)
    BY DEF UartInv, UartTypeOK
  <2>4. Stream = got \o rest
    BY <2>3, BytesAssociate DEF Stream
  <2> HIDE DEF rest
  <2>5. CASE Stream = <<>>
    <3>1. got = <<>>
      <4>1. Len(got) + Len(rest) = 0
        BY <2>3, <2>4, <2>5, ConcatProperties, EmptySeq
      <4>2. Len(got) \in Nat /\ Len(rest) \in Nat
        BY <2>3
      <4>3. Len(got) = 0
        BY <4>1, <4>2
      <4> QED
        BY <2>3, <4>3
    <3> QED
      BY <3>1, SubSeqEmpty
  <2>6. CASE Stream = Response(cur, want)
    <3>1. SubSeq(got \o rest, 1, Len(got)) = got
      BY <2>3
    <3> QED
      BY <2>4, <2>6, <3>1
  <2> QED
    BY <2>2, <2>5, <2>6
<1> QED
  BY <1>1, UartInvariant, PTL

-------------------------------------------------------------------------------
(* The LED: what is stored fits the type, and what is shown of it the hardware.  *)
Setting == [brightness : Led!Levels, max : Led!Levels, enabled : BOOLEAN]

LEMMA ShownIsLevel ==
  ASSUME NEW s \in Setting, backend \in Led!LedBackends
  PROVE  Led!Shown(s) \in Led!Levels
BY DriverConstants DEF Led!LedAssumption, Setting, Led!Shown, Led!Levels, Led!LedBackends

LEMMA NothingFits ==
  Led!Nothing \in Setting /\ Led!Nothing.brightness <= Led!Nothing.max
BY DriverConstants DEF Led!LedAssumption, Led!Nothing, Setting, Led!Levels

LEMMA BrightFits ==
  ASSUME NEW s \in Setting, NEW level \in 0..s.max, NEW on \in BOOLEAN
  PROVE  LET t == [s EXCEPT !.brightness = level, !.enabled = on]
         IN t \in Setting /\ t.brightness <= t.max
<1> DEFINE t == [s EXCEPT !.brightness = level, !.enabled = on]
<1>1. level \in Led!Levels /\ s.max \in Led!Levels /\ level <= s.max
  BY DriverConstants DEF Led!LedAssumption, Setting, Led!Levels
<1>2. t \in Setting
  BY <1>1 DEF Setting
<1>3. t.brightness = level /\ t.max = s.max
  BY DEF Setting
<1> QED
  BY <1>1, <1>2, <1>3

(* A setting is stored and applied; or it is refused, and then not stored, or       *)
(* stored nevertheless by a diagnostic file.                                 *)
LEMMA LedWith ==
  ASSUME LedInv, NEW s \in Setting, s.brightness <= s.max,
         Led!With(s) \/ Led!DiagWith(s)
  PROVE  LedInv'
<1>1. place = "bound" /\ UNCHANGED <<place, backend, held>>
  BY DEF Led!With, Led!DiagWith
<1>2. \/ stored' = s /\ light' = Led!Shown(s) /\ astray' = FALSE
      \/ backend = "pwm" /\ UNCHANGED <<stored, light, astray>>
      \/ backend = "pwm" /\ stored' = s /\ UNCHANGED light /\ astray' = TRUE
  BY DEF Led!With, Led!DiagWith, Led!CanFail
<1>3. Led!TypeOK'
  BY <1>1, <1>2, ShownIsLevel DEF LedInv, Led!TypeOK, Setting
<1>4. (astray' => backend' # "pwm") => light' = Led!Shown(stored)'
  BY <1>1, <1>2 DEF LedInv, Led!Shown
<1> QED
  BY <1>1, <1>2, <1>3, <1>4 DEF LedInv

(* The requests.                                                             *)
LEMMA LedRequest ==
  ASSUME LedInv,
         \/ Led!SetBrightness \/ Led!SetEnabled
         \/ Led!DiagSet \/ Led!DiagSwitch \/ Led!DiagToggle
  PROVE  LedInv'
<1>1. stored \in Setting /\ stored.brightness \in 0..stored.max
      /\ stored.brightness <= stored.max
  BY DriverConstants DEF LedInv, Led!TypeOK, Setting, Led!Levels, Led!LedAssumption
<1>2. ASSUME NEW level \in 0..stored.max
      PROVE  /\ Led!Bright(level) \in Setting
             /\ Led!Bright(level).brightness <= Led!Bright(level).max
  <2>1. PICK on \in BOOLEAN : on = (stored.enabled \/ level > 0)
    OBVIOUS
  <2>2. Led!Bright(level) = [stored EXCEPT !.brightness = level, !.enabled = on]
    BY <1>1, <2>1 DEF Led!Bright, Setting
  <2> QED
    BY <1>1, <2>2, BrightFits
<1>3. ASSUME NEW on \in BOOLEAN
      PROVE  /\ [stored EXCEPT !.enabled = on] \in Setting
             /\ [stored EXCEPT !.enabled = on].brightness
                  <= [stored EXCEPT !.enabled = on].max
  BY <1>1 DEF Setting
<1>4. (~stored.enabled) \in BOOLEAN
  OBVIOUS
<1>5. CASE Led!SetBrightness \/ Led!DiagSet
  BY <1>2, <1>5, LedWith DEF Led!SetBrightness, Led!DiagSet
<1>6. CASE Led!SetEnabled \/ Led!DiagSwitch
  BY <1>3, <1>6, LedWith DEF Led!SetEnabled, Led!DiagSwitch
<1>7. CASE Led!DiagToggle
  BY <1>3, <1>4, <1>7, LedWith DEF Led!DiagToggle
<1> QED
  BY <1>5, <1>6, <1>7

(* The probe and the remove.                                                 *)
LEMMA LedPlace ==
  ASSUME LedInv,
         \/ Led!ProbeConfigure \/ Led!ProbeSetup \/ Led!ProbeSetupFails
         \/ Led!ProbeApply \/ Led!ProbeFails \/ Led!ProbeDone \/ Led!Remove
  PROVE  LedInv'
<1> USE DriverConstants DEF Led!LedAssumption, LedInv, Led!TypeOK, Led!Levels
<1>1. CASE Led!ProbeConfigure
  <2>1. PICK max \in Led!Levels \ {0}, level \in Led!Levels,
             mode \in {"on", "off", "keep", "none"} :
          level <= max /\ stored' = Led!Configured(max, level, mode)
    BY <1>1 DEF Led!ProbeConfigure
  <2>2. stored' \in Setting /\ stored'.brightness <= stored'.max
    BY <2>1 DEF Led!Configured, Setting
  <2> QED
    BY <1>1, <2>2 DEF Led!ProbeConfigure, Setting
<1>2. CASE Led!ProbeSetup
  BY <1>2 DEF Led!ProbeSetup, Led!LedBackends
<1>3. CASE Led!ProbeSetupFails
  BY NothingFits, <1>3 DEF Led!ProbeSetupFails, Setting
<1>4. CASE Led!ProbeApply
  <2>1. light' \in Led!Levels /\ light' = Led!Shown(stored)'
    BY <1>4, ShownIsLevel DEF Led!ProbeApply, Led!Shown, Setting
  <2> QED
    BY <1>4, <2>1 DEF Led!ProbeApply
<1>5. CASE Led!ProbeFails \/ Led!Remove
  <2>1. held' = FALSE /\ light' \in {0, light} /\ (backend = "gpio" => light' = 0)
    BY <1>5 DEF Led!ProbeFails, Led!Remove, Led!Cleanup, Led!CanFail
  <2>2. place' = "absent" /\ stored' = Led!Nothing /\ astray' = FALSE /\ UNCHANGED backend
    BY <1>5 DEF Led!ProbeFails, Led!Remove
  <2>3. stored' \in Setting /\ stored'.brightness <= stored'.max /\ light' \in Led!Levels
    BY NothingFits, <2>1, <2>2
  <2> QED
    BY <2>1, <2>2, <2>3 DEF Setting
<1>6. CASE Led!ProbeDone
  BY <1>6 DEF Led!ProbeDone, Led!Shown
<1> QED
  BY <1>1, <1>2, <1>3, <1>4, <1>5, <1>6

THEOREM LedInvariant == Led!Spec => []LedInv
<1>1. Led!Init => LedInv
  <2> SUFFICES ASSUME Led!Init PROVE LedInv
    OBVIOUS
  <2>1. stored \in Setting /\ stored.brightness <= stored.max
    BY NothingFits DEF Led!Init
  <2>2. backend \in Led!LedBackends /\ light = 0 /\ 0 \in Led!Levels
    BY DriverConstants DEF Led!Init, Led!Levels, Led!LedAssumption
  <2> QED
    BY <2>1, <2>2 DEF LedInv, Led!Init, Led!TypeOK, Setting
<1>2. LedInv /\ [Led!Next]_(Led!vars) => LedInv'
  <2> SUFFICES ASSUME LedInv, [Led!Next]_(Led!vars) PROVE LedInv'
    OBVIOUS
  <2>1. CASE UNCHANGED Led!vars
    BY <2>1 DEF Led!vars, LedInv, Led!TypeOK, Led!Shown
  <2>2. CASE Led!Next
    BY <2>2, LedPlace, LedRequest DEF Led!Next
  <2> QED
    BY <2>1, <2>2
<1> QED
  BY <1>1, <1>2, PTL DEF Led!Spec

(* The state that is reported of an LED is the one the hardware shows, unless the  *)
(* hardware refused the setting of a diagnostic file and has taken none since     *)
(* (pdm_led_ioctl; pdm_led_diag.c).                                           *)
THEOREM LedsAreShown == Led!Spec => []LedStateIsShown
<1>1. LedInv => LedStateIsShown
  BY DEF LedInv, LedStateIsShown, Led!StateIsShownUnlessAstray, Led!Shown
<1> QED
  BY <1>1, LedInvariant, PTL

-------------------------------------------------------------------------------
(* An MCU on I2C or SPI: what goes out is the command and then the data.         *)
LEMMA SentIsBoth ==
  ASSUME NEW command, NEW n \in Nat, NEW tx \in Seq(Nat)
  PROVE  LET sent == Serial!Sent(command, tx, n)
         IN Len(sent) = n + Len(tx) /\ SubSeq(sent, n + 1, Len(sent)) = tx
<1> DEFINE e == Serial!Encode(command, n)
           S == Nat \cup {e[j] : j \in 1..n}
<1>1. e \in Seq(S) /\ Len(e) = n
  <2>1. DOMAIN e = 1..n /\ e \in [1..n -> S]
    BY DEF Serial!Encode
  <2>2. e \in Seq(S)
    BY <2>1
  <2> QED
    BY <2>1, <2>2, LenProperties
<1>2. tx \in Seq(S) /\ Len(tx) \in Nat
  OBVIOUS
<1> HIDE DEF e, S
<1>3. Len(e \o tx) = n + Len(tx)
  BY <1>1, <1>2, ConcatProperties
<1>4. SubSeq(e \o tx, n + 1, n + Len(tx)) = tx
  <2>1. CASE tx = <<>>
    BY <1>2, <2>1, SubSeqEmpty
  <2>2. CASE tx # <<>>
    <3>1. n + 1 \in Len(e) + 1..Len(e) + Len(tx)
          /\ n + Len(tx) \in Len(e) + 1..Len(e) + Len(tx)
      BY <1>1, <1>2, <2>2
    <3>2. SubSeq(e \o tx, n + 1, n + Len(tx)) = SubSeq(tx, n + 1 - n, n + Len(tx) - n)
      BY <1>1, <1>2, <3>1, SubSeqOfConcat2
    <3>3. n + 1 - n = 1 /\ n + Len(tx) - n = Len(tx)
      BY <1>2
    <3> QED
      BY <1>2, <3>2, <3>3, SubSeqFull
  <2> QED
    BY <2>1, <2>2
<1> QED
  BY <1>3, <1>4 DEF Serial!Sent, e

(* The client and its instance find each other, through every step.            *)
LEMMA BusLinked ==
  ASSUME BusLinks, Serial!Next
  PROVE  BusLinks'
<1> USE DriverConstants DEF Serial!BusAssumption
<1> PICK c \in Clients :
      \/ Serial!Probe(c) \/ Serial!Cleanup(c) \/ Serial!Remove(c)
      \/ \E i \in BusMcus, bytes \in Prefixes : Serial!Setup(c, i, bytes)
      \/ UNCHANGED Serial!linkVars
  BY DEF Serial!Next, Serial!Request
<1>1. CASE Serial!Probe(c)
  BY <1>1 DEF Serial!Probe, BusLinks, BusTypes, Serial!LinksAgree
<1>2. CASE Serial!Cleanup(c)
  BY <1>2 DEF Serial!Cleanup, BusLinks, BusTypes, Serial!LinksAgree
<1>3. CASE Serial!Remove(c)
  BY <1>3 DEF Serial!Remove, BusLinks, BusTypes, Serial!LinksAgree
<1>4. CASE \E i \in BusMcus, bytes \in Prefixes : Serial!Setup(c, i, bytes)
  <2> PICK i \in BusMcus, bytes \in Prefixes : Serial!Setup(c, i, bytes)
    BY <1>4
  <2>1. Serial!Lesser(bytes, MaxPrefix) \in Nat
    BY DEF Serial!Lesser
  <2>2. BusTypes'
    BY <2>1 DEF Serial!Setup, BusLinks, BusTypes
  <2>3. Serial!LinksAgree'
    BY DEF Serial!Setup, Serial!Free, BusLinks, BusTypes, Serial!LinksAgree
  <2>4. \A d \in Clients : bound'[d] # NoOne => client'[bound'[d]] = d
    BY DEF Serial!Setup, Serial!Free, BusLinks, BusTypes
  <2> QED
    BY <2>2, <2>3, <2>4 DEF BusLinks
<1>5. CASE UNCHANGED Serial!linkVars
  BY <1>5 DEF Serial!linkVars, BusLinks, BusTypes, Serial!LinksAgree
<1> QED
  BY <1>1, <1>2, <1>3, <1>4, <1>5

(* A request that goes out does so as SentIsBoth says.                          *)
LEMMA BusHeard ==
  ASSUME BusLinks, Serial!RequestsAreWhole, Serial!Next
  PROVE  Serial!RequestsAreWhole'
<1>1. CASE UNCHANGED <<heard, said>>
  BY <1>1 DEF Serial!RequestsAreWhole
<1>2. ASSUME NEW c \in Clients, NEW command \in 0..MaxCommand, NEW tx \in Serial!Data,
             NEW rx \in 0..BusTransfer + 1, NEW need \in BOOLEAN,
             Serial!Request(c, command, tx, rx, need)
      PROVE  Serial!RequestsAreWhole'
  <2> DEFINE n == prefix[bound[c]]
  <2>1. n \in Nat /\ tx \in Seq(Nat)
    <3>1. bound[c] \in BusMcus
      BY <1>2 DEF Serial!Request, BusLinks, BusTypes
    <3>2. tx \in Seq(Nat)
      BY DriverConstants DEF Serial!BusAssumption, Serial!Data
    <3> QED
      BY <3>1, <3>2 DEF BusLinks, BusTypes
  <2>2. CASE heard' = <<>> /\ said'.ret = "refused"
    BY <2>2 DEF Serial!RequestsAreWhole
  <2>3. CASE ~Serial!Unfit(Len(tx), rx, n) /\ \E ret \in {"ok", "EREMOTEIO", "EIO"} :
               /\ heard' = (IF ret = "EREMOTEIO" THEN <<>>
                            ELSE Serial!Sent(command, tx, n))
               /\ said' = [command |-> command, tx |-> tx, rx |-> rx, bytes |-> n,
                           ret |-> ret, got |-> IF ret = "ok" THEN rx ELSE 0]
    <3>1. n > 0
      BY <2>1, <2>3 DEF Serial!Unfit
    <3>2. said'.ret # "refused"
      BY <2>3
    <3>3. said'.ret = "ok" =>
            /\ heard' = Serial!Sent(command, tx, n)
            /\ said'.bytes = n /\ said'.tx = tx /\ said'.got = said'.rx
      BY <2>3
    <3>4. Len(Serial!Sent(command, tx, n)) = n + Len(tx)
          /\ SubSeq(Serial!Sent(command, tx, n), n + 1, Len(Serial!Sent(command, tx, n))) = tx
      BY <2>1, SentIsBoth
    <3> QED
      BY <3>1, <3>2, <3>3, <3>4 DEF Serial!RequestsAreWhole
  <2> QED
    BY <1>2, <2>2, <2>3 DEF Serial!Request, Serial!Outcomes, Serial!I2cOutcomes,
       Serial!SpiOutcomes
<1>3. Serial!Next => \/ UNCHANGED <<heard, said>>
                     \/ \E c \in Clients, command \in 0..MaxCommand, tx \in Serial!Data,
                           rx \in 0..BusTransfer + 1, need \in BOOLEAN :
                          Serial!Request(c, command, tx, rx, need)
  BY DEF Serial!Next, Serial!Probe, Serial!Cleanup, Serial!Remove, Serial!Setup
<1> QED
  BY <1>1, <1>2, <1>3

THEOREM BusInvariant == Serial!Spec => []BusInv
<1>1. Serial!Init => BusInv
  BY DriverConstants DEF Serial!BusAssumption, Serial!Init, BusInv, BusLinks, BusTypes,
     Serial!LinksAgree, Serial!RequestsAreWhole, Serial!Nobody
<1>2. BusInv /\ [Serial!Next]_(Serial!vars) => BusInv'
  <2>1. BusInv /\ UNCHANGED Serial!vars => BusInv'
    BY DEF Serial!vars, Serial!linkVars, BusInv, BusLinks, BusTypes,
       Serial!LinksAgree, Serial!RequestsAreWhole
  <2> QED
    BY <2>1, BusLinked, BusHeard DEF BusInv
<1> QED
  BY <1>1, <1>2, PTL DEF Serial!Spec

-------------------------------------------------------------------------------
(* The MCUs of a CAN bus.                                                      *)
Up(s) == {i \in CanMcus : s[i] # "closed"}

LEMMA CanCounts ==
  /\ IsFiniteSet(CanMcus)
  /\ Can!NetdevRefsExact <=> refs = Cardinality(Up(canStage))
  /\ Can!NetdevRefsExact' <=> refs' = Cardinality(Up(canStage'))
<1>1. \A S : Can!Cardinality(S) = Cardinality(S)
  BY DEF Can!Cardinality, Cardinality
<1>2. \A S : Can!IsFiniteSet(S) <=> IsFiniteSet(S)
  BY DEF Can!IsFiniteSet, IsFiniteSet
<1>3. Can!IsFiniteSet(CanMcus)
  BY DriverConstants DEF Can!CanAssumption
<1>4. /\ Can!NetdevRefsExact <=> refs = Can!Cardinality(Up(canStage))
      /\ Can!NetdevRefsExact' <=> refs' = Can!Cardinality(Up(canStage'))
  BY Zenon DEF Can!NetdevRefsExact, Up
<1> QED
  BY <1>1, <1>2, <1>3, <1>4

LEMMA UpFinite ==
  ASSUME NEW s
  PROVE  IsFiniteSet(Up(s)) /\ Cardinality(Up(s)) \in Nat
<1>1. Up(s) \in SUBSET CanMcus /\ IsFiniteSet(CanMcus)
  BY CanCounts DEF Up
<1>2. IsFiniteSet(Up(s))
  BY <1>1, FS_Subset
<1> QED
  BY <1>2, FS_CardinalityType

LEMMA CanRefs ==
  ASSUME Can!TypeOK, Can!NetdevRefsExact, NEW i \in CanMcus, NEW to,
         canStage' = [canStage EXCEPT ![i] = to],
         \/ canStage[i] = "closed" /\ to # "closed" /\ refs' = refs + 1
         \/ canStage[i] # "closed" /\ to = "closed" /\ refs' = refs - 1
         \/ canStage[i] # "closed" /\ to # "closed" /\ refs' = refs
  PROVE  Can!NetdevRefsExact'
<1> DEFINE U == Up(canStage)
           V == Up(canStage')
<1>0. refs = Cardinality(U) /\ (Can!NetdevRefsExact' <=> refs' = Cardinality(V))
  BY CanCounts
<1>1. IsFiniteSet(U)
  BY UpFinite
<1> HIDE DEF U, V
<1>2. canStage \in [CanMcus -> {"closed", "netdev", "socket", "open"}]
  BY DEF Can!TypeOK
<1>3. CASE canStage[i] = "closed" /\ to # "closed" /\ refs' = refs + 1
  <2>1. V = U \cup {i} /\ i \notin U
    BY <1>2, <1>3 DEF Up, U, V
  <2>2. Cardinality(V) = Cardinality(U) + 1
    BY <1>1, <2>1, FS_AddElement
  <2> QED
    BY <1>0, <1>3, <2>2
<1>4. CASE canStage[i] # "closed" /\ to = "closed" /\ refs' = refs - 1
  <2>1. V = U \ {i} /\ i \in U
    BY <1>2, <1>4 DEF Up, U, V
  <2>2. Cardinality(V) = Cardinality(U) - 1
    BY <1>1, <2>1, FS_RemoveElement
  <2> QED
    BY <1>0, <1>4, <2>2
<1>5. CASE canStage[i] # "closed" /\ to # "closed" /\ refs' = refs
  <2>1. V = U
    BY <1>2, <1>5 DEF Up, U, V
  <2> QED
    BY <1>0, <1>5, <2>1
<1> QED
  BY <1>3, <1>4, <1>5

(* What is broadcast comes to a queue, or does not.                            *)
LEMMA CanHeard ==
  ASSUME Can!TypeOK, NEW frame \in Can!Frames, NEW receivers \in SUBSET CanMcus,
         Can!Broadcast(frame, receivers), NEW j \in CanMcus
  PROVE  /\ queue'[j] \in Seq(Can!Frames) /\ Len(queue'[j]) <= QueueSize
         /\ queue'[j] # queue[j] =>
              canStage[j] = "open" /\ queue'[j] = Append(queue[j], frame)
         /\ j \notin receivers => queue'[j] = queue[j]
<1>1. queue[j] \in Seq(Can!Frames) /\ Len(queue[j]) <= QueueSize /\ QueueSize \in Nat
  BY DriverConstants DEF Can!TypeOK, Can!CanAssumption
<1>2. queue'[j] = IF j \in receivers /\ canStage[j] = "open" /\ Len(queue[j]) < QueueSize
                  THEN Append(queue[j], frame) ELSE queue[j]
  BY DEF Can!Broadcast
<1> QED
  BY <1>1, <1>2, AppendProperties

(* The set-up and the cleanup.                                                *)
LEMMA CanSetup ==
  ASSUME CanInv, NEW i \in CanMcus, Can!Setup(i) \/ Can!Cleanup(i)
  PROVE  CanInv'
<1> USE DEF CanInv
<1>1. canStage' \in [CanMcus -> {"closed", "netdev", "socket", "open"}]
      /\ Can!NetdevRefsExact'
  <2>1. PICK to \in {"closed", "netdev", "socket", "open"} :
          /\ canStage' = [canStage EXCEPT ![i] = to]
          /\ \/ canStage[i] = "closed" /\ to # "closed" /\ refs' = refs + 1
             \/ canStage[i] # "closed" /\ to = "closed" /\ refs' = refs - 1
             \/ canStage[i] # "closed" /\ to # "closed" /\ refs' = refs
    BY DEF Can!Setup, Can!FindNetdev, Can!CreateSocket, Can!BindSocket, Can!SetupFails,
       Can!Cleanup, Can!Stage
  <2>2. Can!NetdevRefsExact'
    BY <2>1, CanRefs
  <2> QED
    BY <2>1, <2>2 DEF Can!TypeOK
<1>2. refs' \in Nat
  <2>1. refs' = Cardinality(Up(canStage'))
    BY <1>1, CanCounts
  <2> QED
    BY <2>1, UpFinite
<1>3. queue' = queue \/ queue' = [queue EXCEPT ![i] = <<>>]
  BY DEF Can!Setup, Can!FindNetdev, Can!CreateSocket, Can!BindSocket, Can!SetupFails,
     Can!Cleanup
<1>4. canClean' = canClean \/ canClean' = [canClean EXCEPT ![i] = canDue[i] = {}]
  BY DEF Can!Setup, Can!FindNetdev, Can!CreateSocket, Can!BindSocket, Can!SetupFails,
     Can!Cleanup
<1>5. UNCHANGED <<canPc, number, canWant, query, canGot, canDue, strangers>>
  BY DEF Can!Setup, Can!FindNetdev, Can!CreateSocket, Can!BindSocket, Can!SetupFails,
     Can!Cleanup, Can!xferVars
<1>6. Can!TypeOK'
  <2>1. queue' \in [CanMcus -> Seq(Can!Frames)]
        /\ \A j \in CanMcus : Len(queue'[j]) <= QueueSize
    <3>1. QueueSize \in Nat /\ <<>> \in Seq(Can!Frames) /\ Len(<<>>) = 0
      BY DriverConstants DEF Can!CanAssumption
    <3>2. CASE queue' = queue
      BY <3>2 DEF Can!TypeOK
    <3>3. CASE queue' = [queue EXCEPT ![i] = <<>>]
      BY <3>1, <3>3 DEF Can!TypeOK
    <3> QED
      BY <1>3, <3>2, <3>3
  <2>2. canClean' \in [CanMcus -> BOOLEAN]
    BY <1>4 DEF Can!TypeOK
  <2> QED
    BY <1>1, <1>2, <1>5, <2>1, <2>2 DEF Can!TypeOK
<1>7. canPc[i] = "idle" /\ (canStage'[i] # "open" => queue'[i] = <<>>)
  BY DEF Can!Setup, Can!FindNetdev, Can!CreateSocket, Can!BindSocket, Can!SetupFails,
     Can!Cleanup, Can!Stage, Can!TypeOK, CanStageInv
<1>8. \A j \in CanMcus \ {i} : canStage'[j] = canStage[j]
  BY DEF Can!Setup, Can!FindNetdev, Can!CreateSocket, Can!BindSocket, Can!SetupFails,
     Can!Cleanup, Can!Stage, Can!TypeOK
<1>9. CanStageInv'
  BY <1>3, <1>5, <1>7, <1>8 DEF CanStageInv, Can!TypeOK
<1>10. CanCleanInv'
  <2> SUFFICES ASSUME NEW j \in CanMcus, canClean'[j], canPc[j] # "failed"
               PROVE  CleanMcu(j)'
    BY <1>5 DEF CanCleanInv
  <2>1. CASE j # i
    BY <1>3, <1>4, <1>5, <2>1 DEF CanCleanInv, CleanMcu, Can!TypeOK
  <2>2. CASE j = i
    <3>1. CASE Can!BindSocket(i)
      BY <1>5, <1>7, <2>2, <3>1 DEF Can!BindSocket, Can!Stage, CleanMcu, Can!TypeOK,
         CanStageInv
    <3>2. CASE ~Can!BindSocket(i)
      <4>1. canClean' = canClean
        BY <3>2 DEF Can!Setup, Can!FindNetdev, Can!CreateSocket, Can!SetupFails, Can!Cleanup
      <4> QED
        BY <1>3, <1>5, <1>7, <2>2, <4>1 DEF CanCleanInv, CleanMcu, Can!TypeOK
    <3> QED
      BY <3>1, <3>2
  <2> QED
    BY <2>1, <2>2
<1>11. Can!CleanBusAnswers'
  <2> SUFFICES ASSUME NEW j \in CanMcus, canClean'[j], canPc[j] = "done", canWant[j] > 0
               PROVE  canGot[j].to = <<j, number[j]>>
    BY <1>5 DEF Can!CleanBusAnswers
  <2>1. canClean[j]
    BY <1>4, <1>7 DEF Can!TypeOK
  <2> QED
    BY <2>1 DEF Can!CleanBusAnswers
<1> QED
  BY <1>1, <1>6, <1>9, <1>10, <1>11

(* A request, from the ioctl to its return.                                   *)
LEMMA CanRequest ==
  ASSUME CanInv, NEW i \in CanMcus, NEW ask \in Can!Asks, Can!Request(i, ask)
  PROVE  CanInv'
<1> USE DEF CanInv
<1>1. ask.tx \in Nat /\ ask.rx \in 0..CanTransfer /\ ask.query \in BOOLEAN
  <2>1. IndexLen \in Nat /\ QueryLen \in 0..CanTransfer /\ 0 \in 0..CanTransfer
    BY DriverConstants DEF Can!CanAssumption
  <2>2. CASE ask \in [tx : 0..CanTransfer, rx : 0..CanTransfer, query : {FALSE}]
    <3>1. ask.tx \in 0..CanTransfer /\ ask.rx \in 0..CanTransfer
      BY <2>2
    <3>2. ask.tx \in Nat
      BY <3>1
    <3>3. ask.query = FALSE
      BY <2>2
    <3>4. ask.query \in BOOLEAN
      BY <3>3, Zenon
    <3> QED
      BY <3>1, <3>2, <3>4, Zenon
  <2>3. CASE ask = [tx |-> IndexLen, rx |-> QueryLen, query |-> TRUE]
    BY <2>1, <2>3
  <2>4. CASE ask = [tx |-> IndexLen, rx |-> 0, query |-> FALSE]
    BY <2>1, <2>4
  <2> QED
    BY <2>2, <2>3, <2>4 DEF Can!Asks
<1>2. PICK to \in {"send", "refused"} :
        canPc' = [canPc EXCEPT ![i] = to] /\ (to = "send" => ask.rx <= MaxDlen)
  BY DEF Can!Request, Can!Goto, Can!Fits
<1>3. canPc[i] = "idle"
  BY DEF Can!Request, Can!Goto
<1>4. Can!TypeOK'
  <2>1. number' \in [CanMcus -> 0..MaxRequests]
    BY DriverConstants DEF Can!Request, Can!TypeOK, Can!CanAssumption
  <2>2. /\ canWant' \in [CanMcus -> 0..CanTransfer]
        /\ query' \in [CanMcus -> BOOLEAN]
        /\ canGot' \in [CanMcus -> Can!Frames \cup {<<>>}]
        /\ canPc' \in [CanMcus -> {"idle", "send", "receive", "done", "failed", "refused"}]
    BY <1>1, <1>2 DEF Can!Request, Can!TypeOK
  <2>3. \A j \in CanMcus : canPc'[j] \in {"send", "receive"} => canWant'[j] <= MaxDlen
    BY <1>1, <1>2 DEF Can!Request, Can!TypeOK
  <2> QED
    BY <2>1, <2>2, <2>3 DEF Can!Request, Can!TypeOK
<1>5. CanStageInv'
  BY <1>2 DEF Can!Request, Can!TypeOK, CanStageInv
<1>6. CanCleanInv'
  BY <1>2, <1>3 DEF Can!Request, Can!TypeOK, CanCleanInv, CleanMcu
<1>7. Can!CleanBusAnswers'
  BY <1>2 DEF Can!Request, Can!TypeOK, Can!CleanBusAnswers
<1>8. Can!NetdevRefsExact'
  BY CanCounts DEF Can!Request
<1> QED
  BY <1>4, <1>5, <1>6, <1>7, <1>8

LEMMA CanSend ==
  ASSUME CanInv, NEW i \in CanMcus, Can!Send(i)
  PROVE  CanInv'
<1> USE DEF CanInv
<1>1. PICK len \in 0..MaxDlen :
        Can!Broadcast([to |-> Can!Nobody, len |-> len], CanMcus \ {i})
  BY DEF Can!Send
<1> DEFINE frame == [to |-> Can!Nobody, len |-> len]
<1>2. frame \in Can!Frames
  BY DEF Can!Frames
<1>3. \A j \in CanMcus :
        /\ queue'[j] \in Seq(Can!Frames) /\ Len(queue'[j]) <= QueueSize
        /\ queue'[j] # queue[j] => canStage[j] = "open"
  BY <1>1, <1>2, CanHeard
<1>4. queue'[i] = queue[i]
  BY <1>1, <1>2, CanHeard
<1>5. canPc[i] = "send" /\ UNCHANGED <<canStage, refs, number, canWant, query, canGot>>
  BY DEF Can!Send, Can!Goto, Can!xferVars
<1>6. PICK to \in {"done", "receive"} :
        canPc' = [canPc EXCEPT ![i] = to] /\ (to = "receive" <=> canWant[i] # 0)
  BY DEF Can!Send, Can!Goto
<1>7. number[i] \in 1..MaxRequests
  <2>1. number[i] \in 0..MaxRequests
    BY DEF Can!TypeOK
  <2>2. number[i] > 0
    BY <1>5 DEF CanStageInv
  <2>3. MaxRequests \in Nat
    BY DriverConstants DEF Can!CanAssumption
  <2> QED
    BY <2>1, <2>2, <2>3
<1>8. canClean' = [j \in CanMcus |-> canClean[j] /\ j = i]
  BY DEF Can!Send, Can!Disturb
<1>9. Can!TypeOK'
  <2>1. canDue' \in [CanMcus -> SUBSET (1..MaxRequests)]
    BY <1>7 DEF Can!Send, Can!TypeOK
  <2>2. queue' \in [CanMcus -> Seq(Can!Frames)]
    BY <1>1, <1>3 DEF Can!Broadcast
  <2>3. canClean' \in [CanMcus -> BOOLEAN]
    BY <1>8
  <2>4. canPc' \in [CanMcus -> {"idle", "send", "receive", "done", "failed", "refused"}]
        /\ \A j \in CanMcus : canPc'[j] \in {"send", "receive"} => canWant'[j] <= MaxDlen
    BY <1>5, <1>6 DEF Can!TypeOK
  <2> QED
    BY <1>3, <1>5, <2>1, <2>2, <2>3, <2>4 DEF Can!TypeOK, Can!Send
<1>10. CanStageInv'
  BY <1>3, <1>5, <1>6 DEF Can!TypeOK, CanStageInv
<1>11. CanCleanInv'
  <2>1. canClean[i] => CleanMcu(i)
    BY <1>5 DEF CanCleanInv
  <2>2. canClean'[i] => CleanMcu(i)'
    BY <1>4, <1>5, <1>6, <1>8, <2>1 DEF CleanMcu, Can!Send, Can!TypeOK
  <2> QED
    BY <1>8, <2>2 DEF CanCleanInv
<1>12. Can!CleanBusAnswers'
  BY <1>5, <1>6, <1>8 DEF Can!CleanBusAnswers, Can!TypeOK
<1>13. Can!NetdevRefsExact'
  BY <1>5, CanCounts
<1> QED
  BY <1>9, <1>10, <1>11, <1>12, <1>13

LEMMA CanReceive ==
  ASSUME CanInv, NEW i \in CanMcus, Can!Receive(i)
  PROVE  CanInv'
<1> USE DEF CanInv
<1>1. queue[i] \in Seq(Can!Frames) /\ queue[i] # <<>>
  BY DEF Can!Receive, Can!TypeOK
<1>2. Head(queue[i]) \in Can!Frames /\ Tail(queue[i]) \in Seq(Can!Frames)
      /\ Len(Tail(queue[i])) = Len(queue[i]) - 1
  BY <1>1, HeadTailProperties
<1>3. PICK to \in {"done", "failed"}, frame \in Can!Frames \cup {<<>>} :
        /\ canPc' = [canPc EXCEPT ![i] = to]
        /\ canGot' = [canGot EXCEPT ![i] = frame]
        /\ to = "done" => frame = Head(queue[i])
  BY <1>2 DEF Can!Receive, Can!Goto
<1>4. canPc[i] = "receive" /\ queue' = [queue EXCEPT ![i] = Tail(queue[i])]
      /\ UNCHANGED <<canStage, refs, number, canWant, query, canDue, canClean, strangers>>
  BY DEF Can!Receive, Can!Goto
<1>5. Can!TypeOK'
  <2>1. queue' \in [CanMcus -> Seq(Can!Frames)]
    BY <1>2, <1>4 DEF Can!TypeOK
  <2>2. \A j \in CanMcus : Len(queue'[j]) <= QueueSize
    <3>1. QueueSize \in Nat /\ Len(queue[i]) \in Nat
      BY <1>1, DriverConstants DEF Can!CanAssumption
    <3> QED
      BY <1>2, <1>4, <3>1 DEF Can!TypeOK
  <2>3. canGot' \in [CanMcus -> Can!Frames \cup {<<>>}]
        /\ canPc' \in [CanMcus -> {"idle", "send", "receive", "done", "failed", "refused"}]
        /\ \A j \in CanMcus : canPc'[j] \in {"send", "receive"} => canWant'[j] <= MaxDlen
    BY <1>3, <1>4 DEF Can!TypeOK
  <2> QED
    BY <1>4, <2>1, <2>2, <2>3 DEF Can!TypeOK
<1>6. CanStageInv'
  BY <1>3, <1>4 DEF Can!TypeOK, CanStageInv
<1>7. canClean[i] => Tail(queue[i]) = <<>> /\ canDue[i] = {}
                     /\ Head(queue[i]).to = <<i, number[i]>>
  <2> SUFFICES ASSUME canClean[i]
               PROVE  Tail(queue[i]) = <<>> /\ canDue[i] = {}
                      /\ Head(queue[i]).to = <<i, number[i]>>
    OBVIOUS
  <2>1. Len(queue[i]) = 1 /\ queue[i][1].to = <<i, number[i]>> /\ canDue[i] = {}
    BY <1>1, <1>4 DEF CanCleanInv, CleanMcu
  <2>2. Len(Tail(queue[i])) = 0
    BY <1>2, <2>1
  <2>3. Tail(queue[i]) = <<>>
    BY <1>2, <2>2, EmptySeq
  <2>4. Head(queue[i]) = queue[i][1]
    BY <1>1
  <2> QED
    BY <2>1, <2>3, <2>4
<1>8. CanCleanInv'
  BY <1>3, <1>4, <1>7 DEF CanCleanInv, CleanMcu, Can!TypeOK
<1>9. Can!CleanBusAnswers'
  BY <1>3, <1>4, <1>7 DEF Can!CleanBusAnswers, Can!TypeOK
<1>10. Can!NetdevRefsExact'
  BY <1>4, CanCounts
<1> QED
  BY <1>5, <1>6, <1>8, <1>9, <1>10

LEMMA CanEnd ==
  ASSUME CanInv, NEW i \in CanMcus, Can!SendFails(i) \/ Can!Timeout(i) \/ Can!Return(i)
  PROVE  CanInv'
<1> USE DEF CanInv
<1>1. UNCHANGED <<canStage, refs, number, canWant, query, canGot, queue, canDue, strangers>>
  BY DEF Can!SendFails, Can!Timeout, Can!Return, Can!xferVars
<1>2. \/ canPc[i] \in {"send", "receive"} /\ canPc' = [canPc EXCEPT ![i] = "failed"]
         /\ canClean' = canClean
      \/ canPc[i] \in {"done", "failed", "refused"} /\ canPc' = [canPc EXCEPT ![i] = "idle"]
         /\ canClean' = [canClean EXCEPT ![i] = @ /\ canPc[i] # "failed"]
  BY DEF Can!SendFails, Can!Timeout, Can!Return, Can!Goto
<1>3. \A j \in CanMcus : canClean'[j] => canClean[j]
  BY <1>2 DEF Can!TypeOK
<1>4. Can!TypeOK'
  <2>1. canClean' \in [CanMcus -> BOOLEAN]
    BY <1>2 DEF Can!TypeOK
  <2>2. canPc' \in [CanMcus -> {"idle", "send", "receive", "done", "failed", "refused"}]
        /\ \A j \in CanMcus : canPc'[j] \in {"send", "receive"} => canPc'[j] = canPc[j]
    BY <1>2 DEF Can!TypeOK
  <2> QED
    BY <1>1, <2>1, <2>2 DEF Can!TypeOK
<1>5. CanStageInv'
  BY <1>1, <1>2 DEF CanStageInv, Can!TypeOK
<1>6. CanCleanInv'
  BY <1>1, <1>2, <1>3 DEF CanCleanInv, CleanMcu, Can!TypeOK
<1>7. Can!CleanBusAnswers'
  BY <1>1, <1>2, <1>3 DEF Can!CleanBusAnswers, Can!TypeOK
<1>8. Can!NetdevRefsExact'
  BY <1>1, CanCounts
<1> QED
  BY <1>4, <1>5, <1>6, <1>7, <1>8

(* What comes on the bus meanwhile.                                            *)
LEMMA CanFrame ==
  ASSUME CanInv, NEW frame \in Can!Frames, NEW others \in SUBSET CanMcus,
         Can!Broadcast(frame, CanMcus), Can!Disturb(others),
         UNCHANGED <<canStage, refs, canPc, number, canWant, query, canGot>>,
         canDue' \in [CanMcus -> SUBSET (1..MaxRequests)],
         strangers' \in 0..Strangers,
         \A i \in CanMcus \ others :
           \E n \in canDue[i] : frame.to = <<i, n>> /\ canDue'[i] = canDue[i] \ {n}
  PROVE  CanInv'
<1> USE DEF CanInv
<1>1. \A j \in CanMcus :
        /\ queue'[j] \in Seq(Can!Frames) /\ Len(queue'[j]) <= QueueSize
        /\ queue'[j] # queue[j] =>
             canStage[j] = "open" /\ queue'[j] = Append(queue[j], frame)
  BY CanHeard
<1>2. canClean' = [j \in CanMcus |-> canClean[j] /\ j \notin others]
  BY DEF Can!Disturb
<1>3. Can!TypeOK'
  <2>1. queue' \in [CanMcus -> Seq(Can!Frames)]
    BY <1>1 DEF Can!Broadcast
  <2>2. canClean' \in [CanMcus -> BOOLEAN]
    BY <1>2
  <2> QED
    BY <1>1, <2>1, <2>2 DEF Can!TypeOK
<1>4. CanStageInv'
  BY <1>1 DEF CanStageInv, Can!TypeOK
<1>5. CanCleanInv'
  <2> SUFFICES ASSUME NEW i \in CanMcus, canClean'[i], canPc[i] # "failed"
               PROVE  CleanMcu(i)'
    BY DEF CanCleanInv
  <2>1. canClean[i] /\ i \notin others
    BY <1>2
  <2>2. PICK n \in canDue[i] : frame.to = <<i, n>> /\ canDue'[i] = canDue[i] \ {n}
    BY <2>1
  <2>3. CleanMcu(i)
    BY <2>1 DEF CanCleanInv
  <2>4. canPc[i] = "receive" /\ queue[i] = <<>> /\ n = number[i] /\ canDue'[i] = {}
    BY <2>2, <2>3 DEF CleanMcu
  <2>5. CASE queue'[i] = queue[i]
    BY <2>4, <2>5 DEF CleanMcu
  <2>6. CASE queue'[i] = Append(queue[i], frame)
    <3>1. Len(queue'[i]) = 1 /\ queue'[i][1] = frame
      BY <2>4, <2>6
    <3> QED
      BY <2>2, <2>4, <3>1 DEF CleanMcu
  <2> QED
    BY <1>1, <2>5, <2>6
<1>6. Can!CleanBusAnswers'
  BY <1>2 DEF Can!CleanBusAnswers
<1>7. Can!NetdevRefsExact'
  BY CanCounts
<1> QED
  BY <1>3, <1>4, <1>5, <1>6, <1>7

LEMMA CanTraffic ==
  ASSUME CanInv,
         \/ Can!Stranger
         \/ \E i \in CanMcus : Can!Reply(i) \/ Can!NoReply(i)
  PROVE  CanInv'
<1>1. CASE Can!Stranger
  <2>1. PICK len \in 0..MaxDlen :
          Can!Broadcast([to |-> Can!Nobody, len |-> len], CanMcus)
    BY <1>1 DEF Can!Stranger
  <2>2. [to |-> Can!Nobody, len |-> len] \in Can!Frames
    BY DEF Can!Frames
  <2>3. Can!Disturb(CanMcus)
        /\ UNCHANGED <<canStage, refs, canPc, number, canWant, query, canGot, canDue>>
    BY <1>1 DEF Can!Stranger, Can!xferVars
  <2>4. strangers' \in 0..Strangers
    BY <1>1, DriverConstants DEF Can!Stranger, Can!CanAssumption, CanInv, Can!TypeOK
  <2>5. canDue' \in [CanMcus -> SUBSET (1..MaxRequests)]
    BY <2>3 DEF CanInv, Can!TypeOK
  <2> QED
    BY <2>1, <2>2, <2>3, <2>4, <2>5, CanFrame
<1>2. ASSUME NEW i \in CanMcus, Can!Reply(i)  PROVE  CanInv'
  <2>1. PICK n \in canDue[i], len \in 0..MaxDlen :
          /\ Can!Broadcast([to |-> <<i, n>>, len |-> len], CanMcus)
          /\ canDue' = [canDue EXCEPT ![i] = canDue[i] \ {n}]
          /\ Can!Disturb(CanMcus \ {i})
          /\ UNCHANGED <<canStage, refs, canPc, number, canWant, query, canGot, strangers>>
    BY <1>2 DEF Can!Reply, Can!xferVars
  <2> DEFINE frame == [to |-> <<i, n>>, len |-> len]
  <2>2. n \in 1..MaxRequests
    BY DEF CanInv, Can!TypeOK
  <2>3. frame \in Can!Frames /\ frame.to = <<i, n>>
    BY <2>2 DEF Can!Frames, Can!Requests
  <2>4. canDue' \in [CanMcus -> SUBSET (1..MaxRequests)] /\ canDue'[i] = canDue[i] \ {n}
    BY <2>1 DEF CanInv, Can!TypeOK
  <2>5. strangers' \in 0..Strangers
    BY <2>1 DEF CanInv, Can!TypeOK
  <2>6. \A j \in CanMcus \ (CanMcus \ {i}) :
          \E m \in canDue[j] : frame.to = <<j, m>> /\ canDue'[j] = canDue[j] \ {m}
    BY <2>3, <2>4
  <2> HIDE DEF frame
  <2>7. Can!Broadcast(frame, CanMcus)
    BY <2>1 DEF frame
  <2> QED
    BY <2>1, <2>3, <2>4, <2>5, <2>6, <2>7, CanFrame
<1>3. ASSUME NEW i \in CanMcus, Can!NoReply(i)  PROVE  CanInv'
  <2> USE DEF CanInv
  <2>1. PICK n \in canDue[i] : canDue' = [canDue EXCEPT ![i] = canDue[i] \ {n}]
    BY <1>3 DEF Can!NoReply
  <2>2. UNCHANGED <<canStage, refs, canPc, number, canWant, query, canGot, queue, canClean,
                    strangers>>
    BY <1>3 DEF Can!NoReply, Can!xferVars
  <2>3. Can!TypeOK'
    BY <2>1, <2>2 DEF Can!TypeOK
  <2>4. CanStageInv' /\ Can!CleanBusAnswers'
    BY <2>2 DEF CanStageInv, Can!CleanBusAnswers
  <2>5. CanCleanInv'
    BY <2>1, <2>2 DEF CanCleanInv, CleanMcu, Can!TypeOK
  <2>6. Can!NetdevRefsExact'
    BY <2>2, CanCounts
  <2> QED
    BY <2>3, <2>4, <2>5, <2>6
<1> QED
  BY <1>1, <1>2, <1>3

THEOREM CanInvariant == Can!Spec => []CanInv
<1>1. Can!Init => CanInv
  <2> SUFFICES ASSUME Can!Init PROVE CanInv
    OBVIOUS
  <2>1. Up(canStage) = {}
    BY DEF Can!Init, Up
  <2>2. Can!NetdevRefsExact
    BY <2>1, CanCounts, FS_EmptySet DEF Can!Init
  <2>3. Can!TypeOK
    BY DriverConstants DEF Can!Init, Can!TypeOK, Can!CanAssumption
  <2> QED
    BY <2>2, <2>3 DEF Can!Init, CanInv, CanStageInv, CanCleanInv, CleanMcu,
       Can!CleanBusAnswers
<1>2. CanInv /\ [Can!Next]_(Can!vars) => CanInv'
  <2>1. CanInv /\ UNCHANGED Can!vars => CanInv'
    BY CanCounts DEF Can!vars, Can!xferVars, CanInv, Can!TypeOK, CanStageInv, CanCleanInv,
       CleanMcu, Can!CleanBusAnswers
  <2>2. CanInv /\ Can!Next => CanInv'
    BY CanSetup, CanRequest, CanSend, CanReceive, CanEnd, CanTraffic
       DEF Can!Next, Can!Thread
  <2> QED
    BY <2>1, <2>2
<1> QED
  BY <1>1, <1>2, PTL DEF Can!Spec

-------------------------------------------------------------------------------
(* How devices and drivers find each other.                                    *)
LEMMA TreeFacts ==
  /\ Children \in Seq(Nodes) /\ Len(Children) \in Nat
  /\ DOMAIN Children = 1..Len(Children)
  /\ \A j \in DOMAIN Children : Children[j] \in Nodes
  /\ \A j, l \in DOMAIN Children : Children[j] = Children[l] => j = l
  /\ \A n \in Nodes : Bus[n] = "of" <=> \E l \in DOMAIN Children : Children[l] = n
  /\ \A n \in Nodes : n \notin {"id", "auto"}
  /\ \A n \in Nodes : Tree!RequestedId(n) \in Int
<1> USE DriverConstants DEF Tree!MatchAssumption
<1>a. DOMAIN Children = 1..Len(Children) /\ Children \in Seq(Nodes) /\ Len(Children) \in Nat
  OBVIOUS
<1>b. /\ \A j \in DOMAIN Children : Children[j] \in Nodes
      /\ \A j, l \in DOMAIN Children : Children[j] = Children[l] => j = l
      /\ \A n \in Nodes : Bus[n] = "of" <=> \E l \in DOMAIN Children : Children[l] = n
      /\ \A n \in Nodes : n \notin {"id", "auto"}
  OBVIOUS
<1>c. Half \in Int /\ Ids \cup Half..2 * Half - 1 \cup {-1} \subseteq Int
  OBVIOUS
<1>d. PdmId \in [Nodes -> Int] /\ Second \in [Nodes -> Int]
  BY <1>c
<1>1. ASSUME NEW n \in Nodes  PROVE Tree!RequestedId(n) \in Int
  <2>1. PdmId[n] \in Int /\ Second[n] \in Int /\ Half \in Int
    BY <1>1, <1>c, <1>d
  <2> DEFINE value == IF PdmId[n] # -1 THEN PdmId[n] ELSE Second[n]
  <2>2. value \in Int /\ Tree!RequestedId(n) = Tree!ToInt(value)
    BY <2>1 DEF Tree!RequestedId
  <2> HIDE DEF value
  <2> QED
    BY <2>1, <2>2 DEF Tree!ToInt
<1> QED
  BY <1>1, <1>a, <1>b

(* What becomes of a device that is probed: nothing, or it is bound as it should.  *)
LEMMA ProbedIs ==
  ASSUME NEW driver \in {"mcu", "led"}, NEW n \in Nodes,
         requested'[n] \in Int,
         match' \in Tree!Probed(driver, n, match), match' # match
  PROVE  \E r : /\ match' = [match EXCEPT ![n] = r]
                /\ r.driver = driver /\ Tree!SetupFits(n, r.backend)
                /\ r.id \notin Tree!Taken(driver, match)
                /\ requested'[n] < 0 \/ requested'[n] = r.id
<1> DEFINE b == Tree!Backend(driver, n)
           G == Tree!Grants(driver, requested'[n], match)
           R == IF b = "none" \/ ~Tree!SetupFits(n, b) THEN {}
                ELSE {[driver |-> driver, backend |-> b, id |-> i] : i \in G}
<1>1. match' \in {[match EXCEPT ![n] = r] : r \in R}
  BY DEF Tree!Probed
<1>2. PICK r \in R : match' = [match EXCEPT ![n] = r]
  BY <1>1
<1>3. Tree!SetupFits(n, b) /\ \E i \in G : r = [driver |-> driver, backend |-> b, id |-> i]
  BY <1>2
<1>4. PICK i \in G : r = [driver |-> driver, backend |-> b, id |-> i]
  BY <1>3
<1>5. i \notin Tree!Taken(driver, match) /\ (requested'[n] < 0 \/ requested'[n] = i)
  BY DEF Tree!Grants
<1>6. r.driver = driver /\ r.backend = b /\ r.id = i
  BY <1>4
<1> QED
  BY <1>2, <1>3, <1>5, <1>6

LEMMA TreeServe ==
  ASSUME TreeTypes, ServeInv, NEW n \in Nodes, match[n] = Tree!NoDriver,
         \/ match' = match
         \/ \E driver \in drivers :
              Tree!Matches(driver, n) /\ match' \in Tree!Probed(driver, n, match),
         drivers' = drivers, named'[n] # <<>>, requested'[n] \in Int,
         \A m \in Nodes \ {n} : named'[m] = named[m] /\ requested'[m] = requested[m]
  PROVE  ServeInv' /\ DOMAIN match' = Nodes
<1>1. CASE match' = match
  BY <1>1 DEF TreeTypes, ServeInv
<1>2. CASE match' # match
  <2>1. PICK driver \in drivers :
          Tree!Matches(driver, n) /\ match' \in Tree!Probed(driver, n, match)
    BY <1>2
  <2>2. driver \in {"mcu", "led"}
    BY DEF TreeTypes
  <2>3. PICK r : /\ match' = [match EXCEPT ![n] = r]
                 /\ r.driver = driver /\ Tree!SetupFits(n, r.backend)
                 /\ r.id \notin Tree!Taken(driver, match)
                 /\ requested'[n] < 0 \/ requested'[n] = r.id
    BY <1>2, <2>1, <2>2, ProbedIs
  <2>4. match'[n] = r /\ DOMAIN match' = Nodes /\ \A m \in Nodes \ {n} : match'[m] = match[m]
    BY <2>3 DEF TreeTypes
  <2>5. \A m \in Nodes : match[m].driver = driver => match[m].id # r.id
    BY <2>3 DEF Tree!Taken
  <2>6. \A m \in Nodes \ {n} : match'[m].driver = driver => match'[m].id # r.id
    BY <2>4, <2>5
  <2>7. ASSUME NEW m \in Nodes, match'[m] # Tree!NoDriver
        PROVE  /\ named'[m] # <<>> /\ match'[m].driver \in drivers
               /\ Tree!Matches(match'[m].driver, m)
               /\ match'[m].backend \in Tree!McuTransports =>
                    Tree!SetupFits(m, match'[m].backend)
               /\ requested'[m] < 0 \/ requested'[m] = match'[m].id
    <3>1. CASE m = n
      BY <2>1, <2>3, <2>4, <3>1
    <3>2. CASE m # n
      BY <2>4, <2>7, <3>2 DEF ServeInv
    <3> QED
      BY <3>1, <3>2
  <2>8. ASSUME NEW l \in Nodes, NEW m \in Nodes, l # m,
               match'[l] # Tree!NoDriver, match'[m] # Tree!NoDriver
        PROVE  match'[l].driver # match'[m].driver \/ match'[l].id # match'[m].id
    <3>1. CASE l = n \/ m = n
      BY <2>3, <2>4, <2>6, <2>8, <3>1
    <3>2. CASE l # n /\ m # n
      BY <2>4, <2>8, <3>2 DEF ServeInv
    <3> QED
      BY <3>1, <3>2
  <2> QED
    BY <2>4, <2>7, <2>8 DEF ServeInv
<1> QED
  BY <1>1, <1>2

LEMMA TreeAttach ==
  ASSUME NEW n \in Nodes, Tree!Attach(n)
  PROVE  \/ match' = match
         \/ \E driver \in drivers :
              Tree!Matches(driver, n) /\ match' \in Tree!Probed(driver, n, match)
BY DEF Tree!Attach

(* The devices of some nodes go.                                              *)
LEMMA TreeGone ==
  ASSUME TreeTypes, NameInv, ServeInv, NEW ns, Tree!Gone(ns),
         UNCHANGED <<drivers, requested>>
  PROVE  /\ NameInv' /\ ServeInv' /\ DOMAIN named' = Nodes /\ DOMAIN match' = Nodes
         /\ \A n \in Nodes : named'[n] = IF n \in ns THEN <<>> ELSE named[n]
<1>1. /\ DOMAIN named' = Nodes /\ DOMAIN match' = Nodes
      /\ \A n \in Nodes : /\ named'[n] = IF n \in ns THEN <<>> ELSE named[n]
                          /\ match'[n] = IF n \in ns THEN Tree!NoDriver ELSE match[n]
  BY DEF Tree!Gone, Tree!NoDevice
<1>2. NameInv'
  <2>1. \A n \in Nodes : named'[n] # <<>> => named'[n] = named[n]
    BY <1>1
  <2>2. \A m, n \in Nodes : m # n /\ named'[m] # <<>> => named'[m] # named'[n]
    BY <1>1, <2>1 DEF NameInv
  <2> QED
    BY <2>1, <2>2 DEF NameInv
<1>3. ServeInv'
  BY <1>1 DEF ServeInv
<1> QED
  BY <1>1, <1>2, <1>3

LEMMA TreeDrivers ==
  ASSUME TreeInv, NEW driver \in {"mcu", "led"},
         \/ Tree!RegisterDriver(driver) \/ Tree!UnregisterDriver(driver)
         \/ \E n \in Nodes : Tree!Offer(driver, n)
  PROVE  TreeInv'
<1>1. UNCHANGED <<tree, child, auto, named, requested>>
  BY DEF Tree!RegisterDriver, Tree!UnregisterDriver, Tree!Offer, Tree!treeVars
<1>2. NameInv' /\ WalkInv'
  BY <1>1 DEF TreeInv, NameInv, WalkInv
<1>3. CASE Tree!RegisterDriver(driver)
  BY <1>1, <1>2, <1>3 DEF Tree!RegisterDriver, TreeInv, TreeTypes, ServeInv, Tree!Offers
<1>4. CASE Tree!UnregisterDriver(driver)
  <2>1. /\ drivers' = drivers \ {driver} /\ offers' = {} /\ DOMAIN match' = Nodes
        /\ \A n \in Nodes : match'[n] = IF match[n].driver = driver THEN Tree!NoDriver
                                        ELSE match[n]
    BY <1>4 DEF Tree!UnregisterDriver
  <2>2. ServeInv'
    BY <1>1, <2>1 DEF TreeInv, ServeInv
  <2> QED
    BY <1>1, <1>2, <2>1, <2>2 DEF TreeInv, TreeTypes
<1>5. CASE \E n \in Nodes : Tree!Offer(driver, n)
  <2>1. PICK n \in Nodes : Tree!Offer(driver, n)
    BY <1>5
  <2>2. /\ drivers' = drivers /\ offers' \subseteq offers /\ driver \in drivers
        /\ \/ match' = match
           \/ n \in Tree!Offers(driver) /\ match' \in Tree!Probed(driver, n, match)
    BY <2>1 DEF Tree!Offer, TreeInv, TreeTypes
  <2>3. ServeInv' /\ DOMAIN match' = Nodes
    <3>1. CASE match' = match
      BY <1>1, <2>2, <3>1 DEF TreeInv, TreeTypes, ServeInv
    <3>2. CASE n \in Tree!Offers(driver) /\ match' \in Tree!Probed(driver, n, match)
      <4>1. match[n] = Tree!NoDriver /\ named[n] # <<>> /\ Tree!Matches(driver, n)
        BY <3>2 DEF Tree!Offers, Tree!NoDevice
      <4> QED
        BY <1>1, <2>2, <3>2, <4>1, TreeServe DEF TreeInv, TreeTypes
    <3> QED
      BY <2>2, <3>1, <3>2
  <2> QED
    BY <1>1, <1>2, <2>2, <2>3 DEF TreeInv, TreeTypes
<1> QED
  BY <1>3, <1>4, <1>5

(* A device that the bus driver of a backend makes, and takes back.             *)
LEMMA TreeBus ==
  ASSUME TreeInv, NEW n \in Nodes, Tree!BusProbe(n) \/ Tree!BusRemove(n)
  PROVE  TreeInv'
<1>1. Bus[n] # "of" /\ UNCHANGED <<drivers, offers, tree, child, auto>>
  BY DEF Tree!BusProbe, Tree!BusRemove, Tree!treeVars
<1>2. \A j \in DOMAIN Children : Children[j] # n /\ Children[j] \in Nodes
  BY <1>1, TreeFacts
<1>3. CASE Tree!BusProbe(n)
  <2>1. /\ named[n] = <<>>
        /\ named' = [named EXCEPT ![n] = <<Name[n], n, Tree!RequestedId(n)>>]
        /\ requested' = [requested EXCEPT ![n] = Tree!RequestedId(n)]
        /\ Tree!Attach(n)
    BY <1>3 DEF Tree!BusProbe, Tree!NoDevice
  <2>2. /\ DOMAIN named' = Nodes /\ requested' \in [Nodes -> Int]
        /\ \A m \in Nodes \ {n} : named'[m] = named[m] /\ requested'[m] = requested[m]
        /\ named'[n] = <<Name[n], n, Tree!RequestedId(n)>>
    BY <2>1, TreeFacts DEF TreeInv, TreeTypes
  <2>3. Tree!CompatibleOf(n) # "none"
    BY <1>1, DriverConstants DEF Tree!CompatibleOf, Tree!MatchAssumption
  <2>4. NameInv'
    <3>1. named'[n] # <<>> /\ named'[n][2] = n
      BY <2>2
    <3>2. \A m \in Nodes \ {n} : named[m] # <<>> => named[m][2] # n
      <4> SUFFICES ASSUME NEW m \in Nodes \ {n}, named[m] # <<>> PROVE named[m][2] # n
        OBVIOUS
      <4>1. CASE Bus[m] = "of"
        <5>1. named[m][2] \in {"id", "auto"}
          BY <4>1 DEF TreeInv, NameInv
        <5> QED
          BY <5>1, TreeFacts
      <4>2. CASE Bus[m] # "of"
        BY <4>2 DEF TreeInv, NameInv
      <4> QED
        BY <4>1, <4>2
    <3>3. \A m \in Nodes \ {n} : named'[m] # <<>> => named'[m] # named'[n]
      BY <2>2, <3>1, <3>2
    <3>4. \A l, m \in Nodes : l # m /\ named'[l] # <<>> => named'[l] # named'[m]
      BY <2>2, <3>1, <3>3 DEF TreeInv, NameInv
    <3>5. ASSUME NEW m \in Nodes, named'[m] # <<>>
          PROVE  /\ Tree!CompatibleOf(m) # "none"
                 /\ named'[m][2] \in IF Bus[m] = "of" THEN {"id", "auto"} ELSE {m}
      <4>1. CASE m = n
        BY <1>1, <2>2, <2>3, <4>1
      <4>2. CASE m # n
        BY <2>2, <3>5, <4>2 DEF TreeInv, NameInv
      <4> QED
        BY <4>1, <4>2
    <3> QED
      BY <3>4, <3>5 DEF NameInv
  <2>5. WalkInv'
    BY <1>1, <1>2, <2>2 DEF TreeInv, WalkInv, Tree!OfDevices
  <2>6. match[n] = Tree!NoDriver
    BY <2>1 DEF TreeInv, ServeInv
  <2>7. ServeInv' /\ DOMAIN match' = Nodes
    <3>1. named'[n] # <<>>
      BY <2>2
    <3> QED
      BY <1>1, <2>1, <2>2, <2>6, <3>1, TreeAttach, TreeServe DEF TreeInv
  <2> QED
    BY <1>1, <2>2, <2>4, <2>5, <2>7 DEF TreeInv, TreeTypes
<1>4. CASE Tree!BusRemove(n)
  <2>1. Tree!Gone({n}) /\ requested' = requested
    BY <1>4 DEF Tree!BusRemove
  <2>2. /\ NameInv' /\ ServeInv' /\ DOMAIN named' = Nodes /\ DOMAIN match' = Nodes
        /\ \A m \in Nodes : named'[m] = IF m \in {n} THEN <<>> ELSE named[m]
    BY <1>1, <2>1, TreeGone DEF TreeInv
  <2>3. WalkInv'
    BY <1>1, <1>2, <2>2 DEF TreeInv, WalkInv, Tree!OfDevices
  <2> QED
    BY <1>1, <2>1, <2>2, <2>3 DEF TreeInv, TreeTypes
<1> QED
  BY <1>3, <1>4

(* The walk of the children of the PDM bus node.                               *)
LEMMA TreeWalk ==
  ASSUME TreeInv,
         \/ Tree!TreeProbe \/ Tree!SkipChild \/ Tree!AddChildFails \/ Tree!TreeDone
         \/ Tree!TreeRemove
  PROVE  TreeInv'
<1>1. CASE Tree!TreeProbe
  <2>1. /\ tree \in {"away", "failed"} /\ tree' = "probing" /\ child' = 1
        /\ UNCHANGED <<drivers, offers, named, requested, match>>
    BY <1>1 DEF Tree!TreeProbe
  <2>2. WalkInv'
    BY <2>1, TreeFacts DEF TreeInv, WalkInv, Tree!OfDevices
  <2>3. TreeTypes'
    BY <2>1, TreeFacts DEF TreeInv, TreeTypes
  <2> QED
    BY <2>1, <2>2, <2>3 DEF TreeInv, NameInv, ServeInv
<1>2. CASE Tree!SkipChild
  <2>1. /\ tree = "probing" /\ child \in DOMAIN Children
        /\ Compatible[Children[child]] = "none" /\ child' = child + 1
        /\ UNCHANGED <<drivers, offers, tree, named, requested, match>>
    BY <1>2 DEF Tree!SkipChild
  <2>2. child \in 1..Len(Children)
    BY <2>1, TreeFacts
  <2>3. WalkInv'
    BY <2>1, <2>2, TreeFacts DEF TreeInv, WalkInv
  <2>4. TreeTypes'
    BY <2>1, <2>2, TreeFacts DEF TreeInv, TreeTypes
  <2> QED
    BY <2>1, <2>3, <2>4 DEF TreeInv, NameInv, ServeInv
<1>3. CASE Tree!TreeDone
  <2>1. /\ tree = "probing" /\ child \notin DOMAIN Children /\ tree' = "there"
        /\ UNCHANGED <<drivers, offers, child, named, requested, match>>
    BY <1>3 DEF Tree!TreeDone
  <2>2. child = Len(Children) + 1
    BY <2>1, TreeFacts DEF TreeInv, TreeTypes
  <2>3. WalkInv'
    <3> SUFFICES ASSUME NEW n \in Tree!OfDevices
                 PROVE  (named[n] # <<>>) <=> (Compatible[n] # "none")
      BY <2>1 DEF WalkInv
    <3>1. PICK j \in DOMAIN Children : Children[j] = n
      BY TreeFacts DEF Tree!OfDevices
    <3>2. j < child
      BY <2>2, TreeFacts
    <3> QED
      BY <2>1, <3>1, <3>2 DEF TreeInv, WalkInv
  <2> QED
    BY <2>1, <2>3 DEF TreeInv, TreeTypes, NameInv, ServeInv
<1>4. CASE Tree!AddChildFails \/ Tree!TreeRemove
  <2>1. /\ tree' \in {"away", "failed"} /\ Tree!Gone(Tree!OfDevices)
        /\ UNCHANGED <<drivers, offers, child, requested>>
    BY <1>4 DEF Tree!AddChildFails, Tree!TreeRemove
  <2>2. /\ NameInv' /\ ServeInv' /\ DOMAIN named' = Nodes /\ DOMAIN match' = Nodes
        /\ \A m \in Nodes : named'[m] = IF m \in Tree!OfDevices THEN <<>> ELSE named[m]
    BY <2>1, TreeGone DEF TreeInv
  <2>3. WalkInv'
    BY <2>1, <2>2 DEF WalkInv, Tree!OfDevices
  <2> QED
    BY <2>1, <2>2, <2>3 DEF TreeInv, TreeTypes
<1> QED
  BY <1>1, <1>2, <1>3, <1>4

LEMMA TreeAdd ==
  ASSUME TreeInv, Tree!AddChild
  PROVE  TreeInv'
<1> DEFINE n == Children[child]
<1>1. /\ tree = "probing" /\ child \in DOMAIN Children /\ Compatible[n] # "none"
      /\ \A m \in Nodes : named[m] # Tree!ChildName(n)
      /\ child' = child + 1
      /\ named' = [named EXCEPT ![n] = Tree!ChildName(n)]
      /\ requested' = [requested EXCEPT ![n] = Tree!RequestedId(n)]
      /\ Tree!Attach(n)
      /\ UNCHANGED <<drivers, offers, tree>>
  BY DEF Tree!AddChild
<1>2. n \in Nodes /\ Bus[n] = "of" /\ child \in 1..Len(Children)
  BY <1>1, TreeFacts
<1>3. named[n] = <<>>
  BY <1>1, <1>2 DEF TreeInv, WalkInv
<1>4. PICK kind \in {"id", "auto"}, number_ \in {auto, Tree!RequestedId(n)} :
        Tree!ChildName(n) = <<Name[n], kind, number_>>
  BY DEF Tree!ChildName
<1> HIDE DEF n
<1>5. /\ DOMAIN named' = Nodes /\ requested' \in [Nodes -> Int]
      /\ \A m \in Nodes \ {n} : named'[m] = named[m] /\ requested'[m] = requested[m]
      /\ named'[n] = <<Name[n], kind, number_>>
  BY <1>1, <1>2, <1>4, TreeFacts DEF TreeInv, TreeTypes
<1>6. named'[n] # <<>> /\ named'[n][2] = kind /\ named'[n][3] = number_
  BY <1>5
<1>7. NameInv'
  <2>1. \A m \in Nodes : named[m] # named'[n]
    BY <1>1, <1>4, <1>5
  <2>2. \A l, m \in Nodes : l # m /\ named'[l] # <<>> => named'[l] # named'[m]
    BY <1>5, <1>6, <2>1 DEF TreeInv, NameInv
  <2>3. Tree!CompatibleOf(n) # "none"
    BY <1>1, <1>2 DEF Tree!CompatibleOf
  <2>4. ASSUME NEW m \in Nodes, named'[m] # <<>>
        PROVE  /\ Tree!CompatibleOf(m) # "none"
               /\ named'[m][2] \in IF Bus[m] = "of" THEN {"id", "auto"} ELSE {m}
    <3>1. CASE m = n
      BY <1>2, <1>5, <1>6, <2>3, <3>1
    <3>2. CASE m # n
      BY <1>5, <2>4, <3>2 DEF TreeInv, NameInv
    <3> QED
      BY <3>1, <3>2
  <2> QED
    BY <2>2, <2>4 DEF NameInv
<1>8. WalkInv'
  <2>1. \A j \in DOMAIN Children : Children[j] = n <=> j = child
    BY <1>1, TreeFacts DEF n
  <2> SUFFICES ASSUME NEW j \in DOMAIN Children
               PROVE  (named'[Children[j]] # <<>>)
                        <=> (j < child' /\ Compatible[Children[j]] # "none")
    BY <1>1 DEF WalkInv
  <2>2. j \in Int /\ child \in Int /\ Children[j] \in Nodes
    BY <1>2, TreeFacts
  <2>3. CASE j = child
    BY <1>1, <1>6, <2>1, <2>2, <2>3
  <2>4. CASE j # child
    <3>1. named'[Children[j]] = named[Children[j]]
      BY <1>5, <2>1, <2>2, <2>4
    <3>2. j < child' <=> j < child
      BY <1>1, <2>2, <2>4
    <3> QED
      BY <1>1, <3>1, <3>2 DEF TreeInv, WalkInv
  <2> QED
    BY <2>3, <2>4
<1>9. match[n] = Tree!NoDriver
  BY <1>2, <1>3 DEF TreeInv, ServeInv
<1>10. ServeInv' /\ DOMAIN match' = Nodes
  BY <1>1, <1>2, <1>5, <1>6, <1>9, TreeAttach, TreeServe DEF TreeInv
<1>11. child' \in 1..Len(Children) + 1
  BY <1>1, <1>2, TreeFacts
<1> QED
  BY <1>1, <1>5, <1>7, <1>8, <1>10, <1>11 DEF TreeInv, TreeTypes

THEOREM TreeInvariant == Tree!Spec => []TreeInv
<1>1. Tree!Init => TreeInv
  <2> SUFFICES ASSUME Tree!Init PROVE TreeInv
    OBVIOUS
  <2>1. \A n \in Nodes : named[n] = <<>> /\ match[n] = Tree!NoDriver
    BY DEF Tree!Init, Tree!NoDevice
  <2>2. NameInv /\ ServeInv
    BY <2>1 DEF NameInv, ServeInv
  <2>3. WalkInv
    BY <2>1 DEF Tree!Init, WalkInv, Tree!OfDevices
  <2>4. TreeTypes
    BY TreeFacts DEF Tree!Init, TreeTypes
  <2> QED
    BY <2>2, <2>3, <2>4 DEF TreeInv
<1>2. TreeInv /\ [Tree!Next]_(Tree!vars) => TreeInv'
  <2>1. TreeInv /\ UNCHANGED Tree!vars => TreeInv'
    <3> SUFFICES ASSUME TreeInv, UNCHANGED Tree!vars PROVE TreeInv'
      OBVIOUS
    <3>1. UNCHANGED <<drivers, offers, tree, child, named, requested, match>>
      BY DEF Tree!vars, Tree!treeVars
    <3>2. NameInv' /\ ServeInv'
      BY <3>1 DEF TreeInv, NameInv, ServeInv
    <3> QED
      BY <3>1, <3>2 DEF TreeInv, TreeTypes, WalkInv
  <2>2. TreeInv /\ Tree!Next => TreeInv'
    BY TreeDrivers, TreeBus, TreeWalk, TreeAdd DEF Tree!Next
  <2> QED
    BY <2>1, <2>2
<1> QED
  BY <1>1, <1>2, PTL DEF Tree!Spec

-------------------------------------------------------------------------------
(* Load and unload.  First the registries as sequences.                         *)
LEMMA FirstFacts ==
  ASSUME NEW T, NEW s \in Seq(T), \A i, j \in DOMAIN s : s[i] = s[j] => i = j
  PROVE  /\ First(s, 0) = {}
         /\ \A n \in 1..Len(s) :
              /\ s[n] \in T /\ s[n] \notin First(s, n - 1) /\ s[n] \in First(s, n)
              /\ First(s, n) = First(s, n - 1) \cup {s[n]}
              /\ First(s, n - 1) = First(s, n) \ {s[n]}
         /\ \A n \in 0..Len(s) : First(s, n) \subseteq T
<1>1. DOMAIN s = 1..Len(s) /\ Len(s) \in Nat
  BY LenProperties
<1>2. First(s, 0) = {}
  BY DEF First
<1>3. ASSUME NEW n \in 1..Len(s)
      PROVE  /\ s[n] \in T /\ s[n] \notin First(s, n - 1) /\ s[n] \in First(s, n)
             /\ First(s, n) = First(s, n - 1) \cup {s[n]}
             /\ First(s, n - 1) = First(s, n) \ {s[n]}
  <2>1. n \in Nat /\ n \in 1..n /\ n \in DOMAIN s
    BY <1>1
  <2>2. \A j \in 1..n - 1 : j \in DOMAIN s /\ j # n
    BY <1>1
  <2>3. s[n] \notin First(s, n - 1)
    BY <2>1, <2>2 DEF First
  <2>4. First(s, n) = First(s, n - 1) \cup {s[n]}
    <3>1. 1..n = (1..n - 1) \cup {n}
      BY <2>1
    <3> QED
      BY <3>1 DEF First
  <2> QED
    BY <1>1, <2>1, <2>3, <2>4
<1>4. ASSUME NEW n \in 0..Len(s)  PROVE  First(s, n) \subseteq T
  BY <1>1 DEF First
<1> QED
  BY <1>2, <1>3, <1>4

LEMMA LoadFacts ==
  /\ Backends \in Seq(Load!BackendSet) /\ Len(Backends) \in Nat
  /\ Drivers \in Seq(Load!DriverSet) /\ Len(Drivers) \in Nat
  /\ \A i, j \in DOMAIN Backends : Backends[i] = Backends[j] => i = j
  /\ \A i, j \in DOMAIN Drivers : Drivers[i] = Drivers[j] => i = j
  /\ Enumerating \subseteq Load!BackendSet
  /\ Load!BackendSet \cap Load!DriverSet = {}
  /\ (Load!BackendSet \cup Load!DriverSet) \cap (Load!Core \cup {"mock"}) = {}
  /\ Enumerator \in [BusDevices -> Enumerating \cup {"of", "mock"}]
  /\ DriverOf \in [BusDevices -> Load!DriverSet]
BY DriverConstants DEF Load!ModuleAssumption

LEMMA BackendFacts ==
  /\ First(Backends, 0) = {}
  /\ \A n \in 1..Len(Backends) :
       /\ Backends[n] \in Load!BackendSet /\ Backends[n] \notin First(Backends, n - 1)
       /\ Backends[n] \in First(Backends, n)
       /\ First(Backends, n) = First(Backends, n - 1) \cup {Backends[n]}
       /\ First(Backends, n - 1) = First(Backends, n) \ {Backends[n]}
  /\ \A n \in 0..Len(Backends) : First(Backends, n) \subseteq Load!BackendSet
BY LoadFacts, FirstFacts

LEMMA DriverFacts ==
  /\ First(Drivers, 0) = {}
  /\ \A n \in 1..Len(Drivers) :
       /\ Drivers[n] \in Load!DriverSet /\ Drivers[n] \notin First(Drivers, n - 1)
       /\ Drivers[n] \in First(Drivers, n)
       /\ First(Drivers, n) = First(Drivers, n - 1) \cup {Drivers[n]}
       /\ First(Drivers, n - 1) = First(Drivers, n) \ {Drivers[n]}
  /\ \A n \in 0..Len(Drivers) : First(Drivers, n) \subseteq Load!DriverSet
BY LoadFacts, FirstFacts

(* What stands, and what is registered and taken back.                          *)
UpIs(S) == [r \in Load!Parts |-> IF r \in S THEN 1 ELSE 0]

LEMMA UpAndDown ==
  ASSUME NEW S, NEW S2, NEW part \in Load!Parts, up = UpIs(S),
         \/ Load!Up(part) /\ part \notin S /\ S2 = S \cup {part}
         \/ Load!Down(part) /\ part \in S /\ S2 = S \ {part}
  PROVE  up' = UpIs(S2)
<1>1. CASE Load!Up(part) /\ part \notin S /\ S2 = S \cup {part}
  BY <1>1 DEF Load!Up, UpIs
<1>2. CASE Load!Down(part) /\ part \in S /\ S2 = S \ {part}
  BY <1>2 DEF Load!Down, UpIs
<1> QED
  BY <1>1, <1>2

(* Where only the core is touched.                                            *)
Quiet == {"out", "bus", "err_id", "of", "of_failed", "bus_unregister", "misc", "err_bus",
          "chrdev", "cdev_err_manager", "cdev_misc", "class", "cdev_err_chrdev",
          "cdev_chrdev", "err_cdev", "exit_cdev"}

LEMMA QuietStands ==
  ASSUME NEW at, NEW n, at \in Quiet \/ (at = "backends" /\ n = 1)
  PROVE  /\ ProcUp(at, n) = 0 /\ DebugUp(at, n) = 0
         /\ Standing(at, n) = CoreUp(at)
<1>1. BackendsUp(at, n) = 0 /\ DriversUp(at, n) = 0
  BY DEF Quiet, BackendsUp, DriversUp, InDriver, Complete, Load!Undoing, Load!Leaving
<1>2. ProcUp(at, n) = 0 /\ DebugUp(at, n) = 0
  BY <1>1 DEF Quiet, ProcUp, DebugUp
<1>3. Standing(at, n) = CoreUp(at)
  BY <1>1, BackendFacts, DriverFacts DEF Standing
<1> QED
  BY <1>2, <1>3

LEMMA EntriesKept ==
  ASSUME EntryInv, UNCHANGED Load!diagVars,
         ProcUp(loadPc', entry') = ProcUp(loadPc, entry), DebugUp(loadPc', entry') = DebugUp(loadPc, entry)
  PROVE  EntryInv'
<1>1. UNCHANGED <<proc, debug, procUsers, procRoot, debugUsers, debugRoot>>
  BY DEF Load!diagVars
<1>2. Load!DirectoriesShared'
  BY <1>1 DEF EntryInv, Load!DirectoriesShared
<1> QED
  BY <1>1, <1>2 DEF EntryInv

LEMMA DevicesKept ==
  ASSUME DeviceInv, devices' \subseteq devices, served' \subseteq served,
         served' \subseteq devices',
         \A d \in devices' :
           IF Enumerator[d] = "mock" THEN loadPc' = "live"
           ELSE Enumerator[d] \in Standing(loadPc, entry)
                  => Enumerator[d] \in Standing(loadPc', entry'),
         \A d \in served' : DriverOf[d] \in Standing(loadPc, entry)
                              => DriverOf[d] \in Standing(loadPc', entry')
  PROVE  DeviceInv'
BY DEF DeviceInv

(* The core on its way up, ...                                                *)
LEMMA CoreRises ==
  ASSUME LoadInv, NEW part \in Load!Core, NEW at \in Rising,
         NEW next \in Rising \cup {"backends"}, Load!Register(part, at, next),
         part \notin CoreUp(at), CoreUp(next) = CoreUp(at) \cup {part}
  PROVE  LoadInv'
<1>1. loadPc = at /\ loadPc' = next /\ entry = 1 /\ entry' = 1
      /\ UNCHANGED <<devices, served, Load!diagVars>>
  BY DEF Load!Register, Load!Goto, Load!busVars, LoadInv, PlaceInv
<1>2. at \in Quiet /\ (next \in Quiet \/ next = "backends")
  BY DEF Rising, Quiet
<1>3. Standing(loadPc, entry) = CoreUp(at) /\ ProcUp(loadPc, entry) = 0 /\ DebugUp(loadPc, entry) = 0
  BY <1>1, <1>2, QuietStands
<1>4. /\ Standing(loadPc', entry') = CoreUp(next)
      /\ ProcUp(loadPc', entry') = 0 /\ DebugUp(loadPc', entry') = 0
  BY <1>1, <1>2, QuietStands
<1>5. up' = UpIs(Standing(loadPc', entry'))
  BY <1>3, <1>4, UpAndDown DEF Load!Register, Load!Parts, LoadInv, UpIs
<1>6. EntryInv'
  BY <1>1, <1>3, <1>4, EntriesKept DEF LoadInv
<1>7. DeviceInv'
  <2>1. \A d \in devices : Enumerator[d] # "mock"
    BY <1>1 DEF LoadInv, DeviceInv, Rising
  <2> QED
    BY <1>1, <1>3, <1>4, <2>1, DevicesKept DEF LoadInv, DeviceInv
<1>8. PlaceInv'
  BY <1>1, LoadFacts DEF PlaceInv, Rising, InDriver, Load!Undoing, Load!Leaving
<1> QED
  BY <1>5, <1>6, <1>7, <1>8 DEF LoadInv, UpIs

(* ... and when a step of it fails, or on its way down.                         *)
LEMMA CoreFalls ==
  ASSUME LoadInv, NEW at \in Quiet, NEW next \in Quiet \ Rising,
         loadPc = at, loadPc' = next, UNCHANGED <<entry, Load!diagVars>>,
         \/ UNCHANGED up /\ CoreUp(next) = CoreUp(at)
         \/ \E part \in Load!Core :
              Load!Down(part) /\ part \in CoreUp(at) /\ CoreUp(next) = CoreUp(at) \ {part},
         devices' \subseteq devices, served' \subseteq served, served' \subseteq devices',
         \A d \in devices' : Enumerator[d] = "of" => "of" \in CoreUp(next)
  PROVE  LoadInv'
<1>1. Standing(loadPc, entry) = CoreUp(at) /\ ProcUp(loadPc, entry) = 0 /\ DebugUp(loadPc, entry) = 0
  BY QuietStands
<1>2. /\ Standing(loadPc', entry') = CoreUp(next)
      /\ ProcUp(loadPc', entry') = 0 /\ DebugUp(loadPc', entry') = 0
  BY QuietStands
<1>3. up' = UpIs(Standing(loadPc', entry'))
  <2>1. CASE UNCHANGED up /\ CoreUp(next) = CoreUp(at)
    BY <1>1, <1>2, <2>1 DEF LoadInv, UpIs
  <2>2. CASE \E part \in Load!Core :
              Load!Down(part) /\ part \in CoreUp(at) /\ CoreUp(next) = CoreUp(at) \ {part}
    BY <1>1, <1>2, <2>2, UpAndDown DEF LoadInv, UpIs, Load!Parts
  <2> QED
    BY <2>1, <2>2
<1>4. EntryInv'
  BY <1>1, <1>2, EntriesKept DEF LoadInv
<1>5. DeviceInv'
  <2>1. Standing(loadPc, entry) \subseteq Load!Core
    BY <1>1 DEF CoreUp, Load!Core
  <2>2. \A d \in devices : Enumerator[d] \in Load!BackendSet \cup {"of", "mock"}
                          /\ DriverOf[d] \in Load!DriverSet
    BY LoadFacts DEF LoadInv, DeviceInv
  <2>3. \A d \in devices : Enumerator[d] # "mock"
    BY DEF LoadInv, DeviceInv, Quiet
  <2>4. \A d \in devices : Enumerator[d] = "of"
    BY <2>1, <2>2, <2>3, LoadFacts DEF LoadInv, DeviceInv
  <2>5. \A d \in served : FALSE
    BY <2>1, <2>2, LoadFacts DEF LoadInv, DeviceInv
  <2> QED
    BY <1>1, <1>2, <2>4, <2>5, DevicesKept DEF LoadInv
<1>6. PlaceInv'
  BY DEF PlaceInv, Quiet, Rising, InDriver, Load!Undoing, Load!Leaving
<1> QED
  BY <1>3, <1>4, <1>5, <1>6 DEF LoadInv, UpIs

LEMMA OfDevicesStand ==
  ASSUME LoadInv, loadPc \in Quiet, NEW d \in devices, Enumerator[d] = "of"
  PROVE  "of" \in CoreUp(loadPc)
BY QuietStands DEF LoadInv, DeviceInv

LEMMA CoreFails ==
  ASSUME LoadInv, NEW at \in Quiet, NEW label \in Quiet \ Rising,
         CoreUp(label) = CoreUp(at), Load!Fails(at, label)
  PROVE  LoadInv'
<1>1. loadPc = at /\ loadPc' = label /\ UNCHANGED <<entry, up, Load!diagVars, devices, served>>
  BY DEF Load!Fails, Load!Goto, Load!busVars
<1>2. \A d \in devices' : Enumerator[d] = "of" => "of" \in CoreUp(label)
  BY <1>1, OfDevicesStand
<1>3. devices' \subseteq devices /\ served' \subseteq served /\ served' \subseteq devices'
  BY <1>1 DEF LoadInv, DeviceInv
<1> QED
  BY <1>1, <1>2, <1>3, CoreFalls

LEMMA CoreGoes ==
  ASSUME LoadInv, NEW part \in Load!Core \ {"of"}, NEW at \in Quiet,
         NEW next \in Quiet \ Rising, part \in CoreUp(at), CoreUp(next) = CoreUp(at) \ {part},
         Load!Unregister(part, at, next)
  PROVE  LoadInv'
<1>1. loadPc = at /\ loadPc' = next /\ UNCHANGED <<entry, Load!diagVars, devices, served>>
      /\ Load!Down(part)
  BY DEF Load!Unregister, Load!Goto, Load!busVars
<1>2. \A d \in devices' : Enumerator[d] = "of" => "of" \in CoreUp(next)
  BY <1>1, OfDevicesStand
<1>3. devices' \subseteq devices /\ served' \subseteq served /\ served' \subseteq devices'
  BY <1>1 DEF LoadInv, DeviceInv
<1>4. \E p \in Load!Core :
        Load!Down(p) /\ p \in CoreUp(at) /\ CoreUp(next) = CoreUp(at) \ {p}
  BY <1>1
<1> QED
  BY <1>1, <1>2, <1>3, <1>4, CoreFalls

LEMMA LoadBus ==
  ASSUME LoadInv, Load!BusInit
  PROVE  LoadInv'
<1> USE DEF CoreUp, Load!Core, Rising, Quiet
<1>1. CASE Load!Register("bus", "bus", "of")
  BY <1>1, CoreRises
<1>2. CASE Load!Fails("bus", "err_id")
  BY <1>2, CoreFails
<1>3. CASE Load!Register("of", "of", "misc")
  BY <1>3, CoreRises
<1>4. CASE Load!Fails("of", "of_failed")
  BY <1>4, CoreFails
<1>5. CASE Load!Unregister("bus", "of_failed", "err_id")
  BY <1>5, CoreGoes
<1> QED
  BY <1>1, <1>2, <1>3, <1>4, <1>5 DEF Load!BusInit

LEMMA LoadCdev ==
  ASSUME LoadInv, Load!CdevInit
  PROVE  LoadInv'
<1> USE DEF CoreUp, Load!Core, Rising, Quiet
<1>1. CASE Load!Register("misc", "misc", "chrdev")
  BY <1>1, CoreRises
<1>2. CASE Load!Fails("misc", "err_bus")
  BY <1>2, CoreFails
<1>3. CASE Load!Register("chrdev", "chrdev", "class")
  BY <1>3, CoreRises
<1>4. CASE Load!Fails("chrdev", "cdev_err_manager")
  BY <1>4, CoreFails
<1>5. CASE Load!Register("class", "class", "backends")
  BY <1>5, CoreRises
<1>6. CASE Load!Fails("class", "cdev_err_chrdev")
  BY <1>6, CoreFails
<1>7. CASE Load!Unregister("chrdev", "cdev_err_chrdev", "cdev_err_manager")
  BY <1>7, CoreGoes
<1>8. CASE Load!Unregister("misc", "cdev_err_manager", "err_bus")
  BY <1>8, CoreGoes
<1> QED
  BY <1>1, <1>2, <1>3, <1>4, <1>5, <1>6, <1>7, <1>8 DEF Load!CdevInit

LEMMA LoadCoreExit ==
  ASSUME LoadInv, Load!CdevExit \/ Load!BusExit
  PROVE  LoadInv'
<1> USE DEF CoreUp, Load!Core, Rising, Quiet
<1>1. CASE loadPc \in {"err_cdev", "exit_cdev"}
           /\ Load!Unregister("class", loadPc, "cdev_chrdev")
  BY <1>1, CoreGoes
<1>2. CASE Load!Unregister("chrdev", "cdev_chrdev", "cdev_misc")
  BY <1>2, CoreGoes
<1>3. CASE Load!Unregister("misc", "cdev_misc", "err_bus")
  BY <1>3, CoreGoes
<1>4. CASE Load!Unregister("bus", "bus_unregister", "err_id")
  BY <1>4, CoreGoes
<1>5. CASE Load!Unregister("ids", "err_id", "out")
  BY <1>5, CoreGoes
<1>6. CASE /\ Load!Goto("err_bus", "bus_unregister")
           /\ Load!Down("of") /\ Load!Withdraw(Load!DevicesOf("of"))
           /\ UNCHANGED <<entry, Load!diagVars, loads>>
  <2>1. /\ loadPc = "err_bus" /\ loadPc' = "bus_unregister" /\ UNCHANGED <<entry, Load!diagVars>>
        /\ devices' = devices \ Load!DevicesOf("of")
        /\ served' = served \ Load!DevicesOf("of")
    BY <1>6 DEF Load!Goto, Load!Withdraw
  <2>2. \A d \in devices' : Enumerator[d] # "of"
    BY <2>1 DEF LoadInv, DeviceInv, Load!DevicesOf
  <2>3. \E p \in Load!Core :
          /\ Load!Down(p) /\ p \in CoreUp("err_bus")
          /\ CoreUp("bus_unregister") = CoreUp("err_bus") \ {p}
    BY <1>6
  <2>4. devices' \subseteq devices /\ served' \subseteq served /\ served' \subseteq devices'
    BY <2>1 DEF LoadInv, DeviceInv
  <2> QED
    BY <2>1, <2>2, <2>3, <2>4, CoreFalls
<1> QED
  BY <1>1, <1>2, <1>3, <1>4, <1>5, <1>6 DEF Load!CdevExit, Load!BusExit

(* The registry of the backends.                                               *)
LEMMA BackendStands ==
  ASSUME NEW n
  PROVE  /\ BackendsUp("backends", n) = n - 1 /\ DriversUp("backends", n) = 0
         /\ \A at \in Load!Undoing :
              BackendsUp(at, n) = n
              /\ DriversUp(at, n) = IF at = "exit_backends" THEN Len(Drivers) ELSE 0
         /\ \A at \in Load!Undoing \cup {"backends"} :
              /\ CoreUp(at) = Load!Core
              /\ ProcUp(at, n) = DriversUp(at, n) /\ DebugUp(at, n) = DriversUp(at, n)
BY DEF BackendsUp, DriversUp, ProcUp, DebugUp, CoreUp, Load!Core, InDriver, Complete,
   Load!Undoing, Load!Leaving

LEMMA LoadBackendInit ==
  ASSUME LoadInv, Load!BackendInit
  PROVE  LoadInv'
<1> DEFINE b == Backends[entry]
<1>1. /\ loadPc = "backends" /\ loadPc' = "backends" /\ entry \in 1..Len(Backends) /\ entry' = entry + 1
      /\ UNCHANGED <<Load!diagVars, devices, served>>
      /\ IF b \in Enumerating THEN Load!Up(b) ELSE UNCHANGED up
  BY LoadFacts DEF Load!BackendInit, LoadInv, PlaceInv, Load!busVars
<1>2. entry' - 1 = entry
  BY <1>1, LoadFacts
<1>3. /\ BackendsUp(loadPc, entry) = entry - 1 /\ BackendsUp(loadPc', entry') = entry
      /\ DriversUp(loadPc, entry) = 0 /\ DriversUp(loadPc', entry') = 0
      /\ CoreUp(loadPc) = Load!Core /\ CoreUp(loadPc') = Load!Core
      /\ ProcUp(loadPc, entry) = ProcUp(loadPc', entry') /\ DebugUp(loadPc, entry) = DebugUp(loadPc', entry')
  BY <1>1, <1>2, BackendStands
<1>4. First(Backends, entry) = First(Backends, entry - 1) \cup {b} /\ b \notin First(Backends, entry - 1)
      /\ b \notin Load!Core
  BY <1>1, BackendFacts, LoadFacts
<1> HIDE DEF b
<1>5. Standing(loadPc', entry') = Standing(loadPc, entry) \cup (Enumerating \cap {b})
      /\ b \notin Standing(loadPc, entry)
  BY <1>3, <1>4, DriverFacts DEF Standing
<1>6. up' = UpIs(Standing(loadPc', entry'))
  <2>1. CASE b \in Enumerating
    BY <1>1, <1>5, <2>1, UpAndDown DEF LoadInv, UpIs, Load!Parts
  <2>2. CASE b \notin Enumerating
    BY <1>1, <1>5, <2>2 DEF LoadInv, UpIs
  <2> QED
    BY <2>1, <2>2
<1>7. EntryInv'
  BY <1>1, <1>3, EntriesKept DEF LoadInv
<1>8. DeviceInv'
  BY <1>1, <1>5, DevicesKept DEF LoadInv, DeviceInv
<1>9. PlaceInv'
  BY <1>1, LoadFacts DEF PlaceInv, Rising, InDriver, Load!Undoing, Load!Leaving
<1> QED
  BY <1>6, <1>7, <1>8, <1>9 DEF LoadInv, UpIs

(* A step at which nothing is registered or taken back.                        *)
LEMMA LoadMoves ==
  ASSUME LoadInv, UNCHANGED <<up, Load!diagVars, devices, served>>,
         Standing(loadPc', entry') = Standing(loadPc, entry),
         ProcUp(loadPc', entry') = ProcUp(loadPc, entry), DebugUp(loadPc', entry') = DebugUp(loadPc, entry),
         loadPc # "live", PlaceInv'
  PROVE  LoadInv'
<1>1. EntryInv'
  BY EntriesKept DEF LoadInv
<1>2. DeviceInv'
  BY DevicesKept DEF LoadInv, DeviceInv
<1> QED
  BY <1>1, <1>2 DEF LoadInv

LEMMA DriverStands ==
  ASSUME NEW n
  PROVE  /\ DriversUp("driver", n) = n - 1
         /\ \A at \in {"proc", "debug", "driver_failed"} \cup Load!Leaving :
              DriversUp(at, n) = n
         /\ \A at \in Complete : DriversUp(at, n) = Len(Drivers)
         /\ \A at \in InDriver \cup {"undo_drivers", "err_drivers"} \cup Complete :
              BackendsUp(at, n) = Len(Backends)
         /\ BackendsUp("exit_drivers", n) = 0
         /\ \A at \in InDriver \cup Load!Leaving \cup Complete :
              /\ CoreUp(at) = Load!Core
              /\ ProcUp(at, n) = IF at \in {"proc", "driver_failed"} THEN n - 1
                                 ELSE DriversUp(at, n)
              /\ DebugUp(at, n) = IF at = "debug" THEN n - 1 ELSE ProcUp(at, n)
BY DEF BackendsUp, DriversUp, ProcUp, DebugUp, CoreUp, Load!Core, InDriver, Complete,
   Load!Undoing, Load!Leaving

LEMMA DriverPlaces ==
  ASSUME NEW n
  PROVE  /\ \A at \in {"driver", "proc", "debug", "driver_failed", "undo_drivers"} :
              CoreUp(at) = Load!Core /\ BackendsUp(at, n) = Len(Backends)
         /\ DriversUp("driver", n) = n - 1 /\ DriversUp("proc", n) = n
         /\ DriversUp("debug", n) = n /\ DriversUp("driver_failed", n) = n
         /\ DriversUp("undo_drivers", n) = n
         /\ ProcUp("driver", n) = n - 1 /\ ProcUp("proc", n) = n - 1
         /\ ProcUp("debug", n) = n /\ ProcUp("driver_failed", n) = n - 1
         /\ ProcUp("undo_drivers", n) = n
         /\ DebugUp("driver", n) = n - 1 /\ DebugUp("proc", n) = n - 1
         /\ DebugUp("debug", n) = n - 1 /\ DebugUp("driver_failed", n) = n - 1
         /\ DebugUp("undo_drivers", n) = n
<1>1. \A at \in {"driver", "proc", "debug", "driver_failed", "undo_drivers"} :
        CoreUp(at) = Load!Core /\ BackendsUp(at, n) = Len(Backends)
  BY DEF CoreUp, Load!Core, BackendsUp, InDriver, Complete, Load!Undoing
<1>2. /\ DriversUp("driver", n) = n - 1 /\ DriversUp("proc", n) = n
      /\ DriversUp("debug", n) = n /\ DriversUp("driver_failed", n) = n
      /\ DriversUp("undo_drivers", n) = n
  BY DEF DriversUp, Load!Leaving, Complete
<1>3. /\ ProcUp("driver", n) = n - 1 /\ ProcUp("proc", n) = n - 1
      /\ ProcUp("debug", n) = n /\ ProcUp("driver_failed", n) = n - 1
      /\ ProcUp("undo_drivers", n) = n
  BY <1>2 DEF ProcUp
<1>4. /\ DebugUp("driver", n) = n - 1 /\ DebugUp("proc", n) = n - 1
      /\ DebugUp("debug", n) = n - 1 /\ DebugUp("driver_failed", n) = n - 1
      /\ DebugUp("undo_drivers", n) = n
  BY <1>3 DEF DebugUp
<1> QED
  BY <1>1, <1>2, <1>3, <1>4

LEMMA LoadBackendMoves ==
  ASSUME LoadInv, Load!BackendInitFails \/ Load!BackendsDone \/ Load!BackendsGone
  PROVE  LoadInv'
<1> USE DEF Load!Undoing, Load!Leaving, InDriver, Complete
<1>1. UNCHANGED <<up, Load!diagVars, devices, served>> /\ loadPc # "live"
  BY DEF Load!BackendInitFails, Load!BackendsDone, Load!BackendsGone, Load!busVars
<1>2. CASE Load!BackendInitFails
  <2>1. /\ loadPc = "backends" /\ loadPc' = "undo_backends"
        /\ entry \in 1..Len(Backends) /\ entry' = entry - 1
    BY <1>2, LoadFacts DEF Load!BackendInitFails, LoadInv, PlaceInv
  <2>2. /\ Standing(loadPc', entry') = Standing(loadPc, entry)
        /\ ProcUp(loadPc', entry') = ProcUp(loadPc, entry) /\ DebugUp(loadPc', entry') = DebugUp(loadPc, entry)
    BY <2>1, BackendStands DEF Standing
  <2>3. PlaceInv'
    BY <2>1, LoadFacts DEF PlaceInv, Rising
  <2> QED
    BY <1>1, <2>2, <2>3, LoadMoves
<1>3. CASE Load!BackendsDone
  <2>1. /\ loadPc = "backends" /\ loadPc' = "driver"
        /\ entry - 1 = Len(Backends) /\ entry' = 1 /\ entry' - 1 = 0
    BY <1>3, LoadFacts DEF Load!BackendsDone, LoadInv, PlaceInv
  <2>2. /\ BackendsUp(loadPc, entry) = Len(Backends) /\ BackendsUp(loadPc', entry') = Len(Backends)
        /\ DriversUp(loadPc, entry) = 0 /\ DriversUp(loadPc', entry') = 0
        /\ CoreUp(loadPc) = CoreUp(loadPc')
        /\ ProcUp(loadPc', entry') = ProcUp(loadPc, entry) /\ DebugUp(loadPc', entry') = DebugUp(loadPc, entry)
    BY <2>1, BackendStands, DriverStands
  <2>3. PlaceInv'
    BY <2>1, LoadFacts DEF PlaceInv, Rising
  <2> QED
    BY <1>1, <2>2, <2>3, LoadMoves DEF Standing
<1>4. CASE Load!BackendsGone
  <2>1. /\ loadPc \in Load!Undoing /\ entry = 0
        /\ loadPc' = (IF loadPc = "exit_backends" THEN "exit_drivers" ELSE "err_cdev")
        /\ entry' = (IF loadPc = "exit_backends" THEN Len(Drivers) ELSE 0)
    BY <1>4 DEF Load!BackendsGone
  <2>2. /\ BackendsUp(loadPc, entry) = 0 /\ CoreUp(loadPc) = Load!Core
        /\ DriversUp(loadPc, entry) = IF loadPc = "exit_backends" THEN Len(Drivers) ELSE 0
        /\ ProcUp(loadPc, entry) = DriversUp(loadPc, entry) /\ DebugUp(loadPc, entry) = DriversUp(loadPc, entry)
    BY <2>1, BackendStands
  <2>3. PlaceInv'
    BY <2>1, LoadFacts DEF PlaceInv, Rising
  <2>4. CASE loadPc = "exit_backends"
    <3>1. /\ BackendsUp(loadPc', entry') = 0 /\ CoreUp(loadPc') = Load!Core
          /\ DriversUp(loadPc', entry') = Len(Drivers)
          /\ ProcUp(loadPc', entry') = Len(Drivers) /\ DebugUp(loadPc', entry') = Len(Drivers)
      BY <2>1, <2>4, DriverStands
    <3> QED
      BY <1>1, <2>2, <2>3, <2>4, <3>1, LoadMoves DEF Standing
  <2>5. CASE loadPc # "exit_backends"
    <3>1. loadPc' = "err_cdev" /\ "err_cdev" \in Quiet /\ CoreUp("err_cdev") = Load!Core
      BY <2>1, <2>5 DEF Quiet, CoreUp, Load!Core
    <3>2. /\ Standing(loadPc', entry') = Load!Core
          /\ ProcUp(loadPc', entry') = 0 /\ DebugUp(loadPc', entry') = 0
      BY <3>1, QuietStands
    <3>3. Standing(loadPc, entry) = Load!Core
      BY <2>2, <2>5, BackendFacts, DriverFacts DEF Standing
    <3> QED
      BY <1>1, <2>2, <2>3, <2>5, <3>2, <3>3, LoadMoves
  <2> QED
    BY <2>4, <2>5
<1> QED
  BY <1>2, <1>3, <1>4

LEMMA LoadBackendExit ==
  ASSUME LoadInv, Load!BackendExit
  PROVE  LoadInv'
<1> DEFINE b == Backends[entry]
<1>1. /\ loadPc \in Load!Undoing /\ loadPc' = loadPc /\ entry \in 1..Len(Backends) /\ entry' = entry - 1
      /\ UNCHANGED Load!diagVars
      /\ IF b \in Enumerating THEN Load!Down(b) /\ Load!Withdraw(Load!DevicesOf(b))
         ELSE UNCHANGED <<up, devices, served>>
  BY LoadFacts DEF Load!BackendExit, LoadInv, PlaceInv, Load!busVars
<1>2. /\ BackendsUp(loadPc, entry) = entry /\ BackendsUp(loadPc', entry') = entry - 1
      /\ DriversUp(loadPc, entry) = DriversUp(loadPc', entry')
      /\ CoreUp(loadPc) = Load!Core /\ CoreUp(loadPc') = Load!Core
      /\ ProcUp(loadPc, entry) = ProcUp(loadPc', entry') /\ DebugUp(loadPc, entry) = DebugUp(loadPc', entry')
  <2>1. \A n : /\ BackendsUp(loadPc, n) = n /\ CoreUp(loadPc) = Load!Core
               /\ DriversUp(loadPc, n) = IF loadPc = "exit_backends" THEN Len(Drivers) ELSE 0
               /\ ProcUp(loadPc, n) = DriversUp(loadPc, n)
               /\ DebugUp(loadPc, n) = DriversUp(loadPc, n)
    BY <1>1, BackendStands
  <2> QED
    BY <1>1, <2>1
<1>3. DriversUp(loadPc, entry) \in 0..Len(Drivers)
  <2>1. DriversUp(loadPc, entry) \in {0, Len(Drivers)}
    BY <1>1, BackendStands
  <2> QED
    BY <2>1, LoadFacts
<1>4. /\ First(Backends, entry - 1) = First(Backends, entry) \ {b} /\ b \in First(Backends, entry)
      /\ b \notin Load!Core /\ b \notin Load!DriverSet /\ b \in Load!BackendSet /\ b # "mock"
  BY <1>1, BackendFacts, LoadFacts
<1> HIDE DEF b
<1>5. /\ Standing(loadPc', entry') = Standing(loadPc, entry) \ (Enumerating \cap {b})
      /\ b \in Enumerating => b \in Standing(loadPc, entry)
  BY <1>2, <1>3, <1>4, DriverFacts DEF Standing
<1>6. up' = UpIs(Standing(loadPc', entry'))
  <2>1. CASE b \in Enumerating
    BY <1>1, <1>5, <2>1, UpAndDown DEF LoadInv, UpIs, Load!Parts
  <2>2. CASE b \notin Enumerating
    BY <1>1, <1>5, <2>2 DEF LoadInv, UpIs
  <2> QED
    BY <2>1, <2>2
<1>7. EntryInv'
  BY <1>1, <1>2, EntriesKept DEF LoadInv
<1>8. DeviceInv'
  <2>1. /\ devices' \subseteq devices /\ served' \subseteq served /\ served' \subseteq devices'
        /\ \A d \in devices' : b \in Enumerating => Enumerator[d] # b
    BY <1>1 DEF LoadInv, DeviceInv, Load!Withdraw, Load!DevicesOf
  <2>2. \A d \in served : DriverOf[d] # b
    BY <1>4, LoadFacts DEF LoadInv, DeviceInv
  <2>3. \A d \in devices : Enumerator[d] # "mock"
    BY <1>1 DEF LoadInv, DeviceInv, Load!Undoing
  <2> QED
    BY <1>5, <2>1, <2>2, <2>3, DevicesKept DEF LoadInv
<1>9. PlaceInv'
  BY <1>1, LoadFacts DEF PlaceInv, Rising, InDriver, Load!Undoing, Load!Leaving
<1> QED
  BY <1>6, <1>7, <1>8, <1>9 DEF LoadInv, UpIs

(* The registry of the drivers, with the entries of each in the directories.     *)
DirectoryIs(S, users) == IsFiniteSet(S) /\ users = Cardinality(S)

LEMMA DirectoryFacts ==
  ASSUME NEW S, NEW users, DirectoryIs(S, users), NEW d
  PROVE  /\ users \in Nat /\ (users = 0 <=> S = {})
         /\ d \notin S => DirectoryIs(S \cup {d}, users + 1)
         /\ d \in S => DirectoryIs(S \ {d}, users - 1)
BY FS_EmptySet, FS_AddElement, FS_RemoveElement, FS_CardinalityType DEF DirectoryIs

LEMMA EntriesAre ==
  /\ EntryInv <=>
       /\ proc = First(Drivers, ProcUp(loadPc, entry))
       /\ debug \subseteq First(Drivers, DebugUp(loadPc, entry))
       /\ DirectoryIs(proc, procUsers) /\ DirectoryIs(debug, debugUsers)
       /\ (procRoot <=> proc # {}) /\ (debugRoot = "made" <=> debug # {})
  /\ EntryInv' <=>
       /\ proc' = First(Drivers, ProcUp(loadPc', entry'))
       /\ debug' \subseteq First(Drivers, DebugUp(loadPc', entry'))
       /\ DirectoryIs(proc', procUsers') /\ DirectoryIs(debug', debugUsers')
       /\ (procRoot' <=> proc' # {}) /\ (debugRoot' = "made" <=> debug' # {})
<1>1. \A S : Load!Cardinality(S) = Cardinality(S)
  BY DEF Load!Cardinality, Cardinality
<1>2. /\ Load!DirectoriesShared <=>
           /\ procUsers = Load!Cardinality(proc) /\ debugUsers = Load!Cardinality(debug)
           /\ (procRoot <=> proc # {}) /\ (debugRoot = "made" <=> debug # {})
      /\ Load!DirectoriesShared' <=>
           /\ procUsers' = Load!Cardinality(proc') /\ debugUsers' = Load!Cardinality(debug')
           /\ (procRoot' <=> proc' # {}) /\ (debugRoot' = "made" <=> debug' # {})
  BY DEF Load!DirectoriesShared
<1> QED
  BY <1>1, <1>2 DEF EntryInv, DirectoryIs

LEMMA LoadDriverInit ==
  ASSUME LoadInv, Load!DriverInit
  PROVE  LoadInv'
<1> DEFINE b == Drivers[entry]
<1>1. /\ loadPc = "driver" /\ loadPc' = "proc" /\ entry \in 1..Len(Drivers) /\ entry' = entry
      /\ UNCHANGED <<Load!diagVars, devices, served>> /\ Load!Up(b)
  BY LoadFacts DEF Load!DriverInit, LoadInv, PlaceInv, Load!busVars, Load!Driver
<1>2. /\ BackendsUp(loadPc, entry) = Len(Backends) /\ BackendsUp(loadPc', entry') = Len(Backends)
      /\ DriversUp(loadPc, entry) = entry - 1 /\ DriversUp(loadPc', entry') = entry
      /\ CoreUp(loadPc) = Load!Core /\ CoreUp(loadPc') = Load!Core
      /\ ProcUp(loadPc, entry) = ProcUp(loadPc', entry') /\ DebugUp(loadPc, entry) = DebugUp(loadPc', entry')
  <2>1. \A n : /\ BackendsUp("driver", n) = Len(Backends) /\ DriversUp("driver", n) = n - 1
               /\ CoreUp("driver") = Load!Core
               /\ ProcUp("driver", n) = n - 1 /\ DebugUp("driver", n) = n - 1
    BY DriverStands DEF InDriver
  <2>2. \A n : /\ BackendsUp("proc", n) = Len(Backends) /\ DriversUp("proc", n) = n
               /\ CoreUp("proc") = Load!Core
               /\ ProcUp("proc", n) = n - 1 /\ DebugUp("proc", n) = n - 1
    BY DriverStands DEF InDriver
  <2> QED
    BY <1>1, <2>1, <2>2
<1>3. /\ First(Drivers, entry) = First(Drivers, entry - 1) \cup {b} /\ b \notin First(Drivers, entry - 1)
      /\ b \notin Load!Core /\ b \notin Load!BackendSet /\ b \in Load!DriverSet
  BY <1>1, DriverFacts, LoadFacts
<1> HIDE DEF b
<1>4. Standing(loadPc', entry') = Standing(loadPc, entry) \cup {b} /\ b \notin Standing(loadPc, entry)
  BY <1>2, <1>3, LoadFacts DEF Standing
<1>5. up' = UpIs(Standing(loadPc', entry'))
  BY <1>1, <1>3, <1>4, UpAndDown DEF LoadInv, UpIs, Load!Parts
<1>6. EntryInv'
  BY <1>1, <1>2, EntriesKept DEF LoadInv
<1>7. DeviceInv'
  BY <1>1, <1>4, DevicesKept DEF LoadInv, DeviceInv
<1>8. PlaceInv'
  BY <1>1, LoadFacts DEF PlaceInv, Rising, InDriver, Load!Undoing, Load!Leaving
<1> QED
  BY <1>5, <1>6, <1>7, <1>8 DEF LoadInv, UpIs

LEMMA LoadDriverMoves ==
  ASSUME LoadInv, Load!DriverInitFails \/ Load!DriversDone \/ Load!DriversGone
  PROVE  LoadInv'
<1> USE DEF Load!Undoing, Load!Leaving, InDriver, Complete
<1>1. UNCHANGED <<up, Load!diagVars, devices, served>> /\ loadPc # "live"
  BY DEF Load!DriverInitFails, Load!DriversDone, Load!DriversGone, Load!busVars
<1>2. CASE Load!DriverInitFails
  <2>1. /\ loadPc = "driver" /\ loadPc' = "undo_drivers"
        /\ entry \in 1..Len(Drivers) /\ entry' = entry - 1
    BY <1>2, LoadFacts DEF Load!DriverInitFails, LoadInv, PlaceInv
  <2>2. /\ Standing(loadPc', entry') = Standing(loadPc, entry)
        /\ ProcUp(loadPc', entry') = ProcUp(loadPc, entry) /\ DebugUp(loadPc', entry') = DebugUp(loadPc, entry)
    <3>1. /\ DriversUp(loadPc, entry) = entry - 1 /\ DriversUp(loadPc', entry') = entry'
          /\ BackendsUp(loadPc', entry') = BackendsUp(loadPc, entry)
          /\ CoreUp(loadPc') = CoreUp(loadPc)
      BY <2>1, DriverPlaces
    <3>2. /\ ProcUp(loadPc, entry) = entry - 1 /\ ProcUp(loadPc', entry') = entry'
          /\ DebugUp(loadPc, entry) = entry - 1 /\ DebugUp(loadPc', entry') = entry'
      BY <2>1, DriverPlaces
    <3> QED
      BY <2>1, <3>1, <3>2 DEF Standing
  <2>3. PlaceInv'
    BY <2>1, LoadFacts DEF PlaceInv, Rising
  <2> QED
    BY <1>1, <2>2, <2>3, LoadMoves
<1>3. CASE Load!DriversDone
  <2>1. /\ loadPc = "driver" /\ loadPc' = "mock" /\ entry - 1 = Len(Drivers)
    BY <1>3, LoadFacts DEF Load!DriversDone, LoadInv, PlaceInv
  <2>2. /\ Standing(loadPc', entry') = Standing(loadPc, entry)
        /\ ProcUp(loadPc', entry') = ProcUp(loadPc, entry) /\ DebugUp(loadPc', entry') = DebugUp(loadPc, entry)
    <3>1. /\ DriversUp("driver", entry) = Len(Drivers) /\ ProcUp("driver", entry) = Len(Drivers)
          /\ DebugUp("driver", entry) = Len(Drivers) /\ BackendsUp("driver", entry) = Len(Backends)
          /\ CoreUp("driver") = Load!Core
      BY <2>1, DriverStands
    <3>2. /\ DriversUp("mock", entry') = Len(Drivers) /\ ProcUp("mock", entry') = Len(Drivers)
          /\ DebugUp("mock", entry') = Len(Drivers) /\ BackendsUp("mock", entry') = Len(Backends)
          /\ CoreUp("mock") = Load!Core
      BY DriverStands
    <3> QED
      BY <2>1, <3>1, <3>2 DEF Standing
  <2>3. PlaceInv'
    BY <2>1 DEF PlaceInv, Rising
  <2> QED
    BY <1>1, <2>2, <2>3, LoadMoves
<1>4. CASE Load!DriversGone
  <2>1. /\ loadPc \in Load!Leaving /\ entry = 0
        /\ loadPc' = (IF loadPc = "exit_drivers" THEN "exit_cdev" ELSE "err_backends")
        /\ entry' = (IF loadPc = "exit_drivers" THEN 0 ELSE Len(Backends))
    BY <1>4 DEF Load!DriversGone
  <2>2. /\ DriversUp(loadPc, entry) = 0 /\ CoreUp(loadPc) = Load!Core
        /\ BackendsUp(loadPc, entry) = IF loadPc = "exit_drivers" THEN 0 ELSE Len(Backends)
        /\ ProcUp(loadPc, entry) = 0 /\ DebugUp(loadPc, entry) = 0
    BY <2>1, DriverStands
  <2>3. PlaceInv'
    BY <2>1, LoadFacts DEF PlaceInv, Rising
  <2>4. CASE loadPc # "exit_drivers"
    <3>1. /\ BackendsUp(loadPc', entry') = Len(Backends) /\ CoreUp(loadPc') = Load!Core
          /\ DriversUp(loadPc', entry') = 0
          /\ ProcUp(loadPc', entry') = 0 /\ DebugUp(loadPc', entry') = 0
      BY <2>1, <2>4, BackendStands
    <3> QED
      BY <1>1, <2>2, <2>3, <2>4, <3>1, LoadMoves DEF Standing
  <2>5. CASE loadPc = "exit_drivers"
    <3>1. loadPc' = "exit_cdev" /\ "exit_cdev" \in Quiet /\ CoreUp("exit_cdev") = Load!Core
      BY <2>1, <2>5 DEF Quiet, CoreUp, Load!Core
    <3>2. /\ Standing(loadPc', entry') = Load!Core
          /\ ProcUp(loadPc', entry') = 0 /\ DebugUp(loadPc', entry') = 0
      BY <3>1, QuietStands
    <3>3. Standing(loadPc, entry) = Load!Core
      BY <2>2, <2>5, BackendFacts, DriverFacts DEF Standing
    <3> QED
      BY <1>1, <2>2, <2>3, <3>2, <3>3, LoadMoves
  <2> QED
    BY <2>4, <2>5
<1> QED
  BY <1>2, <1>3, <1>4

(* An entry is made, or not.                                                  *)
LEMMA LoadEntryMade ==
  ASSUME LoadInv, Load!ProcRegister \/ Load!ProcRegisterFails \/ Load!DebugRegister
  PROVE  LoadInv'
<1> DEFINE b == Drivers[entry]
<1> USE DEF InDriver
<1>1. loadPc \in {"proc", "debug"} /\ entry \in 1..Len(Drivers)
      /\ UNCHANGED <<up, devices, served>>
  BY DEF Load!ProcRegister, Load!ProcRegisterFails, Load!DebugRegister, Load!Goto,
     Load!busVars, LoadInv, PlaceInv
<1>2. /\ First(Drivers, entry) = First(Drivers, entry - 1) \cup {b} /\ b \notin First(Drivers, entry - 1)
  BY <1>1, DriverFacts
<1>3. \/ Load!ProcRegister /\ loadPc = "proc" /\ loadPc' = "debug" /\ entry' = entry
      \/ Load!ProcRegisterFails /\ loadPc = "proc" /\ loadPc' = "driver_failed" /\ entry' = entry
      \/ Load!DebugRegister /\ loadPc = "debug" /\ loadPc' = "driver" /\ entry' = entry + 1
  BY DEF Load!ProcRegister, Load!ProcRegisterFails, Load!DebugRegister, Load!Goto
<1>4. entry \in Int /\ (entry' = entry + 1 => entry' - 1 = entry)
  BY <1>1
<1>5. Standing(loadPc', entry') = Standing(loadPc, entry)
  <2>1. DriversUp(loadPc, entry) = entry /\ DriversUp(loadPc', entry') = entry
    BY <1>1, <1>3, <1>4, DriverPlaces
  <2>2. BackendsUp(loadPc', entry') = BackendsUp(loadPc, entry) /\ CoreUp(loadPc') = CoreUp(loadPc)
    BY <1>1, <1>3, DriverPlaces
  <2> QED
    BY <2>1, <2>2 DEF Standing
<1>6. PlaceInv'
  BY <1>1, <1>3, LoadFacts DEF PlaceInv, Rising, Load!Undoing, Load!Leaving
<1>7. DeviceInv'
  BY <1>1, <1>5, DevicesKept DEF LoadInv, DeviceInv
<1> HIDE DEF b
<1>8. CASE Load!ProcRegister
  <2>1. /\ loadPc = "proc" /\ loadPc' = "debug" /\ entry' = entry
        /\ procRoot' = TRUE /\ procUsers' = procUsers + 1 /\ proc' = proc \cup {b}
        /\ UNCHANGED <<debug, debugUsers, debugRoot>>
    BY <1>8 DEF Load!ProcRegister, Load!Goto, Load!Driver, b
  <2>2. /\ ProcUp(loadPc, entry) = entry - 1 /\ DebugUp(loadPc, entry) = entry - 1
        /\ ProcUp(loadPc', entry') = entry /\ DebugUp(loadPc', entry') = entry - 1
    BY <2>1, DriverPlaces
  <2>3. DirectoryIs(proc', procUsers')
    BY <1>2, <2>1, <2>2, EntriesAre, DirectoryFacts DEF LoadInv
  <2>4. EntryInv'
    BY <1>2, <2>1, <2>2, <2>3, EntriesAre DEF LoadInv
  <2> QED
    BY <1>1, <1>5, <1>6, <1>7, <2>4 DEF LoadInv
<1>9. CASE Load!ProcRegisterFails
  <2>1. /\ loadPc = "proc" /\ loadPc' = "driver_failed" /\ entry' = entry
        /\ UNCHANGED <<proc, debug, debugUsers, debugRoot>>
        /\ \/ ~procRoot /\ UNCHANGED <<procRoot, procUsers>>
           \/ procUsers' = procUsers /\ procRoot' = (procUsers > 0)
    BY <1>9 DEF Load!ProcRegisterFails, Load!Goto
  <2>2. /\ ProcUp(loadPc, entry) = entry - 1 /\ DebugUp(loadPc, entry) = entry - 1
        /\ ProcUp(loadPc', entry') = entry - 1 /\ DebugUp(loadPc', entry') = entry - 1
    BY <2>1, DriverPlaces
  <2>3. procUsers' = procUsers /\ (procUsers > 0 <=> proc # {})
    <3>1. DirectoryIs(proc, procUsers) /\ (procRoot <=> proc # {})
      BY EntriesAre DEF LoadInv
    <3>2. procUsers \in Nat /\ (procUsers = 0 <=> proc = {})
      BY <3>1, DirectoryFacts
    <3> QED
      BY <2>1, <3>2
  <2>4. EntryInv'
    BY <2>1, <2>2, <2>3, EntriesAre DEF LoadInv
  <2> QED
    BY <1>1, <1>5, <1>6, <1>7, <2>4 DEF LoadInv
<1>10. CASE Load!DebugRegister
  <2>1. loadPc = "debug" /\ loadPc' = "driver" /\ entry' = entry + 1
        /\ UNCHANGED <<proc, procUsers, procRoot>>
    BY <1>10 DEF Load!DebugRegister
  <2>2. /\ ProcUp(loadPc, entry) = entry /\ DebugUp(loadPc, entry) = entry - 1
        /\ ProcUp(loadPc', entry') = entry /\ DebugUp(loadPc', entry') = entry
    BY <1>4, <2>1, DriverPlaces
  <2>3. b \notin debug /\ DirectoryIs(debug, debugUsers) /\ (debugRoot = "made" <=> debug # {})
        /\ (debugUsers = 0 <=> debug = {})
    BY <1>2, <2>2, EntriesAre, DirectoryFacts DEF LoadInv
  <2>4. \/ debugUsers' = debugUsers + 1 /\ debug' = debug \cup {b} /\ debugRoot' = "made"
        \/ /\ UNCHANGED <<debug, debugUsers>>
           /\ debugRoot' = "made" <=> debug # {}
    BY <1>10, <2>3 DEF Load!DebugRegister, Load!Driver, b
  <2>5. DirectoryIs(debug', debugUsers') /\ (debugRoot' = "made" <=> debug' # {})
    <3>1. DirectoryIs(debug \cup {b}, debugUsers + 1)
      BY <2>3, DirectoryFacts
    <3> QED
      BY <2>3, <2>4, <3>1
  <2>6. debug' \subseteq First(Drivers, entry)
    BY <1>2, <2>2, <2>4, EntriesAre DEF LoadInv
  <2>7. EntryInv'
    BY <2>1, <2>2, <2>5, <2>6, EntriesAre DEF LoadInv
  <2> QED
    BY <1>1, <1>5, <1>6, <1>7, <2>7 DEF LoadInv
<1> QED
  BY <1>8, <1>9, <1>10

(* A driver leaves, with its entries if it has them.                             *)
LEMMA LoadDriverLeaves ==
  ASSUME LoadInv, Load!DriverFailed \/ Load!DriverExit
  PROVE  LoadInv'
<1> DEFINE b == Drivers[entry]
<1>1. /\ loadPc \in Load!Leaving \cup {"driver_failed"} /\ entry \in 1..Len(Drivers) /\ entry' = entry - 1
      /\ \/ loadPc' = loadPc
         \/ loadPc = "driver_failed" /\ loadPc' = "undo_drivers"
      /\ Load!Down(b) /\ served' = {d \in served : DriverOf[d] # b} /\ devices' = devices
  BY LoadFacts DEF Load!DriverFailed, Load!DriverExit, Load!BusUnregisterDriver, Load!Driver,
     Load!Goto, LoadInv, PlaceInv, InDriver
<1>2. /\ First(Drivers, entry) = First(Drivers, entry - 1) \cup {b} /\ b \notin First(Drivers, entry - 1)
      /\ First(Drivers, entry - 1) = First(Drivers, entry) \ {b}
      /\ b \notin Load!Core /\ b \notin Load!BackendSet /\ b \in Load!DriverSet /\ b # "mock"
  BY <1>1, DriverFacts, LoadFacts
<1>3. loadPc' \in Load!Leaving /\ (loadPc = "exit_drivers" <=> loadPc' = "exit_drivers")
      /\ loadPc \in {"driver_failed", "undo_drivers", "err_drivers", "exit_drivers"}
      /\ (loadPc = "driver_failed" => loadPc' = "undo_drivers")
      /\ loadPc' # "driver_failed"
  <2>1. CASE Load!DriverFailed
    BY <2>1 DEF Load!DriverFailed, Load!Goto, Load!Leaving
  <2>2. CASE Load!DriverExit
    BY <2>2 DEF Load!DriverExit, Load!Leaving
  <2> QED
    BY <2>1, <2>2
<1>4. /\ DriversUp(loadPc, entry) = entry /\ DriversUp(loadPc', entry') = entry - 1
      /\ CoreUp(loadPc) = Load!Core /\ CoreUp(loadPc') = Load!Core
      /\ ProcUp(loadPc', entry') = entry - 1 /\ DebugUp(loadPc', entry') = entry - 1
      /\ ProcUp(loadPc, entry) = IF loadPc = "driver_failed" THEN entry - 1 ELSE entry
      /\ DebugUp(loadPc, entry) = ProcUp(loadPc, entry)
      /\ BackendsUp(loadPc', entry') = BackendsUp(loadPc, entry)
  <2>1. ASSUME NEW at \in Load!Leaving, NEW n
        PROVE  /\ DriversUp(at, n) = n /\ ProcUp(at, n) = n /\ DebugUp(at, n) = n
               /\ CoreUp(at) = Load!Core
               /\ BackendsUp(at, n) = IF at = "exit_drivers" THEN 0 ELSE Len(Backends)
    <3>1. at \in {"undo_drivers", "err_drivers", "exit_drivers"}
      BY DEF Load!Leaving
    <3>2. DriversUp(at, n) = n
      BY DriverStands
    <3>3. /\ CoreUp(at) = Load!Core
          /\ ProcUp(at, n) = IF at \in {"proc", "driver_failed"} THEN n - 1
                             ELSE DriversUp(at, n)
          /\ DebugUp(at, n) = IF at = "debug" THEN n - 1 ELSE ProcUp(at, n)
      BY DriverStands
    <3>4. BackendsUp(at, n) = IF at = "exit_drivers" THEN 0 ELSE Len(Backends)
      <4>1. at # "exit_drivers"
              => at \in InDriver \cup {"undo_drivers", "err_drivers"} \cup Complete
        BY <3>1
      <4> QED
        BY <4>1, DriverStands
    <3> QED
      BY <3>1, <3>2, <3>3, <3>4
  <2>2. /\ DriversUp("driver_failed", entry) = entry /\ ProcUp("driver_failed", entry) = entry - 1
        /\ DebugUp("driver_failed", entry) = entry - 1 /\ CoreUp("driver_failed") = Load!Core
        /\ BackendsUp("driver_failed", entry) = Len(Backends)
    BY DriverStands DEF InDriver
  <2>3. CASE loadPc = "driver_failed"
    BY <1>1, <1>3, <2>1, <2>2, <2>3
  <2>4. CASE loadPc # "driver_failed"
    BY <1>1, <1>3, <2>1, <2>4
  <2> QED
    BY <2>3, <2>4
<1> HIDE DEF b
<1>5. Standing(loadPc', entry') = Standing(loadPc, entry) \ {b} /\ b \in Standing(loadPc, entry)
  BY <1>2, <1>4, LoadFacts DEF Standing
<1>6. up' = UpIs(Standing(loadPc', entry'))
  BY <1>1, <1>2, <1>5, UpAndDown DEF LoadInv, UpIs, Load!Parts
<1>7. DeviceInv'
  <2>1. \A d \in devices : Enumerator[d] # b
    <3>1. b # "of"
      BY <1>2 DEF Load!Core
    <3> QED
      BY <1>2, <3>1, LoadFacts DEF LoadInv, DeviceInv
  <2>2. \A d \in devices : Enumerator[d] # "mock"
    BY <1>3 DEF LoadInv, DeviceInv
  <2> QED
    BY <1>1, <1>5, <2>1, <2>2, DevicesKept DEF LoadInv, DeviceInv
<1>8. PlaceInv'
  BY <1>1, <1>3, LoadFacts DEF PlaceInv, Rising, InDriver, Load!Undoing, Load!Leaving
<1>9. EntryInv'
  <2>1. CASE Load!DriverFailed
    BY <1>3, <1>4, <2>1, EntriesKept DEF Load!DriverFailed, Load!Goto, LoadInv
  <2>2. CASE Load!DriverExit
    <3>1. /\ proc' = proc \ {b} /\ b \in proc
          /\ procUsers' = procUsers - 1 /\ procRoot' = (procRoot /\ procUsers' # 0)
          /\ debug' = debug \ {b}
          /\ IF b \in debug
             THEN /\ debugUsers' = debugUsers - 1
                  /\ debugRoot' = IF debugUsers' = 0 THEN "none" ELSE debugRoot
             ELSE UNCHANGED <<debugUsers, debugRoot>>
      <4>1. ProcUp(loadPc, entry) = entry
        BY <1>4, <2>2 DEF Load!DriverExit, Load!Leaving
      <4>2. b \in proc
        BY <1>2, <4>1, EntriesAre DEF LoadInv
      <4> QED
        BY <2>2, <4>2 DEF Load!DriverExit, Load!DiagExit, Load!PutProcRoot, Load!Driver, b
    <3>2. DirectoryIs(proc', procUsers') /\ (procRoot' <=> proc' # {})
      <4>1. DirectoryIs(proc', procUsers') /\ procRoot
        BY <3>1, EntriesAre, DirectoryFacts DEF LoadInv
      <4>2. procUsers' = 0 <=> proc' = {}
        BY <4>1, DirectoryFacts
      <4> QED
        BY <3>1, <4>1, <4>2
    <3>3. DirectoryIs(debug', debugUsers') /\ (debugRoot' = "made" <=> debug' # {})
      <4>1. CASE b \in debug
        <5>1. DirectoryIs(debug', debugUsers') /\ debugRoot = "made"
          <6>1. DirectoryIs(debug, debugUsers) /\ debugRoot = "made"
            BY <4>1, EntriesAre DEF LoadInv
          <6>2. DirectoryIs(debug \ {b}, debugUsers - 1)
            BY <4>1, <6>1, DirectoryFacts
          <6> QED
            BY <3>1, <4>1, <6>1, <6>2
        <5>2. debugUsers' = 0 <=> debug' = {}
          BY <5>1, DirectoryFacts
        <5> QED
          BY <3>1, <4>1, <5>1, <5>2
      <4>2. CASE b \notin debug
        BY <3>1, <4>2, EntriesAre DEF LoadInv
      <4> QED
        BY <4>1, <4>2
    <3>4. ProcUp(loadPc, entry) = entry /\ DebugUp(loadPc, entry) = entry
      BY <1>4, <2>2 DEF Load!DriverExit, Load!Leaving
    <3>5. proc' = First(Drivers, entry - 1) /\ debug' \subseteq First(Drivers, entry - 1)
      BY <1>2, <3>1, <3>4, EntriesAre DEF LoadInv
    <3> QED
      BY <1>4, <3>2, <3>3, <3>5, EntriesAre
  <2> QED
    BY <2>1, <2>2
<1> QED
  BY <1>6, <1>7, <1>8, <1>9 DEF LoadInv, UpIs

LEMMA LoadBegins ==
  ASSUME LoadInv, Load!Load
  PROVE  LoadInv'
<1>1. /\ loadPc = "out" /\ loadPc' = "bus" /\ entry' = 1 /\ Load!Up("ids")
      /\ proc' = {} /\ debug' = {} /\ procUsers' = 0 /\ procRoot' = FALSE
      /\ debugUsers' = 0 /\ debugRoot' = "absent" /\ UNCHANGED <<devices, served>>
  BY DEF Load!Load, Load!Goto, Load!busVars
<1>2. Standing(loadPc, entry) = {}
  BY <1>1, QuietStands DEF Quiet, CoreUp
<1>3. Standing(loadPc', entry') = {"ids"} /\ ProcUp(loadPc', entry') = 0 /\ DebugUp(loadPc', entry') = 0
  BY <1>1, QuietStands DEF Quiet, CoreUp
<1>4. up' = UpIs(Standing(loadPc', entry'))
  BY <1>1, <1>2, <1>3, UpAndDown DEF LoadInv, UpIs, Load!Parts, Load!Core
<1>5. EntryInv'
  BY <1>1, <1>3, DriverFacts, EntriesAre, FS_EmptySet DEF DirectoryIs
<1>6. DeviceInv'
  BY <1>1, <1>2, <1>3, DevicesKept DEF LoadInv, DeviceInv
<1>7. PlaceInv'
  BY <1>1 DEF PlaceInv, Rising, InDriver, Load!Undoing, Load!Leaving
<1> QED
  BY <1>4, <1>5, <1>6, <1>7 DEF LoadInv, UpIs

LEMMA LoadMock ==
  ASSUME LoadInv, Load!MockInit \/ Load!Unload
  PROVE  LoadInv'
<1>1. \/ /\ loadPc = "mock" /\ loadPc' = "live"
         /\ devices' = devices \cup Load!DevicesOf("mock") /\ served' = served
      \/ /\ loadPc = "mock" /\ loadPc' = "err_drivers" /\ entry' = Len(Drivers)
         /\ UNCHANGED <<devices, served>>
      \/ /\ loadPc = "live" /\ loadPc' = "exit_backends" /\ entry' = Len(Backends)
         /\ devices' = devices \ Load!DevicesOf("mock")
         /\ served' = served \ Load!DevicesOf("mock")
  BY DEF Load!MockInit, Load!Unload, Load!Goto, Load!Withdraw
<1>2. UNCHANGED <<up, Load!diagVars>>
  BY DEF Load!MockInit, Load!Unload
<1>3. \A n : /\ \A at \in Complete : /\ DriversUp(at, n) = Len(Drivers)
                                    /\ ProcUp(at, n) = Len(Drivers)
                                    /\ DebugUp(at, n) = Len(Drivers)
                                    /\ BackendsUp(at, n) = Len(Backends)
                                    /\ CoreUp(at) = Load!Core
             /\ /\ DriversUp("err_drivers", n) = n /\ ProcUp("err_drivers", n) = n
                /\ DebugUp("err_drivers", n) = n /\ BackendsUp("err_drivers", n) = Len(Backends)
                /\ CoreUp("err_drivers") = Load!Core
             /\ /\ DriversUp("exit_backends", n) = Len(Drivers)
                /\ ProcUp("exit_backends", n) = Len(Drivers)
                /\ DebugUp("exit_backends", n) = Len(Drivers)
                /\ BackendsUp("exit_backends", n) = n
                /\ CoreUp("exit_backends") = Load!Core
  BY DriverStands, BackendStands DEF Complete, Load!Leaving, Load!Undoing
<1>4. /\ Standing(loadPc', entry') = Standing(loadPc, entry)
      /\ ProcUp(loadPc', entry') = ProcUp(loadPc, entry) /\ DebugUp(loadPc', entry') = DebugUp(loadPc, entry)
  BY <1>1, <1>3 DEF Standing, Complete
<1>5. EntryInv'
  BY <1>2, <1>4, EntriesKept DEF LoadInv
<1>6. DeviceInv'
  BY <1>1, <1>4 DEF LoadInv, DeviceInv, Load!DevicesOf
<1>7. PlaceInv'
  BY <1>1, LoadFacts DEF PlaceInv, Rising, InDriver, Load!Undoing, Load!Leaving
<1> QED
  BY <1>2, <1>4, <1>5, <1>6, <1>7 DEF LoadInv

LEMMA LoadDevices ==
  ASSUME LoadInv,
         \/ \E d \in BusDevices : Load!Appear(d) \/ Load!Vanish(d) \/ Load!Bind(d)
         \/ Load!OpenFile \/ Load!CloseFile
  PROVE  LoadInv'
<1>1. UNCHANGED <<loadPc, entry, up, Load!diagVars>>
  BY DEF Load!Appear, Load!Vanish, Load!Bind, Load!OpenFile, Load!CloseFile
<1>2. EntryInv' /\ PlaceInv'
  BY <1>1, EntriesKept DEF LoadInv, PlaceInv
<1>3. \A r : r \in Load!Parts /\ up[r] > 0 => r \in Standing(loadPc, entry)
  BY DEF LoadInv
<1>4. DeviceInv'
  <2>1. ASSUME NEW d \in BusDevices, Load!Appear(d)  PROVE DeviceInv'
    <3>1. Enumerator[d] \in Standing(loadPc, entry) /\ Enumerator[d] # "mock"
      <4>1. Enumerator[d] \in Load!Parts /\ up[Enumerator[d]] > 0
        BY <2>1 DEF Load!Appear
      <4>2. "mock" \notin Load!Parts
        BY LoadFacts DEF Load!Parts, Load!Core
      <4> QED
        BY <1>3, <4>1, <4>2
    <3>2. devices' = devices \cup {d} /\ UNCHANGED <<served, loadPc, entry>>
      BY <2>1 DEF Load!Appear
    <3> QED
      BY <3>1, <3>2 DEF LoadInv, DeviceInv
  <2>2. ASSUME NEW d \in BusDevices, Load!Vanish(d)  PROVE DeviceInv'
    BY <1>1, <2>2 DEF LoadInv, DeviceInv, Load!Vanish, Load!Withdraw
  <2>3. ASSUME NEW d \in BusDevices, Load!Bind(d)  PROVE DeviceInv'
    <3>1. DriverOf[d] \in Standing(loadPc, entry)
      <4>1. DriverOf[d] \in Load!Parts
        BY LoadFacts DEF Load!Parts
      <4> QED
        BY <1>3, <2>3, <4>1 DEF Load!Bind
    <3>2. served' = served \cup {d} /\ d \in devices /\ UNCHANGED <<devices, loadPc, entry>>
      BY <2>3 DEF Load!Bind
    <3> QED
      BY <3>1, <3>2 DEF LoadInv, DeviceInv
  <2>4. CASE Load!OpenFile \/ Load!CloseFile
    BY <1>1, <2>4 DEF LoadInv, DeviceInv, Load!OpenFile, Load!CloseFile
  <2> QED
    BY <2>1, <2>2, <2>3, <2>4
<1> QED
  BY <1>1, <1>2, <1>4 DEF LoadInv

(* A struct of the debugfs directory is made once in a load.                    *)
LEMMA RootsStep ==
  ASSUME RootsInv, [Load!Next]_(Load!vars)
  PROVE  RootsInv'
<1>1. CASE Load!Load
  BY <1>1 DEF RootsInv, Load!Load, Load!Goto
<1>2. CASE Load!DebugRegister
  <2>1. loadPc = "debug" /\ loads' = loads
        /\ \/ UNCHANGED <<debugRoot, roots>>
           \/ Load!GetRoot /\ (debugRoot # "absent" => roots' = roots)
    BY <1>2 DEF Load!DebugRegister, Load!GetRoot
  <2>2. debugRoot' = "absent" => debugRoot = "absent" /\ roots' = roots
    BY <1>2 DEF Load!DebugRegister
  <2> QED
    BY <2>1, <2>2 DEF RootsInv, Load!GetRoot
<1>3. CASE Load!DriverExit
  <2>1. /\ loadPc \in Load!Leaving /\ UNCHANGED <<roots, loads, loadPc>>
        /\ debugRoot' \in {"none", debugRoot}
    BY <1>3 DEF Load!DriverExit, Load!DiagExit
  <2> QED
    BY <2>1 DEF RootsInv, Load!Leaving
<1>4. CASE ~Load!Load /\ ~Load!DebugRegister /\ ~Load!DriverExit
  <2>1. UNCHANGED <<debugRoot, roots, loads>> /\ (loadPc = "out" => loadPc' = loadPc)
    <3>1. CASE Load!BusInit \/ Load!CdevInit \/ Load!CdevExit \/ Load!BusExit
      BY <3>1 DEF Load!BusInit, Load!CdevInit, Load!CdevExit, Load!BusExit, Load!Register,
         Load!Fails, Load!Unregister, Load!Goto, Load!diagVars
    <3>2. CASE Load!BackendRegistry
      BY <3>2 DEF Load!BackendRegistry, Load!BackendInit, Load!BackendInitFails,
         Load!BackendsDone, Load!BackendExit, Load!BackendsGone, Load!Undoing, Load!diagVars
    <3>3. CASE Load!DriverRegistry
      BY <1>4, <3>3 DEF Load!DriverRegistry, Load!DriverInit, Load!DriverInitFails,
         Load!ProcRegister, Load!ProcRegisterFails, Load!DriverFailed, Load!DriversDone,
         Load!DriversGone, Load!Leaving, Load!Goto, Load!diagVars
    <3>4. CASE \/ Load!MockInit \/ Load!Unload \/ Load!OpenFile \/ Load!CloseFile
               \/ \E d \in BusDevices : Load!Appear(d) \/ Load!Vanish(d) \/ Load!Bind(d)
      BY <3>4 DEF Load!MockInit, Load!Unload, Load!OpenFile, Load!CloseFile, Load!Appear,
         Load!Vanish, Load!Bind, Load!Goto, Load!diagVars
    <3>5. CASE UNCHANGED Load!vars
      BY <3>5 DEF Load!vars, Load!diagVars
    <3> QED
      BY <1>4, <3>1, <3>2, <3>3, <3>4, <3>5 DEF Load!Next
  <2> QED
    BY <2>1 DEF RootsInv
<1> QED
  BY <1>1, <1>2, <1>3, <1>4

THEOREM LoadInvariant == Load!Spec => [](LoadInv /\ RootsInv)
<1>1. Load!Init => LoadInv
  <2> SUFFICES ASSUME Load!Init PROVE LoadInv
    OBVIOUS
  <2>1. Standing(loadPc, entry) = {} /\ ProcUp(loadPc, entry) = 0 /\ DebugUp(loadPc, entry) = 0
    BY QuietStands DEF Load!Init, Quiet, CoreUp
  <2>2. EntryInv
    BY <2>1, DriverFacts, EntriesAre, FS_EmptySet DEF Load!Init, DirectoryIs
  <2>3. DeviceInv /\ PlaceInv
    BY DEF Load!Init, DeviceInv, PlaceInv, Rising, InDriver, Load!Undoing, Load!Leaving
  <2> QED
    BY <2>1, <2>2, <2>3 DEF Load!Init, LoadInv
<1>2. LoadInv /\ [Load!Next]_(Load!vars) => LoadInv'
  <2>1. LoadInv /\ UNCHANGED Load!vars => LoadInv'
    <3> SUFFICES ASSUME LoadInv, UNCHANGED Load!vars PROVE LoadInv'
      OBVIOUS
    <3>1. UNCHANGED <<loadPc, entry, up, Load!diagVars, devices, served>>
      BY DEF Load!vars, Load!busVars
    <3> QED
      BY <3>1, EntriesKept DEF LoadInv, DeviceInv, PlaceInv
  <2>2. LoadInv /\ Load!Next => LoadInv'
    BY LoadBegins, LoadBus, LoadCdev, LoadCoreExit, LoadBackendInit, LoadBackendMoves,
       LoadBackendExit, LoadDriverInit, LoadDriverMoves, LoadEntryMade, LoadDriverLeaves,
       LoadMock, LoadDevices
       DEF Load!Next, Load!BackendRegistry, Load!DriverRegistry
  <2> QED
    BY <2>1, <2>2
<1>3. Load!Init => RootsInv
  BY DEF Load!Init, RootsInv
<1> QED
  BY <1>1, <1>2, <1>3, RootsStep, PTL DEF Load!Spec

(* A module that is out has left nothing.                                      *)
LEMMA OutIsEmpty == LoadInv /\ RootsInv => Load!NothingStays
<1> SUFFICES ASSUME LoadInv, RootsInv, loadPc = "out"
             PROVE  /\ \A r \in Load!Parts : up[r] = 0
                    /\ devices = {} /\ proc = {} /\ debug = {}
                    /\ ~procRoot /\ debugRoot # "made"
  BY DEF Load!NothingStays, RootsInv
<1>1. Standing(loadPc, entry) = {} /\ ProcUp(loadPc, entry) = 0 /\ DebugUp(loadPc, entry) = 0
  BY QuietStands DEF Quiet, CoreUp
<1>2. \A r \in Load!Parts : up[r] = 0
  BY <1>1 DEF LoadInv
<1>3. proc = {} /\ debug = {} /\ ~procRoot /\ debugRoot # "made"
  BY <1>1, DriverFacts, EntriesAre DEF LoadInv
<1>4. devices = {}
  BY <1>1 DEF LoadInv, DeviceInv
<1> QED
  BY <1>2, <1>3, <1>4

(* And what is there has below it what it needs.                                *)
LEMMA StandsOnCore == LoadInv => Grounded
<1> SUFFICES ASSUME LoadInv PROVE Grounded
  OBVIOUS
<1> DEFINE S == Standing(loadPc, entry)
<1>1. \A r \in Load!Parts : up[r] > 0 <=> r \in S
  BY DEF LoadInv
<1>2. /\ \A d \in served : d \in devices /\ DriverOf[d] \in S
      /\ \A d \in devices : Enumerator[d] = "mock" \/ Enumerator[d] \in S
      /\ \A d \in devices : Enumerator[d] = "mock" => loadPc = "live"
      /\ devices \subseteq BusDevices
  BY DEF LoadInv, DeviceInv
<1>3. /\ Load!Core \subseteq Load!Parts /\ Enumerating \subseteq Load!Parts
      /\ Load!DriverSet \subseteq Load!Parts
      /\ Load!DriverSet \cap Load!Core = {} /\ Enumerating \cap Load!Core = {}
  BY LoadFacts DEF Load!Parts
<1>4. \A d \in BusDevices : DriverOf[d] \in Load!DriverSet
  BY LoadFacts
<1>5. proc \cup debug \subseteq S /\ S \subseteq Load!Parts
  <2>1. proc \cup debug \subseteq First(Drivers, DriversUp(loadPc, entry))
    <3>1. CASE loadPc \in {"proc", "debug", "driver_failed"}
      <4>1. entry \in 1..Len(Drivers) /\ DriversUp(loadPc, entry) = entry
        <5>1. entry \in 1..Len(Drivers)
          BY <3>1 DEF LoadInv, PlaceInv, InDriver
        <5>2. DriversUp(loadPc, entry) = entry
          BY <3>1 DEF DriversUp, InDriver, Complete, Load!Leaving
        <5> QED
          BY <5>1, <5>2
      <4>2. First(Drivers, entry - 1) \subseteq First(Drivers, entry)
        BY <4>1, DriverFacts
      <4>3. /\ ProcUp(loadPc, entry) \in {entry - 1, entry} /\ DebugUp(loadPc, entry) \in {entry - 1, entry}
        BY <3>1, <4>1 DEF ProcUp, DebugUp
      <4> QED
        BY <4>1, <4>2, <4>3 DEF LoadInv, EntryInv
    <3>2. CASE loadPc \notin {"proc", "debug", "driver_failed"}
      BY <3>2 DEF LoadInv, EntryInv, ProcUp, DebugUp
    <3> QED
      BY <3>1, <3>2
  <2>2. CoreUp(loadPc) \subseteq Load!Core
    BY DEF CoreUp, Load!Core
  <2>3. First(Drivers, DriversUp(loadPc, entry)) \subseteq Load!DriverSet
    <3>1. DriversUp(loadPc, entry) \in 0..Len(Drivers)
      BY LoadFacts DEF LoadInv, PlaceInv, DriversUp, InDriver, Load!Leaving
    <3> QED
      BY <3>1, DriverFacts
  <2> QED
    BY <1>3, <2>1, <2>2, <2>3 DEF Standing
<1>6. CASE loadPc \in Quiet
  <2>1. S = CoreUp(loadPc) /\ proc = {} /\ debug = {}
    BY <1>6, QuietStands, DriverFacts DEF LoadInv, EntryInv
  <2>2. loadPc # "live" /\ CoreUp(loadPc) \subseteq Load!Core
    BY <1>6 DEF Quiet, CoreUp, Load!Core
  <2>3. "of" \in CoreUp(loadPc) => "bus" \in CoreUp(loadPc)
    BY DEF CoreUp
  <2>4. CoreUp(loadPc) \cap (Enumerating \cup Load!DriverSet) = {}
    BY <1>3, <2>2
  <2>5. served = {}
    BY <1>2, <1>4, <2>1, <2>4
  <2>6. \A d \in devices : Enumerator[d] = "of" /\ "bus" \in S
    BY <1>2, <2>1, <2>2, <2>3, <2>4, LoadFacts
  <2>7. \A r \in Enumerating \cup Load!DriverSet \cup {"of"} : up[r] > 0 => "bus" \in S
    BY <1>1, <1>3, <2>1, <2>3, <2>4 DEF Load!Parts, Load!Core
  <2>8. up["bus"] > 0 <=> "bus" \in S
    BY <1>1 DEF Load!Parts, Load!Core
  <2> QED
    BY <2>1, <2>5, <2>6, <2>7, <2>8 DEF Grounded, Load!Grounded, LoadInv, EntryInv
<1>7. CASE loadPc \notin Quiet
  <2>1. Load!Core \subseteq S
    BY <1>7 DEF Quiet, Standing, CoreUp, Load!Core
  <2>2. \A r \in {"ids", "bus", "chrdev", "class"} : up[r] > 0
    BY <1>1, <1>3, <2>1 DEF Load!Core
  <2>3. \A d \in served : up[DriverOf[d]] > 0
    BY <1>1, <1>2, <1>3, <1>4
  <2>4. \A r \in proc \cup debug : up[r] > 0
    BY <1>1, <1>5
  <2> QED
    BY <2>2, <2>3, <2>4 DEF Grounded, Load!Grounded, LoadInv, EntryInv
<1> QED
  BY <1>6, <1>7

-------------------------------------------------------------------------------
(* A set of numbers that is not empty has a smallest one.                        *)
LEMMA SmallestOf ==
  ASSUME NEW I, I \subseteq Nat, I # {}
  PROVE  \E x \in I : \A y \in I : x <= y
<1> DEFINE R == OpToRel(<, Nat)
<1>1. IsWellFoundedOn(R, Nat)
  BY NatLessThanWellFounded
<1>2. \A x, y \in Nat : x < y => <<x, y>> \in R
  BY DEF OpToRel
<1> HIDE DEF R
<1>3. \E x \in I : \A y \in I : ~(<<y, x>> \in R)
  BY <1>1, WFMin
<1>4. PICK x \in I : \A y \in I : ~(<<y, x>> \in R)
  BY <1>3
<1>5. \A y \in I : x <= y
  <2> SUFFICES ASSUME NEW y \in I PROVE x <= y
    OBVIOUS
  <2>1. x \in Nat /\ y \in Nat
    OBVIOUS
  <2>2. ~(y < x)
    BY <1>2, <1>4, <2>1
  <2> QED
    BY <2>1, <2>2
<1> QED
  BY <1>5

LEMMA FirstOf ==
  ASSUME NEW I, I \subseteq Nat, I # {}
  PROVE  Text!Seqs!Min(I) \in I /\ \A y \in I : Text!Seqs!Min(I) <= y
BY SmallestOf DEF Text!Seqs!Min

(* A word that begins with a decimal digit begins with a hexadecimal one.         *)
LEMMA DecimalIsHex ==
  ASSUME NEW w \in Seq(0..16), Text!CanScan(w, 10)
  PROVE  Text!CanScan(w, 16)
<1> DEFINE I(base) == {j \in 1..Len(w) : w[j] >= base}
<1>1. Len(w) \in Nat /\ \A j \in 1..Len(w) : w[j] \in 0..16
  BY LenProperties
<1>2. I(10) \subseteq Nat /\ I(16) \subseteq Nat
  BY <1>1
<1>3. 1 \in I(16) => 1 \in I(10)
  BY <1>1
<1>4. /\ Text!Digits(w, 10) = IF I(10) # {} THEN Text!Seqs!Min(I(10)) ELSE 0
      /\ Text!Digits(w, 16) = IF I(16) # {} THEN Text!Seqs!Min(I(16)) ELSE 0
  BY DEF Text!Digits, Text!Seqs!SelectInSeq
<1>5. \A j \in I(10) : j >= 1
  BY <1>1
<1> HIDE DEF I
<1>6. SUFFICES ASSUME Text!Digits(w, 16) = 1 PROVE FALSE
  BY DEF Text!CanScan
<1>7. 1 \in I(16)
  BY <1>2, <1>4, <1>6, FirstOf
<1>8. 1 \in I(10)
  BY <1>3, <1>7
<1>9. Text!Seqs!Min(I(10)) \in I(10) /\ Text!Seqs!Min(I(10)) <= 1
  BY <1>2, <1>8, FirstOf
<1>10. Text!Seqs!Min(I(10)) = 1
  BY <1>2, <1>5, <1>9
<1> QED
  BY <1>4, <1>8, <1>10 DEF Text!CanScan

(* The bytes of a command are its words from the id on, as far as they go: up to  *)
(* the size of the buffer, the end of the line or a word that is no number.       *)
LEMMA DataInOrder ==
  ASSUME NEW words \in Seq(Numbers), Len(words) > 1, Text!CanScan(words[2], 10),
         Text!CanScan(words[1], 10)
  PROVE  /\ Len(Text!Data(words)) \in 0..Len(words) - 1
         /\ Len(Text!Data(words)) <= MaxBytes
         /\ \A j \in 1..Len(Text!Data(words)) :
              /\ Text!CanScan(words[j + 1], 16)
              /\ Text!Data(words)[j] = Text!Scan(words[j + 1], 16) % 256
         /\ \/ Len(Text!Data(words)) = MaxBytes
            \/ Len(Text!Data(words)) > 0 /\ Len(Text!Data(words)) + 1 = Len(words)
            \/ /\ Len(Text!Data(words)) > 0
               /\ ~Text!CanScan(words[Len(Text!Data(words)) + 2], 16)
<1> DEFINE I == {j \in 1..Len(words) : ~Text!CanScan(words[j], 16)}
           end == IF I # {} THEN Text!Seqs!Min(I) ELSE 0
           bytes == IF end = 0 THEN Len(words) - 1 ELSE end - 2
           n == IF bytes < MaxBytes THEN bytes ELSE MaxBytes
           taken == SubSeq(words, 2, 1 + n)
<1>1. /\ Len(words) \in Nat \ {0} /\ MaxBytes \in Nat
      /\ words[1] \in Seq(0..16) /\ words[2] \in Seq(0..16)
  <2>1. Len(words) \in Nat \ {0} /\ words[1] \in Numbers /\ words[2] \in Numbers
    BY LenProperties
  <2> QED
    BY <2>1, DriverConstants DEF Text!CommandAssumption
<1>2. I \subseteq Nat /\ \A j \in I : j \in 3..Len(words)
  <2>1. 1 \notin I /\ 2 \notin I
    BY <1>1, DecimalIsHex
  <2> QED
    BY <1>1, <2>1
<1>3. Text!Data(words) = [j \in DOMAIN taken |-> Text!Scan(taken[j], 16) % 256]
  BY DEF Text!Data, Text!Seqs!SelectInSeq
<1>a. \A j \in 1..Len(words) : j \notin I => Text!CanScan(words[j], 16)
  OBVIOUS
<1>b. \A j \in I : ~Text!CanScan(words[j], 16)
  OBVIOUS
<1> HIDE DEF I
<1>4. /\ end \in {0} \cup 3..Len(words)
      /\ end # 0 => end \in I
      /\ \A j \in I : end # 0 /\ end <= j
  <2>1. I # {} => end \in I /\ \A j \in I : end <= j
    BY <1>2, FirstOf
  <2>2. \A j \in I : j # 0
    BY <1>2
  <2> QED
    BY <1>2, <2>1, <2>2
<1>c. end # 0 => ~Text!CanScan(words[end], 16)
  BY <1>b, <1>4
<1>d. \A j \in 1..Len(words) : end = 0 \/ j < end => Text!CanScan(words[j], 16)
  <2> SUFFICES ASSUME NEW j \in 1..Len(words), end = 0 \/ j < end, j \in I PROVE FALSE
    BY <1>a
  <2> QED
    BY <1>1, <1>4
<1> HIDE DEF end
<1>5. /\ bytes \in 1..Len(words) - 1
      /\ \A j \in 1..bytes : Text!CanScan(words[j + 1], 16)
      /\ bytes + 1 = Len(words) \/ ~Text!CanScan(words[bytes + 2], 16)
  <2>1. CASE end = 0
    BY <1>1, <1>d, <2>1
  <2>2. CASE end # 0
    <3>1. end \in 3..Len(words) /\ bytes = end - 2
      BY <1>4, <2>2
    <3>2. \A j \in 1..bytes : j + 1 \in 1..Len(words) /\ j + 1 < end
      BY <1>1, <3>1
    <3>3. bytes + 2 = end
      BY <3>1
    <3> QED
      BY <1>1, <1>c, <1>d, <3>1, <3>2, <3>3
  <2> QED
    BY <2>1, <2>2
<1> HIDE DEF bytes
<1>6. /\ n \in 0..Len(words) - 1 /\ n <= MaxBytes /\ n <= bytes
      /\ n = MaxBytes \/ n = bytes
  BY <1>1, <1>5
<1> HIDE DEF n
<1>7. taken \in Seq(Numbers) /\ Len(taken) = n
      /\ \A j \in 1..n : taken[j] = words[j + 1]
  BY <1>1, <1>6, SubSeqProperties
<1>8. DOMAIN taken = 1..n
  BY <1>7, LenProperties
<1> HIDE DEF taken
<1>9. Len(Text!Data(words)) = n
  BY <1>3, <1>6, <1>8
<1>10. \A j \in 1..n : /\ Text!CanScan(words[j + 1], 16)
                       /\ Text!Data(words)[j] = Text!Scan(words[j + 1], 16) % 256
  BY <1>3, <1>5, <1>6, <1>7, <1>8
<1>11. \/ n = MaxBytes
       \/ n > 0 /\ n + 1 = Len(words)
       \/ n > 0 /\ ~Text!CanScan(words[n + 2], 16)
  BY <1>5, <1>6
<1> QED
  BY <1>6, <1>9, <1>10, <1>11

(* A line is written.                                                        *)
LEMMA LineWritten ==
  ASSUME NEW file, NEW verb, NEW words \in Text!Lines, Text!Write(file, verb, words)
  PROVE  Text!BytesKeepOrder'
<1> DEFINE asked == Text!Ask(verb, words, Text!Data(words))
<1>1. words \in Seq(Numbers) /\ MaxBytes \in Nat
  BY DriverConstants DEF Text!Lines, Text!Seqs!BoundedSeq, Text!Seqs!SeqOf,
     Text!CommandAssumption
<1>2. line'.words = words
  BY DEF Text!Write
<1>3. ASSUME request'.verb # "command", request'.data = <<>>
      PROVE  Text!BytesKeepOrder'
  BY <1>1, <1>3 DEF Text!BytesKeepOrder
<1>4. ASSUME verb = "command", Len(words) > 1, Text!CanScan(words[1], 10),
             Text!CanScan(words[2], 10), request' = asked
      PROVE  Text!BytesKeepOrder'
  <2>1. /\ request'.verb = "command" /\ request'.data = Text!Data(words)
        /\ request'.command = Text!Scan(words[2], 10)
    BY <1>4 DEF Text!Ask
  <2> DEFINE data == Text!Data(words)
             sent == Len(data)
             before == IF sent > 0 THEN 1 ELSE 0
             written == sent - before
  <2>2. /\ sent \in 0..Len(words) - 1 /\ sent <= MaxBytes /\ Len(words) \in Nat
        /\ \A j \in 1..sent : /\ Text!CanScan(words[j + 1], 16)
                              /\ data[j] = Text!Scan(words[j + 1], 16) % 256
        /\ \/ sent = MaxBytes
           \/ sent > 0 /\ sent + 1 = Len(words)
           \/ sent > 0 /\ ~Text!CanScan(words[sent + 2], 16)
    BY <1>1, <1>4, DataInOrder, LenProperties
  <2> HIDE DEF data, sent
  <2>3. \A j \in 1..written : /\ j + before \in 1..sent /\ (j + before) + 1 = j + 2
    BY <2>2
  <2>4. /\ before \in {0, 1} /\ written \in 0..Len(words) - 2
        /\ \A j \in 1..written : /\ Text!CanScan(words[j + 2], 16)
                                 /\ data[j + before] = Text!Scan(words[j + 2], 16) % 256
    BY <1>4, <2>2, <2>3
  <2>5. \/ sent = MaxBytes
        \/ written + 2 = Len(words)
        \/ ~Text!CanScan(words[written + 3], 16)
    <3>1. sent > 0 => written + 2 = sent + 1 /\ written + 3 = sent + 2
      BY <2>2
    <3> QED
      BY <2>2, <3>1
  <2>6. /\ request'.data = data /\ Len(request'.data) = sent
    BY <2>1 DEF data, sent
  <2> HIDE DEF before
  <2> QED
    BY <1>2, <2>1, <2>2, <2>4, <2>5, <2>6 DEF Text!BytesKeepOrder
<1>5. request' = Text!Nothing \/ request' = Text!Proc(verb, words)
      \/ (words # <<>> /\ Text!CanScan(words[1], 10) /\ request' = Text!Debugfs(verb, words))
  BY DEF Text!Write
<1>6. CASE request' = Text!Nothing
  BY <1>3, <1>6 DEF Text!Nothing
<1>7. CASE request' = Text!Proc(verb, words)
  BY <1>3, <1>7 DEF Text!Proc, Text!Nothing, Text!Ask
<1>8. CASE words # <<>> /\ Text!CanScan(words[1], 10) /\ request' = Text!Debugfs(verb, words)
  BY <1>3, <1>4, <1>8 DEF Text!Debugfs, Text!Nothing, Text!Ask
<1> QED
  BY <1>5, <1>6, <1>7, <1>8

(* A list is one shorter without its element at j.                              *)
LEMMA Removed ==
  ASSUME NEW j \in DOMAIN list, list \in Seq(Leds)
  PROVE  /\ Text!Seqs!RemoveAt(list, j) \in Seq(Leds)
         /\ Len(Text!Seqs!RemoveAt(list, j)) = Len(list) - 1
<1> DEFINE front == SubSeq(list, 1, j - 1)
           rear == SubSeq(list, j + 1, Len(list))
<1>1. j \in 1..Len(list) /\ Len(list) \in Nat /\ \A i \in 1..Len(list) : list[i] \in Leds
  BY LenProperties
<1>2. front \in Seq(Leds) /\ Len(front) = j - 1
  BY <1>1, SubSeqProperties
<1>3. rear \in Seq(Leds) /\ Len(rear) = Len(list) - j
  BY <1>1, SubSeqProperties
<1>4. front \o rear \in Seq(Leds) /\ Len(front \o rear) = Len(front) + Len(rear)
  BY <1>2, <1>3, ConcatProperties
<1>5. Len(front) + Len(rear) = Len(list) - 1
  BY <1>1, <1>2, <1>3
<1> QED
  BY <1>4, <1>5 DEF Text!Seqs!RemoveAt

(* An LED comes or goes: the step that counts it moves the count, the step on    *)
(* the list the list.                                                        *)
LEMMA ListMoves ==
  ASSUME ListInv, NEW led \in Leds,
         \/ Text!Probe(led) \/ Text!Bound(led) \/ Text!Remove(led)
         \/ Text!RemoveData(led) \/ Text!Unbound(led)
  PROVE  ListInv'
<1> USE DEF Text!Move
<1>1. list \in Seq(Leds) /\ Len(list) \in Nat
  BY LenProperties DEF ListInv
<1>2. row' = row /\ limit' = limit /\ calm' = FALSE /\ row \in Nat /\ limit \in Nat
  BY DEF Text!Probe, Text!Bound, Text!Remove, Text!RemoveData, Text!Unbound, ListInv
<1>3. PICK to \in {"out", "counted", "listed", "leaving", "cleared"} :
        ledAt' = [ledAt EXCEPT ![led] = to]
  BY DEF Text!Probe, Text!Bound, Text!Remove, Text!RemoveData, Text!Unbound
<1>4. /\ ledAt \in [Leds -> {"out", "counted", "listed", "leaving", "cleared"}]
      /\ ledAt' \in [Leds -> {"out", "counted", "listed", "leaving", "cleared"}]
      /\ ledAt'[led] = to /\ \A other \in Leds \ {led} : ledAt'[other] = ledAt[other]
  BY <1>3 DEF ListInv
<1>5. /\ IsFiniteSet(Counted) /\ ledCount = Cardinality(Counted)
      /\ IsFiniteSet(OnList) /\ Len(list) = Cardinality(OnList)
      /\ Cardinality(Counted) \in Nat
  BY FS_CardinalityType DEF ListInv
<1>6. ASSUME list' = list, OnList' = OnList, list' \in Seq(Leds),
             IsFiniteSet(Counted'), ledCount' = Cardinality(Counted')
      PROVE  ListInv'
  BY <1>2, <1>4, <1>5, <1>6 DEF ListInv
<1>7. ASSUME ledCount' = ledCount, Counted' = Counted, list' \in Seq(Leds),
             IsFiniteSet(OnList'), Len(list') = Cardinality(OnList')
      PROVE  ListInv'
  BY <1>2, <1>4, <1>5, <1>7 DEF ListInv
<1>8. CASE Text!Probe(led)
  <2>1. /\ ledAt[led] = "out" /\ ledAt'[led] = "counted"
        /\ ledCount' = ledCount + 1 /\ list' = list
    BY <1>4, <1>8 DEF Text!Probe, ListInv
  <2>2. led \notin Counted /\ Counted' = Counted \cup {led} /\ OnList' = OnList
    BY <1>4, <2>1 DEF Counted, OnList, LedsAt
  <2>3. IsFiniteSet(Counted') /\ Cardinality(Counted') = Cardinality(Counted) + 1
    BY <1>5, <2>2, FS_AddElement
  <2> QED
    BY <1>1, <1>5, <1>6, <2>1, <2>2, <2>3
<1>9. CASE Text!Bound(led)
  <2>1. /\ ledAt[led] = "counted" /\ ledAt'[led] = "listed"
        /\ ledCount' = ledCount /\ list' = Append(list, led)
    BY <1>4, <1>9 DEF Text!Bound, ListInv
  <2>2. led \notin OnList /\ OnList' = OnList \cup {led} /\ Counted' = Counted
    BY <1>4, <2>1 DEF Counted, OnList, LedsAt
  <2>3. IsFiniteSet(OnList') /\ Cardinality(OnList') = Cardinality(OnList) + 1
    BY <1>5, <2>2, FS_AddElement
  <2>4. list' \in Seq(Leds) /\ Len(list') = Len(list) + 1
    BY <1>1, <2>1, AppendProperties
  <2> QED
    BY <1>5, <1>7, <2>1, <2>2, <2>3, <2>4
<1>10. CASE Text!Remove(led)
  <2>1. /\ ledAt[led] = "listed" /\ ledAt'[led] = "leaving" /\ list' = list
        /\ ledCount' = IF ledCount > 0 THEN ledCount - 1 ELSE 0
    BY <1>4, <1>10 DEF Text!Remove, ListInv
  <2>2. led \in Counted /\ Counted' = Counted \ {led} /\ OnList' = OnList
    BY <1>4, <2>1 DEF Counted, OnList, LedsAt
  <2>3. IsFiniteSet(Counted') /\ Cardinality(Counted') = Cardinality(Counted) - 1
    BY <1>5, <2>2, FS_RemoveElement
  <2>4. Cardinality(Counted) > 0
    <3>1. Cardinality(Counted) # 0
      BY <1>5, <2>2, FS_EmptySet
    <3> QED
      BY <1>5, <3>1
  <2>5. ledCount' = Cardinality(Counted')
    BY <1>5, <2>1, <2>3, <2>4
  <2> QED
    BY <1>1, <1>6, <2>1, <2>2, <2>3, <2>5
<1>11. CASE Text!RemoveData(led)
  <2>1. /\ ledAt[led] = "leaving" /\ ledAt'[led] = "cleared"
        /\ list' = list /\ ledCount' = ledCount
    BY <1>4, <1>11 DEF Text!RemoveData, ListInv
  <2>2. Counted' = Counted /\ OnList' = OnList
    BY <1>4, <2>1 DEF Counted, OnList, LedsAt
  <2> QED
    BY <1>1, <1>5, <1>6, <2>1, <2>2
<1>12. CASE Text!Unbound(led)
  <2>1. /\ ledAt[led] = "cleared" /\ ledAt'[led] = "out" /\ ledCount' = ledCount
    BY <1>4, <1>12 DEF Text!Unbound, ListInv
  <2>2. PICK j \in DOMAIN list : list' = Text!Seqs!RemoveAt(list, j)
    BY <1>12 DEF Text!Unbound
  <2>3. led \in OnList /\ OnList' = OnList \ {led} /\ Counted' = Counted
    BY <1>4, <2>1 DEF Counted, OnList, LedsAt
  <2>4. IsFiniteSet(OnList') /\ Cardinality(OnList') = Cardinality(OnList) - 1
    BY <1>5, <2>3, FS_RemoveElement
  <2>5. list' \in Seq(Leds) /\ Len(list') = Len(list) - 1
    BY <1>1, <2>2, Removed
  <2> QED
    BY <1>5, <1>7, <2>1, <2>3, <2>4, <2>5
<1> QED
  BY <1>8, <1>9, <1>10, <1>11, <1>12

(* A reader of the list takes a step.                                        *)
LEMMA ListShown ==
  ASSUME ListInv, Text!Show \/ Text!ShowRow \/ Text!ShowEnds
  PROVE  ListInv'
<1>1. list \in Seq(Leds) /\ Len(list) \in Nat /\ Cardinality(Counted) \in Nat
  BY LenProperties, FS_CardinalityType DEF ListInv
<1>2. UNCHANGED <<ledAt, list, ledCount>>
  BY DEF Text!Show, Text!ShowRow, Text!ShowEnds, Text!listVars
<1>3. Counted' = Counted /\ OnList' = OnList /\ Text!Settled' = Text!Settled
  BY <1>2 DEF Counted, OnList, LedsAt, Text!Settled
<1>4. ASSUME row' \in Nat, limit' \in Nat,
             calm' /\ row' > 0 =>
               /\ Text!Settled
               /\ limit' = Len(list) /\ row' <= limit' + 1
               /\ rows' = SubSeq(list, 1, row' - 1)
      PROVE  ListInv'
  BY <1>2, <1>3, <1>4 DEF ListInv
<1>5. CASE Text!Show
  <2>1. row' = 1 /\ limit' = ledCount /\ rows' = <<>> /\ calm' = Text!Settled
    BY <1>5 DEF Text!Show
  <2>2. SubSeq(list, 1, 0) = <<>>
    BY SubSeqEmpty
  <2>3. Text!Settled => Counted = OnList
    BY DEF Text!Settled, Counted, OnList, LedsAt
  <2>4. ledCount \in Nat /\ (Text!Settled => ledCount = Len(list))
    BY <1>1, <2>3 DEF ListInv
  <2> QED
    BY <1>1, <1>4, <2>1, <2>2, <2>4
<1>6. CASE Text!ShowRow
  <2>1. /\ row \in 1..limit /\ limit \in Nat /\ row' = row + 1 /\ limit' = limit
        /\ calm' = calm /\ rows' = Append(rows, Text!Find(row))
    BY <1>6 DEF Text!ShowRow, ListInv
  <2>2. calm => Text!Settled /\ limit = Len(list) /\ rows = SubSeq(list, 1, row - 1)
    BY <2>1 DEF ListInv
  <2>3. calm => rows' = SubSeq(list, 1, row)
    <3> SUFFICES ASSUME calm PROVE rows' = SubSeq(list, 1, row)
      OBVIOUS
    <3>1. row \in 1..Len(list) /\ list[row] \in Leds
      BY <1>1, <2>1, <2>2, LenProperties
    <3>2. Text!Find(row) = list[row]
      BY <1>1, <2>2, <3>1 DEF Text!Find, Text!Settled
    <3>3. rows' = Append(SubSeq(list, 1, row - 1), list[row])
      BY <2>1, <2>2, <3>2
    <3>4. SubSeq(list, 1, row) = SubSeq(list, 1, row - 1) \o <<list[row]>>
      BY <1>1, <3>1, SubSeqRecursiveSecond
    <3>5. SubSeq(list, 1, row - 1) \in Seq(Leds)
      <4>1. \A i \in 1..Len(list) : list[i] \in Leds
        BY <1>1, LenProperties
      <4> QED
        BY <1>1, <3>1, <4>1, SubSeqProperties
    <3> QED
      BY <3>1, <3>3, <3>4, <3>5, AppendIsConcat
  <2> QED
    BY <1>1, <1>4, <2>1, <2>2, <2>3
<1>7. CASE Text!ShowEnds
  <2>1. row' = 0 /\ limit' = limit /\ limit \in Nat
    BY <1>7 DEF Text!ShowEnds, ListInv
  <2> QED
    BY <1>4, <2>1
<1> QED
  BY <1>5, <1>6, <1>7

(* The bytes keep their order, and the rows are those of the list.             *)
THEOREM TextInvariant == Text!Spec => []TextInv
<1>1. Text!Init => TextInv
  <2> SUFFICES ASSUME Text!Init PROVE TextInv
    OBVIOUS
  <2>1. Text!BytesKeepOrder
    BY DriverConstants DEF Text!Init, Text!BytesKeepOrder, Text!Nothing,
       Text!CommandAssumption
  <2>2. Counted = {} /\ OnList = {}
    BY DEF Text!Init, Counted, OnList, LedsAt
  <2>3. /\ IsFiniteSet(Counted) /\ Cardinality(Counted) = 0
        /\ IsFiniteSet(OnList) /\ Cardinality(OnList) = 0
    BY <2>2, FS_EmptySet
  <2>4. list \in Seq(Leds) /\ Len(list) = 0
    BY EmptySeq DEF Text!Init
  <2>5. ListInv
    BY <2>3, <2>4 DEF Text!Init, ListInv
  <2> QED
    BY <2>1, <2>5 DEF TextInv
<1>2. TextInv /\ [Text!Next]_(Text!vars) => TextInv'
  <2>1. TextInv /\ UNCHANGED Text!vars => TextInv'
    BY DEF TextInv, ListInv, Counted, OnList, LedsAt, Text!Settled, Text!BytesKeepOrder,
       Text!vars, Text!lineVars, Text!listVars, Text!readVars
  <2>2. TextInv /\ Text!LineNext => TextInv'
    <3>1. Text!LineNext => UNCHANGED <<Text!listVars, Text!readVars>>
      BY DEF Text!LineNext, Text!Write
    <3>2. ListInv /\ UNCHANGED <<Text!listVars, Text!readVars>> => ListInv'
      BY DEF ListInv, Counted, OnList, LedsAt, Text!Settled, Text!listVars, Text!readVars
    <3> QED
      BY <3>1, <3>2, LineWritten DEF Text!LineNext, TextInv
  <2>3. TextInv /\ Text!ListNext => TextInv'
    <3>1. Text!ListNext => UNCHANGED Text!lineVars
      BY DEF Text!ListNext, Text!Probe, Text!Bound, Text!Remove, Text!RemoveData,
         Text!Unbound, Text!Move, Text!Show, Text!ShowRow, Text!ShowEnds, Text!lineVars
    <3>2. Text!BytesKeepOrder /\ UNCHANGED Text!lineVars => Text!BytesKeepOrder'
      BY DEF Text!BytesKeepOrder, Text!lineVars
    <3> QED
      BY <3>1, <3>2, ListMoves, ListShown DEF Text!ListNext, TextInv
  <2> QED
    BY <2>1, <2>2, <2>3 DEF Text!Next
<1> QED
  BY <1>1, <1>2, PTL DEF Text!Spec

(* A calm list has been read to its end.                                      *)
LEMMA CalmListIsWhole == ListInv => Text!CalmListIsExact
<1> SUFFICES ASSUME ListInv, row > limit, calm PROVE rows = list
  BY DEF Text!CalmListIsExact
<1>1. row = Len(list) + 1 /\ rows = SubSeq(list, 1, row - 1) /\ Len(list) \in Nat
  BY LenProperties DEF ListInv
<1>2. SubSeq(list, 1, Len(list)) = list
  BY SubSeqFull DEF ListInv
<1> QED
  BY <1>1, <1>2

-------------------------------------------------------------------------------
(* The slots of the ring, from the last one backwards.                          *)
LEMMA SlotsOfRing ==
  ASSUME NEW w \in 0..RingSize - 1, NEW b \in 0..RingSize - 1
  PROVE  /\ (w - b + RingSize) % RingSize = IF b <= w THEN w - b ELSE w - b + RingSize
         /\ (w + 1) % RingSize = IF w + 1 = RingSize THEN 0 ELSE w + 1
<1>1. RingSize \in Nat \ {0}
  BY DriverConstants DEF History!ErrorLogAssumption
<1>2. \A x \in 0..RingSize - 1 : x % RingSize = x /\ (x + RingSize) % RingSize = x
  BY <1>1
<1>3. RingSize % RingSize = 0
  BY <1>1
<1> QED
  BY <1>1, <1>2, <1>3

(* Counted in the slots, the last errors are those of the history.               *)
Slot(w, b) == IF b <= w THEN w - b ELSE w - b + RingSize

Recent(s, b) == IF b < Len(s) THEN s[Len(s) - b] ELSE History!NoRecord

LEMMA RingBySlots ==
  /\ RingInv =>
       \A b \in 0..RingSize - 1 : errors[Slot(writeIndex, b)] = Recent(runs, b)
  /\ /\ writeIndex' \in 0..RingSize - 1
     /\ \A b \in 0..RingSize - 1 : errors'[Slot(writeIndex', b)] = Recent(runs', b)
     => History!RingIsRecent'
<1>1. \A w, b \in 0..RingSize - 1 : (w - b + RingSize) % RingSize = Slot(w, b)
  BY SlotsOfRing DEF Slot
<1> QED
  BY <1>1 DEF RingInv, History!RingIsRecent, Recent

(* An error is recorded: again the last one, or one in the slot after it.         *)
LEMMA RingRecords ==
  ASSUME RingInv, NEW code \in Errors, NEW kind \in Kinds, History!Record(code, kind)
  PROVE  RingInv'
<1> DEFINE next == (writeIndex + 1) % RingSize
           n == Len(runs)
           one == [code |-> code, kind |-> kind, count |-> 1]
           Run == [code : Errors, kind : Kinds, count : Nat]
<1>1. /\ RingSize \in Nat \ {0} /\ 0 \notin Errors
      /\ writeIndex \in 0..RingSize - 1 /\ runs \in Seq(Run) /\ n \in Nat
      /\ DOMAIN errors = 0..RingSize - 1
  BY DriverConstants, LenProperties DEF History!ErrorLogAssumption, RingInv
<1> HIDE DEF Run
<1>2. \A b \in 0..RingSize - 1 : errors[Slot(writeIndex, b)] = Recent(runs, b)
  BY RingBySlots
<1>3. errors[writeIndex] = Recent(runs, 0)
  BY <1>1, <1>2 DEF Slot
<1>4. n = 0 => runs = <<>>
  BY <1>1, EmptySeq
<1>5. n > 0 => runs[n] \in Run /\ Recent(runs, 0) = runs[n]
  <2>1. n > 0 => runs[n] \in Run
    BY <1>1, LenProperties
  <2>2. n > 0 => Recent(runs, 0) = runs[n]
    BY <1>1 DEF Recent
  <2> QED
    BY <2>1, <2>2
<1>6. n = 0 => Recent(runs, 0) = History!NoRecord
  BY <1>1 DEF Recent
<1>7. History!Same(code, kind) <=> n > 0 /\ runs[n].code = code /\ runs[n].kind = kind
  BY <1>1, <1>3, <1>5, <1>6 DEF History!Same, History!NoRecord
<1>8. CASE History!Same(code, kind)
  <2> DEFINE more == [runs[n] EXCEPT !.count = @ + 1]
  <2>1. n > 0 /\ runs # <<>>
    BY <1>7, <1>8, <1>1, EmptySeq
  <2>2. errors' = [errors EXCEPT ![writeIndex].count = @ + 1] /\ writeIndex' = writeIndex
    BY <1>8 DEF History!Record
  <2>3. runs' = [runs EXCEPT ![n] = more]
    BY <1>7, <1>8, <2>1 DEF History!Record, History!Extended
  <2>4. more \in Run
    BY <1>5, <2>1 DEF Run
  <2> HIDE DEF more
  <2>5. runs' \in Seq(Run) /\ Len(runs') = n
        /\ \A j \in 1..n : runs'[j] = IF j = n THEN more ELSE runs[j]
    BY <1>1, <2>1, <2>3, <2>4, ExceptSeq
  <2>6. errors'[writeIndex] = more
    BY <1>1, <1>3, <1>5, <2>1, <2>2 DEF more
  <2>7. DOMAIN errors' = 0..RingSize - 1
        /\ \A j \in 0..RingSize - 1 : j # writeIndex => errors'[j] = errors[j]
    BY <1>1, <2>2
  <2>8. ASSUME NEW b \in 0..RingSize - 1
        PROVE  errors'[Slot(writeIndex', b)] = Recent(runs', b)
    <3>1. CASE b = 0
      <4>1. Slot(writeIndex', b) = writeIndex
        BY <1>1, <2>2, <3>1 DEF Slot
      <4>2. Recent(runs', b) = more
        BY <1>1, <2>1, <2>5, <3>1 DEF Recent
      <4> QED
        BY <2>6, <4>1, <4>2
    <3>2. CASE b # 0
      <4>1. Slot(writeIndex, b) \in 0..RingSize - 1 /\ Slot(writeIndex, b) # writeIndex
        BY <1>1, <3>2 DEF Slot
      <4>2. errors'[Slot(writeIndex', b)] = errors[Slot(writeIndex, b)]
        BY <2>2, <2>7, <4>1
      <4>3. Recent(runs', b) = Recent(runs, b)
        BY <1>1, <2>5, <3>2 DEF Recent
      <4> QED
        BY <1>2, <4>2, <4>3
    <3> QED
      BY <3>1, <3>2
  <2>9. History!RingIsRecent'
    BY <1>1, <2>2, <2>8, RingBySlots
  <2> QED
    BY <1>1, <2>2, <2>5, <2>7, <2>9 DEF RingInv, Run
<1>9. CASE ~History!Same(code, kind)
  <2>1. errors' = [errors EXCEPT ![next] = one] /\ writeIndex' = next
    BY <1>9 DEF History!Record
  <2>2. next = IF writeIndex + 1 = RingSize THEN 0 ELSE writeIndex + 1
    BY <1>1, SlotsOfRing
  <2>3. next \in 0..RingSize - 1
    BY <1>1, <2>2
  <2>4. runs' = Append(runs, one)
    <3>1. ~(runs # <<>> /\ runs[n].code = code /\ runs[n].kind = kind)
      BY <1>1, <1>7, <1>9, EmptySeq
    <3> QED
      BY <3>1 DEF History!Record, History!Extended
  <2>5. runs' \in Seq(Run) /\ Len(runs') = n + 1
        /\ \A j \in 1..n + 1 : runs'[j] = IF j = n + 1 THEN one ELSE runs[j]
    <3>1. one \in Run
      BY DEF Run
    <3> QED
      BY <1>1, <2>4, <3>1, AppendProperties
  <2>6. DOMAIN errors' = 0..RingSize - 1 /\ errors'[next] = one
        /\ \A j \in 0..RingSize - 1 : j # next => errors'[j] = errors[j]
    BY <1>1, <2>1, <2>3
  <2>7. ASSUME NEW b \in 0..RingSize - 1
        PROVE  errors'[Slot(writeIndex', b)] = Recent(runs', b)
    <3>1. CASE b = 0
      <4>1. Slot(next, b) = next
        BY <2>3, <3>1 DEF Slot
      <4>2. Recent(runs', b) = one
        BY <1>1, <2>5, <3>1 DEF Recent
      <4> QED
        BY <2>1, <2>6, <4>1, <4>2
    <3>2. CASE b # 0
      <4>1. /\ b - 1 \in 0..RingSize - 1
            /\ Slot(next, b) = Slot(writeIndex, b - 1)
            /\ Slot(next, b) \in 0..RingSize - 1 /\ Slot(next, b) # next
        BY <1>1, <2>2, <3>2 DEF Slot
      <4>2. errors'[Slot(next, b)] = Recent(runs, b - 1)
        BY <1>2, <2>6, <4>1
      <4>3. Recent(runs', b) = Recent(runs, b - 1)
        BY <1>1, <2>5, <3>2 DEF Recent
      <4> QED
        BY <2>1, <4>2, <4>3
    <3> QED
      BY <3>1, <3>2
  <2>8. History!RingIsRecent'
    BY <2>1, <2>3, <2>7, RingBySlots
  <2> QED
    BY <2>1, <2>3, <2>5, <2>6, <2>8 DEF RingInv, Run
<1> QED
  BY <1>8, <1>9

(* The ring has the last errors.                                              *)
THEOREM RingInvariant == History!Spec => []RingInv
<1>1. History!Init => RingInv
  <2> SUFFICES ASSUME History!Init PROVE RingInv
    OBVIOUS
  <2>1. RingSize \in Nat \ {0} /\ Len(runs) = 0
    BY DriverConstants DEF History!ErrorLogAssumption, History!Init
  <2>2. runs \in Seq([code : Errors, kind : Kinds, count : Nat])
    BY DEF History!Init
  <2>3. \A j \in 0..RingSize - 1 : errors[j] = History!NoRecord
    BY DEF History!Init
  <2>4. \A b \in 0..RingSize - 1 : (writeIndex - b + RingSize) % RingSize \in 0..RingSize - 1
    BY <2>1 DEF History!Init
  <2>5. History!RingIsRecent
    BY <2>1, <2>3, <2>4 DEF History!RingIsRecent
  <2> QED
    BY <2>1, <2>2, <2>5 DEF RingInv, History!Init
<1>2. RingInv /\ [History!Next]_(History!vars) => RingInv'
  <2>1. RingInv /\ UNCHANGED <<errors, writeIndex, runs>> => RingInv'
    BY DEF RingInv, History!RingIsRecent
  <2>2. UNCHANGED History!vars => UNCHANGED <<errors, writeIndex, runs>>
    BY DEF History!vars
  <2>3. ASSUME NEW code, History!RequestFails(code) \/ History!RequestSucceeds
        PROVE  UNCHANGED <<errors, writeIndex, runs>>
    BY <2>3 DEF History!RequestFails, History!RequestSucceeds
  <2> QED
    BY <2>1, <2>2, <2>3, RingRecords DEF History!Next
<1> QED
  BY <1>1, <1>2, PTL DEF History!Spec

-------------------------------------------------------------------------------
(* What the parts are for.                                                    *)

(* A clean line answers in order, on a UART and on CAN, and a request on I2C or   *)
(* SPI is heard whole or not at all (pdm_mcu_uart_cmd_xfer,                     *)
(* pdm_mcu_can_cmd_xfer, pdm_mcu_i2c_cmd_xfer).                               *)
THEOREM AnswersAreClean == UartSpec /\ Can!Spec /\ Serial!Spec => []CleanAnswers
<1>1. CanInv => Can!CleanBusAnswers
  BY DEF CanInv
<1>2. BusInv => Serial!RequestsAreWhole
  BY DEF BusInv
<1>3. CleanLineAnswers /\ Can!CleanBusAnswers /\ Serial!RequestsAreWhole => CleanAnswers
  BY DEF CleanAnswers
<1> QED
  BY <1>1, <1>2, <1>3, CleanLinesAnswer, CanInvariant, BusInvariant, PTL

(* What was taken is given back, whichever step failed: the references of the     *)
(* network devices, the GPIO or PWM of an LED, the links of an I2C or SPI device,  *)
(* the children of the PDM bus node and what a load has registered               *)
(* (pdm_mcu_can_setup, pdm_led_probe, pdm_mcu_i2c_setup, pdm_of_bus_probe,       *)
(* pdm_init).                                                                *)
THEOREM FailuresAreUndone ==
  Can!Spec /\ Led!Spec /\ Serial!Spec /\ Tree!Spec /\ Load!Spec => []FailuresGiveBack
<1>1. CanInv => Can!NetdevRefsExact
  BY DEF CanInv
<1>2. LedInv => Led!ReleasedWhenUnbound
  BY DEF LedInv, Led!ReleasedWhenUnbound
<1>3. BusInv => Serial!LinksAgree
  BY DEF BusInv, BusLinks
<1>4. TreeInv => Tree!TreeIsWhole
  BY DEF TreeInv, NameInv, WalkInv, Tree!TreeIsWhole, Tree!NoDevice
<1>5. /\ Can!NetdevRefsExact /\ Led!ReleasedWhenUnbound /\ Serial!LinksAgree
      /\ Tree!TreeIsWhole /\ Load!NothingStays
      => FailuresGiveBack
  BY DEF FailuresGiveBack
<1> QED
  BY <1>1, <1>2, <1>3, <1>4, <1>5, OutIsEmpty, CanInvariant, LedInvariant, BusInvariant,
     TreeInvariant, LoadInvariant, PTL

(* What is on the bus stands on what it uses, through every load, failed load     *)
(* and unload (pdm_init, pdm_exit).                                            *)
THEOREM BusStandsOnCore == Load!Spec => []Grounded
BY StandsOnCore, LoadInvariant, PTL

(* A bound device has the driver and the transport its node describes, and a       *)
(* number nobody else has (pdm_bus_match, pdm_mcu_match, pdm_led_match).         *)
THEOREM BoundAsDescribed == Tree!Spec => []ServedAsDescribed
<1>1. TreeInv => ServedAsDescribed
  <2> SUFFICES ASSUME TreeInv PROVE Tree!ServedAsDescribed
    BY DEF ServedAsDescribed
  <2>1. \A n \in Nodes : ~(Tree!Matches("mcu", n) /\ Tree!Matches("led", n))
    BY DEF Tree!Matches, Tree!McuCompatibles, Tree!McuTransports, Tree!LedCompatibles,
       Tree!LedControls
  <2>2. \A n \in Nodes : named[n] # <<>> => Tree!CompatibleOf(n) # "none"
    BY DEF TreeInv, NameInv
  <2>3. \A m, n \in Nodes :
          m # n /\ match[m] # Tree!NoDriver /\ match[n] # Tree!NoDriver =>
            <<match[m].driver, match[m].id>> # <<match[n].driver, match[n].id>>
    BY DEF TreeInv, ServeInv
  <2> QED
    BY <2>1, <2>2, <2>3 DEF TreeInv, ServeInv, Tree!ServedAsDescribed, Tree!NoDevice
<1> QED
  BY <1>1, TreeInvariant, PTL

(* The diagnostics tell what is (pdm_mcu_debugfs_write, pdm_led_proc_show,        *)
(* pdm_device_record_error_type).                                             *)
THEOREM DiagnosticsAreTrue == Text!Spec /\ History!Spec => []DiagnosticsTell
<1>1. TextInv => Text!BytesKeepOrder /\ Text!CalmListIsExact
  BY CalmListIsWhole DEF TextInv
<1>2. RingInv => History!RingIsRecent
  BY DEF RingInv
<1>3. Text!BytesKeepOrder /\ Text!CalmListIsExact /\ History!RingIsRecent
        => DiagnosticsTell
  BY DEF DiagnosticsTell
<1> QED
  BY <1>1, <1>2, <1>3, TextInvariant, RingInvariant, PTL
===============================================================================
