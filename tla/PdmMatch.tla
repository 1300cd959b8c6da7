-------------------------------- MODULE PdmMatch --------------------------------
(***************************************************************************)
(* Which driver and which backend serve a device (kernel/pdm/bus/pdm_bus.c,  *)
(* pdm_of_bus.c, registry/pdm_backend_registry.c, the match and the id        *)
(* functions of pdm_mcu.c and pdm_led.c): a node of the Device Tree becomes a  *)
(* device of the PDM bus, with a compatible and a number it asks for, either   *)
(* as a child of the PDM bus node or by the bus driver of its backend; the     *)
(* driver core binds it to the driver that matches, whichever of the two is    *)
(* registered first.  A probe is one step here (PdmBus has its steps).         *)
(***************************************************************************)
EXTENDS Integers, FiniteSets, Sequences

CONSTANTS
  Nodes,     (* nodes of the Device Tree                                     *)
  Children,  (* the sequence of those under the PDM bus node                 *)
  Bus,       (* [Nodes -> the bus of the node; "of": the PDM bus]             *)
  Compatible,(* [Nodes -> the first compatible, or "none"]                   *)
  Name,      (* [Nodes -> the name of the node, without its address]          *)
  PdmId,     (* [Nodes -> "pdm,id", a u32, or -1 if it is not there]          *)
  Second,    (* [Nodes -> "reg" on the PDM bus, "pdm,index" elsewhere, or -1] *)
  Half,      (* 2^31: half of the u32 values                                  *)
  Ids        (* the numbers a driver can give                               *)

McuTransports == {"mcu-uart", "mcu-can", "mcu-i2c", "mcu-spi"}
LedControls == {"led-gpio", "led-pwm"}

(* What starts with "pdm,mcu-", known or not, and what the LED knows.         *)
McuCompatibles == McuTransports \cup {"mcu-other"}
LedCompatibles == LedControls \cup {"led"}

(* What the constants are; assumed by the module that instantiates this one. *)
MatchAssumption ==
  /\ Children \in Seq(Nodes)
  /\ \A j, k \in DOMAIN Children : Children[j] = Children[k] => j = k
  /\ {"id", "auto"} \cap Nodes = {}    (* what a name is made of is told apart *)
  /\ \A n \in Nodes : Bus[n] = "of" <=> \E k \in DOMAIN Children : Children[k] = n
  /\ \A n \in Nodes : Bus[n] \in {"of", "uart", "i2c", "spi"}
  /\ \A n \in Nodes :
       Compatible[n] \in McuCompatibles \cup LedCompatibles \cup {"other", "none"}
  /\ Half \in Nat /\ Ids \subseteq 0..Half - 1
  /\ LET Values == Ids \cup Half..2 * Half - 1 \cup {-1}
     IN PdmId \in [Nodes -> Values] /\ Second \in [Nodes -> Values]

VARIABLES
  drivers,   (* the drivers registered on the PDM bus                        *)
  offers,    (* <<driver, node>>: the devices the one that is being registered  *)
             (* is yet to be offered                                        *)
  tree,      (* the enumerator of the PDM bus: away, probing, there, failed   *)
  child,     (* the number of the child it is at                             *)
  auto,      (* its auto_name_id                                             *)
  device,    (* [Nodes -> the name of the device made for the node]           *)
  requested, (* pdm_dev->requested_id                                        *)
  bound      (* [Nodes -> the driver, the backend and the number]             *)

treeVars == <<tree, child, auto>>
vars == <<drivers, offers, treeVars, device, requested, bound>>

NoDevice == <<>>
NoDriver == [driver |-> "none", backend |-> "none", id |-> -1]

Init ==
  /\ drivers = {} /\ offers = {}
  /\ tree = "away" /\ child = 1 /\ auto = 0
  /\ device = [n \in Nodes |-> NoDevice]
  /\ requested = [n \in Nodes |-> -1]
  /\ bound = [n \in Nodes |-> NoDriver]

(* (int) of a u32                                                            *)
ToInt(value) == IF value < Half THEN value ELSE value - 2 * Half

(* pdm_of_bus_child_id, pdm_mcu_bus_device_id: a number that does not fit an int is *)
(* negative and asks, like none, for any.                                      *)
RequestedId(n) == ToInt(IF PdmId[n] # -1 THEN PdmId[n] ELSE Second[n])

(* The compatible of the device made for a node; pdm_mcu_default_compatible.  *)
CompatibleOf(n) ==
  IF Bus[n] # "of" /\ Compatible[n] = "none"
  THEN CASE Bus[n] = "uart" -> "mcu-uart"
         [] Bus[n] = "i2c" -> "mcu-i2c"
         [] OTHER -> "mcu-spi"
  ELSE Compatible[n]

(* pdm_bus_device_match_impl asks the driver: pdm_mcu_match, pdm_led_match.   *)
Matches(driver, n) ==
  LET compatible == CompatibleOf(n) IN
    IF driver = "mcu" THEN compatible \in McuCompatibles
    ELSE compatible \in LedCompatibles \cup {"none"}

(* pdm_backend_find; an LED without a backend is kept in memory.              *)
Backend(driver, n) ==
  LET compatible == CompatibleOf(n) IN
    CASE compatible \in McuTransports \cup LedControls -> compatible
      [] driver = "led" -> "memory"
      [] OTHER -> "none"

(* Whether ops->setup finds what it needs; a CAN interface or a GPIO may lack. *)
SetupFits(n, backend) ==
  CASE backend = "mcu-uart" -> Bus[n] = "uart"
    [] backend = "mcu-i2c" -> Bus[n] = "i2c"
    [] backend = "mcu-spi" -> Bus[n] = "spi"
    [] OTHER -> TRUE

Taken(driver, given) ==
  {given[n].id : n \in {x \in Nodes : given[x].driver = driver}}

(* A slip: the number asked for is given without looking. *)
GrantsAsked(driver, ask, given) ==
  LET free == Ids \ Taken(driver, given) IN
    IF ask >= 0 THEN {ask}
    ELSE {i \in free : \A j \in free : i <= j}

(* The numbers pdm_device_bind may give: the one asked for, or the lowest.    *)
Grants(driver, ask, given) ==
  LET free == Ids \ Taken(driver, given) IN
    IF ask >= 0 THEN free \cap {ask}
    ELSE {i \in free : \A j \in free : i <= j}

(* pdm_bus_device_probe of the device of n: what bound may be afterwards.      *)
Probed(driver, n, given) ==
  LET backend == Backend(driver, n)
      results == IF backend = "none" \/ ~SetupFits(n, backend) THEN {}
                 ELSE {[driver |-> driver, backend |-> backend, id |-> i] :
                         i \in Grants(driver, requested'[n], given)}
  IN {[given EXCEPT ![n] = r] : r \in results} \cup
     (IF results = {} \/ backend \in {"mcu-can", "led-gpio", "led-pwm"}
      THEN {given} ELSE {})

(* The driver core looks for a driver of a new device.                       *)
Attach(n) ==
  LET matching == {driver \in drivers : Matches(driver, n)} IN
    IF matching = {} THEN bound' = bound
    ELSE \E driver \in matching : bound' \in Probed(driver, n, bound)

Gone(ns) ==
  /\ device' = [n \in Nodes |-> IF n \in ns THEN NoDevice ELSE device[n]]
  /\ bound' = [n \in Nodes |-> IF n \in ns THEN NoDriver ELSE bound[n]]
-------------------------------------------------------------------------------
(* pdm_bus_register_driver, one driver at a time: it is offered the devices that *)
(* have no driver ...                                                        *)
Offers(driver) ==
  {n \in Nodes : device[n] # NoDevice /\ bound[n] = NoDriver /\ Matches(driver, n)}

RegisterDriver(driver) ==
  /\ driver \notin drivers
  /\ offers = {}
  /\ drivers' = drivers \cup {driver}
  /\ offers' = {driver} \X Offers(driver)
  /\ UNCHANGED <<treeVars, device, requested, bound>>

(* ... one by one; here in any order.  Meanwhile devices come, which look for a   *)
(* driver themselves, and go.                                                *)
Offer(driver, n) ==
  /\ <<driver, n>> \in offers
  /\ offers' = offers \ {<<driver, n>>}
  /\ UNCHANGED <<drivers, treeVars, device, requested>>
  /\ IF n \in Offers(driver) THEN bound' \in Probed(driver, n, bound)
     ELSE UNCHANGED bound

UnregisterDriver(driver) ==
  /\ driver \in drivers
  /\ offers = {}
  /\ drivers' = drivers \ {driver}
  /\ bound' = [n \in Nodes |-> IF bound[n].driver = driver THEN NoDriver
                               ELSE bound[n]]
  /\ UNCHANGED <<offers, treeVars, device, requested>>

(* pdm_mcu_register_bus_device, in the probe of the bus driver of a backend.   *)
BusProbe(n) ==
  /\ Bus[n] # "of"
  /\ device[n] = NoDevice
  /\ device' = [device EXCEPT ![n] = <<Name[n], n, RequestedId(n)>>]
  /\ requested' = [requested EXCEPT ![n] = RequestedId(n)]
  /\ Attach(n)
  /\ UNCHANGED <<drivers, offers, treeVars>>

(* pdm_mcu_unregister_bus_device                                             *)
BusRemove(n) ==
  /\ Bus[n] # "of"
  /\ device[n] # NoDevice
  /\ Gone({n})
  /\ UNCHANGED <<drivers, offers, treeVars, requested>>
-------------------------------------------------------------------------------
(* pdm_of_bus_probe starts ...                                               *)
TreeProbe ==
  /\ tree \in {"away", "failed"}
  /\ tree' = "probing" /\ child' = 1 /\ auto' = 0
  /\ UNCHANGED <<drivers, offers, device, requested, bound>>

(* The name of the device of child n: by its number, or an automatic one.    *)
ChildName(n) ==
  IF RequestedId(n) >= 0 THEN <<Name[n], "id", RequestedId(n)>>
  ELSE <<Name[n], "auto", auto>>

(* ... takes the next child, skips one without a compatible ...              *)
SkipChild ==
  /\ tree = "probing"
  /\ child \in DOMAIN Children
  /\ Compatible[Children[child]] = "none"
  /\ child' = child + 1
  /\ UNCHANGED <<drivers, offers, tree, auto, device, requested, bound>>

(* ... makes a device for it and binds it to a driver, or fails and takes all  *)
(* devices back: pdm_of_bus_unregister_devices ...                            *)
AddChild ==
  LET n == Children[child] IN
    /\ tree = "probing"
    /\ child \in DOMAIN Children
    /\ Compatible[n] # "none"
    /\ \A m \in Nodes : device[m] # ChildName(n)
    /\ child' = child + 1
    /\ auto' = IF RequestedId(n) < 0 THEN auto + 1 ELSE auto
    /\ device' = [device EXCEPT ![n] = ChildName(n)]
    /\ requested' = [requested EXCEPT ![n] = RequestedId(n)]
    /\ Attach(n)
    /\ UNCHANGED <<drivers, offers, tree>>

OfDevices == {n \in Nodes : Bus[n] = "of"}

(* A slip: only the child that failed is given back. *)
AddChildFailsAlone ==
  /\ tree = "probing"
  /\ child \in DOMAIN Children
  /\ Compatible[Children[child]] # "none"
  /\ tree' = "failed"
  /\ UNCHANGED <<drivers, offers, child, auto, device, requested, bound>>

(* The name is there already, or no memory is left.                          *)
AddChildFails ==
  /\ tree = "probing"
  /\ child \in DOMAIN Children
  /\ Compatible[Children[child]] # "none"
  /\ tree' = "failed"
  /\ Gone(OfDevices)
  /\ UNCHANGED <<drivers, offers, child, auto, requested>>

(* ... and has done all of them.                                             *)
TreeDone ==
  /\ tree = "probing"
  /\ child \notin DOMAIN Children
  /\ tree' = "there"
  /\ UNCHANGED <<drivers, offers, child, auto, device, requested, bound>>

(* pdm_of_bus_remove                                                         *)
TreeRemove ==
  /\ tree = "there"
  /\ tree' = "away"
  /\ Gone(OfDevices)
  /\ UNCHANGED <<drivers, offers, child, auto, requested>>

Next ==
  \/ \E driver \in {"mcu", "led"} :
       \/ RegisterDriver(driver) \/ UnregisterDriver(driver)
       \/ \E n \in Nodes : Offer(driver, n)
  \/ \E n \in Nodes : BusProbe(n) \/ BusRemove(n)
  \/ TreeProbe \/ SkipChild \/ AddChild \/ AddChildFails \/ TreeDone \/ TreeRemove

Spec == Init /\ [][Next]_vars
-------------------------------------------------------------------------------
(* Types of the state. *)
TypeOK ==
  /\ drivers \subseteq {"mcu", "led"} /\ offers \subseteq drivers \X Nodes
  /\ tree \in {"away", "probing", "there", "failed"}
  /\ child \in 1..Len(Children) + 1 /\ auto \in 0..Len(Children)
  /\ requested \in [Nodes -> Ids \cup -Half..-1]

(* Whatever comes first, driver or device, one that is bound has the driver its *)
(* compatible names, the transport of the bus it is on and the number its node  *)
(* asks for, if that fits an int, and no two devices of a driver have one number; *)
(* no device is something both drivers would take (pdm_mcu_match, pdm_led_match). *)
ServedAsDescribed ==
  /\ \A n \in Nodes : device[n] # NoDevice =>
       ~(Matches("mcu", n) /\ Matches("led", n)) /\ CompatibleOf(n) # "none"
  /\ \A n \in Nodes : bound[n] # NoDriver =>
       /\ device[n] # NoDevice /\ bound[n].driver \in drivers
       /\ Matches(bound[n].driver, n)
       /\ bound[n].backend \in McuTransports => SetupFits(n, bound[n].backend)
       /\ requested[n] < 0 \/ requested[n] = bound[n].id
  /\ \A m, n \in Nodes :
       m # n /\ bound[m] # NoDriver /\ bound[n] # NoDriver =>
         <<bound[m].driver, bound[m].id>> # <<bound[n].driver, bound[n].id>>

(* The children of the PDM bus node come all or not at all, and no two devices  *)
(* have one name (pdm_of_bus_probe).                                         *)
TreeIsWhole ==
  /\ tree \in {"away", "failed"} => \A n \in OfDevices : device[n] = NoDevice
  /\ tree = "there" =>
       \A n \in OfDevices : (device[n] # NoDevice) <=> (Compatible[n] # "none")
  /\ \A m, n \in Nodes : m # n /\ device[m] # NoDevice => device[m] # device[n]
=================================================================================
