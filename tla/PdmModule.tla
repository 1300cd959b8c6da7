------------------------------ MODULE PdmModule ------------------------------
(***************************************************************************)
(* Loading and unloading pdm.ko (kernel/pdm/pdm.c): the order in which its  *)
(* parts come up, the unwinding of a load that fails at any point, and the  *)
(* exit, whose order is not the reverse of the load's.  Meanwhile devices   *)
(* appear and go on the enumerators, are bound by the drivers, and files    *)
(* are opened.                                                             *)
(*                                                                         *)
(* A registration is counted, not set: a step that undoes what was not done *)
(* brings its count below zero.                                            *)
(***************************************************************************)
EXTENDS Integers, FiniteSets, Sequences

CONSTANTS
  Backends,   (* pdm_backend_entries in link order                         *)
  Enumerating,(* those with an init and an exit: drivers of a native bus   *)
  Drivers,    (* pdm_driver_entries in link order                          *)
  Devices,    (* devices that can appear                                   *)
  Enumerator, (* [Devices -> "of", "mock" or a backend]                     *)
  DriverOf,   (* [Devices -> driver that matches]                           *)
  MaxLoads    (* bound of the loads                                        *)

BackendSet == {Backends[k] : k \in DOMAIN Backends}
DriverSet == {Drivers[k] : k \in DOMAIN Drivers}

Core == {"ids", "bus", "of", "misc", "chrdev", "class"}
Parts == Core \cup Enumerating \cup DriverSet

(* What the constants are; assumed by the module that instantiates this one. *)
ModuleAssumption ==
  /\ Backends \in Seq(BackendSet) /\ Drivers \in Seq(DriverSet)
  /\ \A i, j \in DOMAIN Backends : Backends[i] = Backends[j] => i = j
  /\ \A i, j \in DOMAIN Drivers : Drivers[i] = Drivers[j] => i = j
  /\ BackendSet \cap DriverSet = {}
  /\ (BackendSet \cup DriverSet) \cap (Core \cup {"mock"}) = {}
  /\ Enumerating \subseteq BackendSet
  /\ Enumerator \in [Devices -> Enumerating \cup {"of", "mock"}]
  /\ DriverOf \in [Devices -> DriverSet]
  /\ MaxLoads \in Nat

VARIABLES
  pc,         (* the part the load or unload is at                         *)
  k,          (* the entry of a registry it is at                          *)
  up,         (* [Parts -> times registered]                                *)
  proc,       (* drivers with a /proc/pdm entry                            *)
  debug,      (* drivers with a debugfs entry                              *)
  procUsers,  (* g_lpf_proc_users                                          *)
  procRoot,   (* /proc/pdm is there                                        *)
  debugUsers, (* root->users                                               *)
  debugRoot,  (* the debugfs directory: "absent" (no struct), "none", "made"  *)
              (* or "unavailable"                                          *)
  roots,      (* structs of the directory allocated, in all loads          *)
  devices,    (* devices on the bus                                        *)
  bound,      (* devices bound to their driver: they have an id and a cdev *)
  files,      (* /dev/pdm_ctl or a device's node is open                   *)
  loads

diagVars == <<proc, debug, procUsers, procRoot, debugUsers, debugRoot, roots>>
busVars == <<devices, bound, files>>
vars == <<pc, k, up, diagVars, busVars, loads>>

Init ==
  /\ pc = "out" /\ k = 1
  /\ up = [r \in Parts |-> 0]
  /\ proc = {} /\ debug = {}
  /\ procUsers = 0 /\ procRoot = FALSE
  /\ debugUsers = 0 /\ debugRoot = "absent" /\ roots = 0
  /\ devices = {} /\ bound = {} /\ files = FALSE
  /\ loads = 0

Goto(from, to) == pc = from /\ pc' = to
Up(r) == up' = [up EXCEPT ![r] = @ + 1]
Down(r) == up' = [up EXCEPT ![r] = @ - 1]

(* Its enumerator goes, and the devices with it: pdm_device_unregister      *)
(* unbinds a device first.                                                 *)
Withdraw(gone) ==
  /\ devices' = devices \ gone
  /\ bound' = bound \ gone
  /\ UNCHANGED files
DevicesOf(e) == {d \in Devices : Enumerator[d] = e}
-------------------------------------------------------------------------------
(* pdm_module_init; the static data of the module is new.                  *)
Load ==
  /\ loads < MaxLoads
  /\ loads' = loads + 1
  /\ Goto("out", "bus")
  /\ k' = 1
  /\ Up("ids")
  /\ proc' = {} /\ debug' = {} /\ procUsers' = 0 /\ procRoot' = FALSE
  /\ debugUsers' = 0 /\ debugRoot' = "absent"
  /\ UNCHANGED <<roots, busVars>>

(* A part of the core is registered, or it fails and the load unwinds.     *)
Register(part, at, next) ==
  /\ Goto(at, next)
  /\ Up(part)
  /\ UNCHANGED <<k, diagVars, busVars, loads>>

Fails(at, label) ==
  /\ Goto(at, label)
  /\ UNCHANGED <<k, up, diagVars, busVars, loads>>

Unregister(part, label, next) ==
  /\ Goto(label, next)
  /\ Down(part)
  /\ UNCHANGED <<k, diagVars, busVars, loads>>

(* pdm_bus_init; a failed of_bus_init takes the bus back itself.           *)
BusInit ==
  \/ Register("bus", "bus", "of")
  \/ Fails("bus", "err_id")
  \/ Register("of", "of", "misc")
  \/ Fails("of", "of_failed")
  \/ Unregister("bus", "of_failed", "err_id")

(* A slip: the failure of class_register keeps the device numbers.         *)
CdevInitKeepsRegion ==
  \/ Register("misc", "misc", "chrdev")
  \/ Fails("misc", "err_bus")
  \/ Register("chrdev", "chrdev", "class")
  \/ Fails("chrdev", "cdev_err_manager")
  \/ Register("class", "class", "backends")
  \/ Fails("class", "cdev_err_manager")
  \/ Unregister("misc", "cdev_err_manager", "err_bus")

(* pdm_cdev_init and its two labels.                                       *)
CdevInit ==
  \/ Register("misc", "misc", "chrdev")
  \/ Fails("misc", "err_bus")
  \/ Register("chrdev", "chrdev", "class")
  \/ Fails("chrdev", "cdev_err_manager")
  \/ Register("class", "class", "backends")
  \/ Fails("class", "cdev_err_chrdev")
  \/ Unregister("chrdev", "cdev_err_chrdev", "cdev_err_manager")
  \/ Unregister("misc", "cdev_err_manager", "err_bus")
-------------------------------------------------------------------------------
(* pdm_backend_entries_init: entries without an init count as initialised. *)
BackendInit ==
  /\ pc = "backends" /\ k <= Len(Backends)
  /\ k' = k + 1
  /\ IF Backends[k] \in Enumerating THEN Up(Backends[k]) ELSE UNCHANGED up
  /\ UNCHANGED <<pc, diagVars, busVars, loads>>

BackendInitFails ==
  /\ pc = "backends" /\ k <= Len(Backends) /\ Backends[k] \in Enumerating
  /\ pc' = "undo_backends"
  /\ k' = k - 1
  /\ UNCHANGED <<up, diagVars, busVars, loads>>

BackendsDone ==
  /\ pc = "backends" /\ k > Len(Backends)
  /\ pc' = "driver" /\ k' = 1
  /\ UNCHANGED <<up, diagVars, busVars, loads>>

(* pdm_backend_entries_exit_count, called by the failed init ("undo"), by  *)
(* the failed load and by the exit of the module; the exit of a backend    *)
(* takes the devices it made off the bus.                                  *)
Undoing == {"undo_backends", "err_backends", "exit_backends"}

BackendExit ==
  /\ pc \in Undoing /\ k > 0
  /\ k' = k - 1
  /\ IF Backends[k] \in Enumerating
     THEN Down(Backends[k]) /\ Withdraw(DevicesOf(Backends[k]))
     ELSE UNCHANGED <<up, busVars>>
  /\ UNCHANGED <<pc, diagVars, loads>>

(* A slip: the exit takes the character devices down before the drivers.    *)
BackendsGoneToCdev ==
  /\ pc \in Undoing /\ k = 0
  /\ pc' = IF pc = "exit_backends" THEN "exit_cdev" ELSE "err_cdev"
  /\ UNCHANGED <<k, up, diagVars, busVars, loads>>

BackendsGone ==
  /\ pc \in Undoing /\ k = 0
  /\ pc' = IF pc = "exit_backends" THEN "exit_drivers" ELSE "err_cdev"
  /\ k' = IF pc = "exit_backends" THEN Len(Drivers) ELSE 0
  /\ UNCHANGED <<up, diagVars, busVars, loads>>
-------------------------------------------------------------------------------
(* pdm_mcu_driver_init and pdm_led_driver_init, called by                  *)
(* pdm_driver_entries_init: the bus driver first, ...                      *)
Driver == Drivers[k]

DriverInit ==
  /\ pc = "driver" /\ k <= Len(Drivers)
  /\ Up(Driver)
  /\ pc' = "proc"
  /\ UNCHANGED <<k, diagVars, busVars, loads>>

DriverInitFails ==
  /\ pc = "driver" /\ k <= Len(Drivers)
  /\ pc' = "undo_drivers"
  /\ k' = k - 1
  /\ UNCHANGED <<up, diagVars, busVars, loads>>

(* ... then its entry in the proc directory, which the first one makes, ... *)
ProcRegister ==
  /\ Goto("proc", "debug")
  /\ procRoot' = TRUE
  /\ procUsers' = procUsers + 1
  /\ proc' = proc \cup {Driver}
  /\ UNCHANGED <<k, up, debug, debugUsers, debugRoot, roots, busVars, loads>>

(* pdm_proc_root_deinit *)
PutProcRoot ==
  /\ procUsers' = procUsers - 1
  /\ procRoot' = (procRoot /\ procUsers' # 0)

(* A slip: the directory is removed with the entry that failed.            *)
ProcRegisterFailsRoot ==
  /\ Goto("proc", "driver_failed")
  /\ procRoot' = FALSE
  /\ UNCHANGED <<procUsers, k, up, proc, debug, debugUsers, debugRoot, roots, busVars,
                 loads>>

(* The directory, or the entry in it, cannot be made: pdm_mcu_diag_init    *)
(* fails, and the bus driver goes with it.                                 *)
ProcRegisterFails ==
  /\ Goto("proc", "driver_failed")
  /\ \/ ~procRoot /\ UNCHANGED <<procRoot, procUsers>>
     \/ procUsers' = procUsers /\ procRoot' = (procUsers > 0)
  /\ UNCHANGED <<k, up, proc, debug, debugUsers, debugRoot, roots, busVars, loads>>

(* ... then one in debugfs, without which the driver works too: its struct is  *)
(* made by the first that gets the memory, and the directory is not tried      *)
(* again once it could not be made.                                        *)
GetRoot == roots' = IF debugRoot = "absent" THEN roots + 1 ELSE roots

DebugRegister ==
  /\ pc = "debug"
  /\ \/ /\ debugRoot # "unavailable"
        /\ GetRoot /\ debugRoot' = "made"
        /\ debugUsers' = debugUsers + 1
        /\ debug' = debug \cup {Driver}
     \/ /\ debugRoot \in {"absent", "none"}
        /\ GetRoot /\ debugRoot' = "unavailable"
        /\ UNCHANGED <<debug, debugUsers>>
     \/ /\ debugRoot # "unavailable"     (* the file: the directory's user goes *)
        /\ GetRoot /\ debugRoot' = IF debugUsers = 0 THEN "none" ELSE "made"
        /\ UNCHANGED <<debug, debugUsers>>
     \/ /\ debugRoot \in {"absent", "unavailable"}     (* no memory, or no directory *)
        /\ UNCHANGED <<debug, debugUsers, debugRoot, roots>>
  /\ pc' = "driver" /\ k' = k + 1
  /\ UNCHANGED <<up, proc, procUsers, procRoot, busVars, loads>>

(* driver_unregister unbinds the driver's devices.                         *)
BusUnregisterDriver ==
  /\ Down(Driver)
  /\ bound' = {d \in bound : DriverOf[d] # Driver}
  /\ UNCHANGED <<devices, files>>

(* The failed driver takes itself back, pdm_driver_entries_init the others. *)
DriverFailed ==
  /\ Goto("driver_failed", "undo_drivers")
  /\ k' = k - 1
  /\ BusUnregisterDriver
  /\ UNCHANGED <<diagVars, loads>>

(* pdm_mcu_diag_exit and pdm_led_diag_exit; an entry that was not made is   *)
(* skipped, the directory goes with its last user.                         *)
DiagExit ==
  /\ proc' = proc \ {Driver}
  /\ IF Driver \in proc THEN PutProcRoot ELSE UNCHANGED <<procUsers, procRoot>>
  /\ debug' = debug \ {Driver}
  /\ IF Driver \in debug
     THEN /\ debugUsers' = debugUsers - 1
          /\ debugRoot' = IF debugUsers' = 0 THEN "none" ELSE debugRoot
     ELSE UNCHANGED <<debugUsers, debugRoot>>
  /\ UNCHANGED roots

(* pdm_driver_entries_exit_count; pdm_mcu_driver_exit, pdm_led_driver_exit. *)
Leaving == {"undo_drivers", "err_drivers", "exit_drivers"}

DriverExit ==
  /\ pc \in Leaving /\ k > 0
  /\ k' = k - 1
  /\ DiagExit
  /\ BusUnregisterDriver
  /\ UNCHANGED <<pc, loads>>

DriversGone ==
  /\ pc \in Leaving /\ k = 0
  /\ pc' = IF pc = "exit_drivers" THEN "exit_cdev" ELSE "err_backends"
  /\ k' = IF pc = "exit_drivers" THEN 0 ELSE Len(Backends)
  /\ UNCHANGED <<up, diagVars, busVars, loads>>

DriversDone ==
  /\ pc = "driver" /\ k > Len(Drivers)
  /\ pc' = "mock" /\ k' = 0
  /\ UNCHANGED <<up, diagVars, busVars, loads>>
-------------------------------------------------------------------------------
(* pdm_mock_devices_init and pdm_mock_devices_exit.                        *)
MockInit ==
  /\ pc = "mock"
  /\ \/ pc' = "live" /\ k' = 0 /\ devices' = devices \cup DevicesOf("mock")
     \/ pc' = "err_drivers" /\ k' = Len(Drivers) /\ UNCHANGED devices
  /\ UNCHANGED <<up, diagVars, bound, files, loads>>

(* rmmod: only while nobody has a file of the module open.                 *)
Unload ==
  /\ Goto("live", "exit_backends")
  /\ ~files
  /\ k' = Len(Backends)
  /\ Withdraw(DevicesOf("mock"))
  /\ UNCHANGED <<up, diagVars, loads>>

(* pdm_cdev_exit, ...                                                      *)
CdevExit ==
  \/ pc \in {"err_cdev", "exit_cdev"} /\ Unregister("class", pc, "cdev_chrdev")
  \/ Unregister("chrdev", "cdev_chrdev", "cdev_misc")
  \/ Unregister("misc", "cdev_misc", "err_bus")

(* ... pdm_bus_exit, with the devices that are left, and                   *)
(* pdm_device_ids_destroy.                                                 *)
BusExit ==
  \/ /\ Goto("err_bus", "bus_unregister")
     /\ Down("of") /\ Withdraw(DevicesOf("of"))
     /\ UNCHANGED <<k, diagVars, loads>>
  \/ Unregister("bus", "bus_unregister", "err_id")
  \/ Unregister("ids", "err_id", "out")
-------------------------------------------------------------------------------
(* A device appears below an enumerator, or goes: a platform, I2C, SPI or   *)
(* serial device, at any time.                                             *)
Appear(d) ==
  /\ Enumerator[d] \in Parts
  /\ up[Enumerator[d]] > 0
  /\ d \notin devices
  /\ devices' = devices \cup {d}
  /\ UNCHANGED <<pc, k, up, diagVars, bound, files, loads>>

Vanish(d) ==
  /\ d \in devices
  /\ Enumerator[d] # "mock"
  /\ Withdraw({d})
  /\ UNCHANGED <<pc, k, up, diagVars, loads>>

(* The driver core binds it: pdm_bus_probe.                                *)
Bind(d) ==
  /\ d \in devices \ bound
  /\ up[DriverOf[d]] > 0
  /\ bound' = bound \cup {d}
  /\ UNCHANGED <<pc, k, up, diagVars, devices, files, loads>>

(* A process opens /dev/pdm_ctl or a node, and closes what it has open.    *)
OpenFile ==
  /\ pc = "live" /\ ~files
  /\ files' = TRUE
  /\ UNCHANGED <<pc, k, up, diagVars, devices, bound, loads>>

CloseFile ==
  /\ files
  /\ files' = FALSE
  /\ UNCHANGED <<pc, k, up, diagVars, devices, bound, loads>>

BackendRegistry ==
  BackendInit \/ BackendInitFails \/ BackendsDone \/ BackendExit \/ BackendsGone

DriverRegistry ==
  \/ DriverInit \/ DriverInitFails \/ ProcRegister \/ ProcRegisterFails
  \/ DebugRegister \/ DriverFailed \/ DriversDone \/ DriverExit \/ DriversGone

Next ==
  \/ Load \/ BusInit \/ CdevInit \/ BackendRegistry \/ DriverRegistry
  \/ MockInit \/ Unload \/ CdevExit \/ BusExit
  \/ \E d \in Devices : Appear(d) \/ Vanish(d) \/ Bind(d)
  \/ OpenFile \/ CloseFile

Spec == Init /\ [][Next]_vars
-------------------------------------------------------------------------------
TypeOK ==
  /\ k \in 0 .. Len(Backends) + Len(Drivers) + 1
  /\ up \in [Parts -> {0, 1}]     (* nothing is undone that was not done   *)
  /\ proc \subseteq DriverSet /\ debug \subseteq DriverSet
  /\ procUsers \in Nat /\ procRoot \in BOOLEAN
  /\ debugUsers \in Nat /\ debugRoot \in {"absent", "none", "made", "unavailable"}
  /\ roots \in Nat
  /\ bound \subseteq devices /\ devices \subseteq Devices
  /\ files \in BOOLEAN
  /\ loads \in 0 .. MaxLoads

(* What is on the bus stands on what it uses, at every moment of a load,   *)
(* a failed load and an unload: a bound device on its driver, the id        *)
(* service, the class and the device numbers of its node; a driver and an   *)
(* enumerator on the bus; a diagnostic entry on its driver's registration.  *)
Grounded ==
  /\ \A d \in bound : \A r \in {DriverOf[d], "ids", "chrdev", "class"} : up[r] > 0
  /\ \A d \in devices : up["bus"] > 0
  /\ \A r \in Enumerating \cup DriverSet \cup {"of"} : up[r] > 0 => up["bus"] > 0
  /\ \A r \in proc \cup debug : up[r] > 0

(* Whatever failed, a module that is out has left nothing behind: no        *)
(* registration, no device, no diagnostic entry and no directory for them.  *)
(* The one exception is the struct of the debugfs directory, which nothing   *)
(* frees: each load leaves at most one (pdm_debugfs.c:128).                  *)
NothingStays ==
  pc = "out" =>
    /\ \A r \in Parts : up[r] = 0
    /\ devices = {} /\ proc = {} /\ debug = {}
    /\ ~procRoot /\ debugRoot # "made" /\ roots <= loads

(* What would be said without the exception; the code does not keep it. *)
RootsAreFreed == pc = "out" => roots = 0

(* The directories that the drivers share are there as long as an entry is. *)
DirectoriesShared ==
  /\ procRoot <=> proc # {}
  /\ debugRoot = "made" <=> debug # {}
  /\ procUsers = Cardinality(proc) /\ debugUsers = Cardinality(debug)
===============================================================================
