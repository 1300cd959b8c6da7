------------------------------ MODULE PdmInstance ------------------------------
(***************************************************************************)
(* The life of a driver instance and of its node /dev/pdm/mcuN             *)
(* (kernel/pdm/drivers/mcu/pdm_mcu.c, kernel/pdm/bus/pdm_cdev.c,           *)
(* kernel/include/pdm/registry/pdm_driver.h) while processes hold the node *)
(* open.  One thread at a time binds or unbinds a device; it and the       *)
(* processes share the instance's memory, its mutex and two counters: the  *)
(* references on client->dev, whose last one frees the instance, and those *)
(* on the cdev embedded in it, which the VFS takes for every open file.    *)
(* A cdev holds a reference on the device as long as it has any itself.    *)
(***************************************************************************)
EXTENDS Integers, FiniteSets

CONSTANTS
  Devices,    (* pdm_devices bound to the driver, and their threads        *)
  Memory,     (* storage for instances, handed out again once it is free   *)
  Procs,      (* processes; each has at most one file open                 *)
  Minors,     (* minor numbers of the pdm_cdev_ida                         *)
  None        (* no instance; nobody                                       *)

(* What the constants are; assumed by the module that instantiates this one. *)
InstanceAssumption ==
  /\ Minors \subseteq Nat
  /\ None \notin Devices \cup Memory \cup Procs
  /\ Devices \cap Procs = {}

NoMinor == -1

VARIABLES
  dpc,        (* where the thread that binds or unbinds a device is        *)
  own,        (* the instance that thread works on                         *)
  drvdata,    (* dev_get_drvdata(&pdm_dev->dev)                            *)
  devState,   (* pdm_dev->state                                            *)
  live,       (* the storage holds an instance                             *)
  dev,        (* inst->base.pdm_dev                                        *)
  online,     (* inst->base.online                                         *)
  lock,       (* who holds inst->base.lock                                 *)
  transport,  (* the transport is set up                                   *)
  minor,      (* client->minor                                             *)
  openCount,  (* client->open_count                                        *)
  devRefs,    (* references on client->dev                                 *)
  cdevRefs,   (* references on client->cdev                                *)
  minors,     (* minors reserved in pdm_cdev_ida                           *)
  ppc,        (* where a process is                                        *)
  at          (* the instance its file belongs to                          *)

bindVars == <<dpc, own, drvdata>>
memVars == <<live, dev, minor, minors>>
mutexVars == <<online, lock, transport>>
refVars == <<openCount, devRefs, cdevRefs>>
procVars == <<ppc, at>>
vars == <<dpc, own, drvdata, devState, live, dev, online, lock, transport,
          minor, openCount, devRefs, cdevRefs, minors, ppc, at>>

Init ==
  /\ dpc = [d \in Devices |-> "unbound"]
  /\ own = [d \in Devices |-> None]
  /\ drvdata = [d \in Devices |-> None]
  /\ devState = [d \in Devices |-> "REGISTERED"]
  /\ live = [i \in Memory |-> FALSE]
  /\ dev = [i \in Memory |-> None]
  /\ online = [i \in Memory |-> FALSE]
  /\ lock = [i \in Memory |-> None]
  /\ transport = [i \in Memory |-> FALSE]
  /\ minor = [i \in Memory |-> NoMinor]
  /\ openCount = [i \in Memory |-> 0]
  /\ devRefs = [i \in Memory |-> 0]
  /\ cdevRefs = [i \in Memory |-> 0]
  /\ minors = {}
  /\ ppc = [p \in Procs |-> "idle"]
  /\ at = [p \in Procs |-> None]

Goto(d, from, to) ==
  /\ dpc[d] = from
  /\ dpc' = [dpc EXCEPT ![d] = to]

Step(p, from, to) ==
  /\ ppc[p] = from
  /\ ppc' = [ppc EXCEPT ![p] = to]

(* A slip: the release callback leaves the minor reserved. *)
FreeKeepsMinor(i) ==
  /\ live' = [live EXCEPT ![i] = FALSE]
  /\ dev' = [dev EXCEPT ![i] = None]
  /\ minor' = [minor EXCEPT ![i] = NoMinor]
  /\ UNCHANGED minors

(* pdm_cdev_device_release, then pdm_mcu_client_release. *)
Free(i) ==
  /\ live' = [live EXCEPT ![i] = FALSE]
  /\ dev' = [dev EXCEPT ![i] = None]
  /\ minor' = [minor EXCEPT ![i] = NoMinor]
  /\ minors' = minors \ {minor[i]}

(* put_device(&client->dev) *)
PutDev(i) ==
  /\ devRefs' = [devRefs EXCEPT ![i] = @ - 1]
  /\ IF devRefs[i] = 1 THEN Free(i) ELSE UNCHANGED memVars

(* cdev_put; the last reference drops the one the cdev has on the device. *)
PutCdev(i) ==
  /\ cdevRefs' = [cdevRefs EXCEPT ![i] = @ - 1]
  /\ IF cdevRefs[i] = 1 THEN PutDev(i) ELSE UNCHANGED <<devRefs, memVars>>
-------------------------------------------------------------------------------
(* The device has no driver; "refused": for want of a number, the last time. *)
Unbound(d) == dpc[d] \in {"unbound", "refused"}

(* pdm_device_bind fails: the driver's probe is not called, and the error  *)
(* stays on the device.                                                    *)
BindFails(d) ==
  /\ Unbound(d)
  /\ dpc' = [dpc EXCEPT ![d] = "refused"]
  /\ devState' = [devState EXCEPT ![d] = "ERROR"]
  /\ UNCHANGED <<own, drvdata, memVars, mutexVars, refVars, procVars>>

(* pdm_device_bind succeeds and resets the state; pdm_mcu_probe allocates  *)
(* the instance and finds its transport.                                   *)
ProbeAlloc(d) ==
  /\ Unbound(d)
  /\ dpc' = [dpc EXCEPT ![d] = "setup"]
  /\ devState' = [devState EXCEPT ![d] = "REGISTERED"]
  /\ \E i \in Memory :
       /\ ~live[i]
       /\ live' = [live EXCEPT ![i] = TRUE]
       /\ own' = [own EXCEPT ![d] = i]
       /\ dev' = [dev EXCEPT ![i] = d]
       /\ online' = [online EXCEPT ![i] = TRUE]
       /\ lock' = [lock EXCEPT ![i] = None]
  /\ UNCHANGED <<drvdata, transport, minor, minors, refVars, procVars>>

(* ops->setup *)
SetupTransport(d) ==
  /\ Goto(d, "setup", "register")
  /\ transport' = [transport EXCEPT ![own[d]] = TRUE]
  /\ UNCHANGED <<own, drvdata, devState, online, lock, memVars, refVars, procVars>>

(* err_free: kfree(inst), no node has been made. *)
ProbeUndo(d) ==
  /\ live' = [live EXCEPT ![own[d]] = FALSE]
  /\ dev' = [dev EXCEPT ![own[d]] = None]
  /\ own' = [own EXCEPT ![d] = None]
  /\ UNCHANGED <<drvdata, devState, online, lock, minor, minors, refVars, procVars>>

SetupFails(d) ==
  /\ Goto(d, "setup", "unbound")
  /\ ProbeUndo(d)
  /\ UNCHANGED transport

(* pdm_cdev_register: the lowest free minor, a reference for the creator,  *)
(* one for the cdev; device_add makes the node last.                       *)
RegisterNode(d) ==
  LET i == own[d] IN
    /\ Goto(d, "register", "publish")
    /\ \E m \in Minors \ minors :
         /\ \A k \in Minors \ minors : m <= k
         /\ minors' = minors \cup {m}
         /\ minor' = [minor EXCEPT ![i] = m]
    /\ devRefs' = [devRefs EXCEPT ![i] = 2]
    /\ cdevRefs' = [cdevRefs EXCEPT ![i] = 1]
    /\ openCount' = [openCount EXCEPT ![i] = 0]
    /\ UNCHANGED <<own, drvdata, devState, live, dev, mutexVars, procVars>>

(* A slip: the failing probe leaves its transport set up. *)
RegisterFailsDirty(d) ==
  /\ Goto(d, "register", "unbound")
  /\ ProbeUndo(d)
  /\ UNCHANGED transport

(* No minor is left or device_add fails (what was reserved is given back): *)
(* err_cleanup_transport, err_free.                                        *)
RegisterFails(d) ==
  /\ Goto(d, "register", "unbound")
  /\ ProbeUndo(d)
  /\ transport' = [transport EXCEPT ![own[d]] = FALSE]

(* The rest of probe. *)
Publish(d) ==
  /\ Goto(d, "publish", "bound")
  /\ drvdata' = [drvdata EXCEPT ![d] = own[d]]
  /\ devState' = [devState EXCEPT ![d] = "BOUND"]
  /\ UNCHANGED <<own, memVars, mutexVars, refVars, procVars>>

(* pdm_mcu_remove takes the instance away from the device. *)
RemoveTake(d) ==
  /\ Goto(d, "bound", "shutdown")
  /\ own' = [own EXCEPT ![d] = drvdata[d]]
  /\ drvdata' = [drvdata EXCEPT ![d] = None]
  /\ UNCHANGED <<devState, memVars, mutexVars, refVars, procVars>>

(* A slip: shutdown does not wait for the mutex. *)
RemoveShutdownUnlocked(d) ==
  LET i == own[d] IN
    /\ Goto(d, "shutdown", "cleanup")
    /\ lock' = [lock EXCEPT ![i] = d]
    /\ online' = [online EXCEPT ![i] = FALSE]
    /\ UNCHANGED <<own, drvdata, devState, transport, memVars, refVars, procVars>>

(* A slip: shutdown lets every process that waits go first. *)
RemoveShutdownYields(d) ==
  LET i == own[d] IN
    /\ Goto(d, "shutdown", "cleanup")
    /\ lock[i] = None
    /\ \A p \in Procs : ~(ppc[p] = "claim" /\ at[p] = i)
    /\ lock' = [lock EXCEPT ![i] = d]
    /\ online' = [online EXCEPT ![i] = FALSE]
    /\ UNCHANGED <<own, drvdata, devState, transport, memVars, refVars, procVars>>

(* pdm_driver_shutdown returns with the mutex held. *)
RemoveShutdown(d) ==
  LET i == own[d] IN
    /\ Goto(d, "shutdown", "cleanup")
    /\ lock[i] = None
    /\ lock' = [lock EXCEPT ![i] = d]
    /\ online' = [online EXCEPT ![i] = FALSE]
    /\ UNCHANGED <<own, drvdata, devState, transport, memVars, refVars, procVars>>

(* ops->cleanup *)
RemoveCleanup(d) ==
  /\ Goto(d, "cleanup", "unlock")
  /\ transport' = [transport EXCEPT ![own[d]] = FALSE]
  /\ UNCHANGED <<own, drvdata, devState, online, lock, memVars, refVars, procVars>>

RemoveUnlock(d) ==
  /\ Goto(d, "unlock", "delete")
  /\ lock' = [lock EXCEPT ![own[d]] = None]
  /\ UNCHANGED <<own, drvdata, devState, online, transport, memVars, refVars, procVars>>

(* pdm_cdev_unregister: cdev_device_del ... *)
RemoveNode(d) ==
  /\ Goto(d, "delete", "put")
  /\ PutCdev(own[d])
  /\ UNCHANGED <<own, drvdata, devState, mutexVars, openCount, procVars>>

(* A slip: pdm_cdev_unregister keeps the creator's reference. *)
RemovePutLeaks(d) ==
  /\ Goto(d, "put", "unbound")
  /\ own' = [own EXCEPT ![d] = None]
  /\ devState' = [devState EXCEPT ![d] = "REGISTERED"]
  /\ UNCHANGED <<drvdata, mutexVars, refVars, memVars, procVars>>

(* A slip: remove frees the instance itself. *)
RemovePutFrees(d) ==
  /\ Goto(d, "put", "unbound")
  /\ devRefs' = [devRefs EXCEPT ![own[d]] = @ - 1]
  /\ Free(own[d])
  /\ own' = [own EXCEPT ![d] = None]
  /\ devState' = [devState EXCEPT ![d] = "REGISTERED"]
  /\ UNCHANGED <<drvdata, mutexVars, openCount, cdevRefs, procVars>>

(* ... and put_device; then pdm_device_unbind resets the device. *)
RemovePut(d) ==
  /\ Goto(d, "put", "unbound")
  /\ PutDev(own[d])
  /\ own' = [own EXCEPT ![d] = None]
  /\ devState' = [devState EXCEPT ![d] = "REGISTERED"]
  /\ UNCHANGED <<drvdata, mutexVars, openCount, cdevRefs, procVars>>
-------------------------------------------------------------------------------
(* chrdev_open finds the cdev by the node's number or in an inode that     *)
(* another open file keeps pointing to it, and takes a reference.          *)
OpenGet(p, i) ==
  /\ Step(p, "idle", "opening")
  /\ cdevRefs[i] > 0
  /\ cdevRefs' = [cdevRefs EXCEPT ![i] = @ + 1]
  /\ at' = [at EXCEPT ![p] = i]
  /\ UNCHANGED <<bindVars, devState, memVars, mutexVars, openCount, devRefs>>

(* pdm_cdev_default_open *)
Open(p) ==
  LET i == at[p] IN
    /\ Step(p, "opening", "open")
    /\ devRefs' = [devRefs EXCEPT ![i] = @ + 1]
    /\ openCount' = [openCount EXCEPT ![i] = @ + 1]
    /\ UNCHANGED <<bindVars, devState, memVars, mutexVars, cdevRefs, at>>

(* pdm_mcu_ioctl with a request that needs the device. *)
Ioctl(p) ==
  /\ Step(p, "open", "claim")
  /\ UNCHANGED <<bindVars, devState, memVars, mutexVars, refVars, at>>

(* pdm_driver_claim succeeds: the transfer begins, with the mutex held. *)
Claim(p) ==
  LET i == at[p] IN
    /\ Step(p, "claim", "xfer")
    /\ lock[i] = None
    /\ online[i]
    /\ lock' = [lock EXCEPT ![i] = p]
    /\ UNCHANGED <<bindVars, devState, online, transport, memVars, refVars, at>>

(* pdm_driver_claim finds the device offline: -ENODEV. *)
Refuse(p) ==
  LET i == at[p] IN
    /\ Step(p, "claim", "open")
    /\ lock[i] = None
    /\ ~online[i]
    /\ UNCHANGED <<bindVars, devState, memVars, mutexVars, refVars, at>>

(* The transfer ends; pdm_mcu_release_device reports its result and        *)
(* releases the mutex.                                                     *)
XferDone(p, result) ==
  LET i == at[p] IN
    /\ Step(p, "xfer", "open")
    /\ devState' = IF online[i] THEN [devState EXCEPT ![dev[i]] = result] ELSE devState
    /\ lock' = [lock EXCEPT ![i] = None]
    /\ UNCHANGED <<bindVars, online, transport, memVars, refVars, at>>

(* pdm_cdev_default_release *)
Close(p) ==
  LET i == at[p] IN
    /\ Step(p, "open", "closing")
    /\ openCount' = [openCount EXCEPT ![i] = IF @ > 0 THEN @ - 1 ELSE @]
    /\ PutDev(i)
    /\ UNCHANGED <<bindVars, devState, mutexVars, cdevRefs, at>>

(* The VFS drops the file's reference on the cdev after that. *)
ClosePut(p) ==
  /\ Step(p, "closing", "idle")
  /\ PutCdev(at[p])
  /\ at' = [at EXCEPT ![p] = None]
  /\ UNCHANGED <<bindVars, devState, mutexVars, openCount>>

Results == {"BOUND", "ERROR"}

Probe(d) ==
  \/ BindFails(d) \/ ProbeAlloc(d) \/ SetupTransport(d) \/ SetupFails(d)
  \/ RegisterNode(d) \/ RegisterFails(d) \/ Publish(d)

Remove(d) ==
  \/ RemoveTake(d) \/ RemoveShutdown(d) \/ RemoveCleanup(d)
  \/ RemoveUnlock(d) \/ RemoveNode(d) \/ RemovePut(d)

Process(p) ==
  \/ \E i \in Memory : OpenGet(p, i)
  \/ Open(p) \/ Ioctl(p) \/ Claim(p) \/ Refuse(p)
  \/ \E result \in Results : XferDone(p, result)
  \/ Close(p) \/ ClosePut(p)

Next == (\E d \in Devices : Probe(d) \/ Remove(d)) \/ (\E p \in Procs : Process(p))

Spec == Init /\ [][Next]_vars

(* A thread that removes a device goes on; a transfer ends, for every      *)
(* transport bounds its waiting; and the kernel's mutex hands itself over  *)
(* to a waiter that has been overtaken, hence the strong fairness.         *)
Fairness ==
  /\ \A d \in Devices : WF_vars(Remove(d) /\ dpc[d] # "bound")
  /\ \A d \in Devices : SF_vars(RemoveShutdown(d))
  /\ \A p \in Procs : WF_vars(\E result \in Results : XferDone(p, result))

FairSpec == Spec /\ Fairness
-------------------------------------------------------------------------------
ProcLabels == {"idle", "opening", "open", "claim", "xfer", "closing"}

BindLabels == {"unbound", "refused", "setup", "register", "publish", "bound", "shutdown",
               "cleanup", "unlock", "delete", "put"}

(* Types of the state.                                                     *)
TypeOK ==
  /\ dpc \in [Devices -> BindLabels]
  /\ own \in [Devices -> Memory \cup {None}]
  /\ drvdata \in [Devices -> Memory \cup {None}]
  /\ devState \in [Devices -> {"REGISTERED", "BOUND", "ERROR"}]
  /\ live \in [Memory -> BOOLEAN]
  /\ dev \in [Memory -> Devices \cup {None}]
  /\ online \in [Memory -> BOOLEAN]
  /\ DOMAIN lock = Memory    (* the diagnostic files have holders of their own *)
  /\ transport \in [Memory -> BOOLEAN]
  /\ minor \in [Memory -> Minors \cup {NoMinor}]
  /\ openCount \in [Memory -> Nat]
  /\ devRefs \in [Memory -> Nat]
  /\ cdevRefs \in [Memory -> Nat]
  /\ minors \subseteq Minors
  /\ ppc \in [Procs -> ProcLabels]
  /\ at \in [Procs -> Memory \cup {None}]

(* The thread's positions while the node's creator holds its reference,    *)
(* and while the cdev is added.                                            *)
Created == {"publish", "bound", "shutdown", "cleanup", "unlock", "delete", "put"}
Added == Created \ {"put"}

Openers(i) == {p \in Procs : at[p] = i /\ ppc[p] \in {"open", "claim", "xfer"}}
Files(i) == {p \in Procs : at[p] = i}

(* A file keeps its instance: whatever a process does with a node it has   *)
(* open, before, during and after the removal of the driver, the instance  *)
(* has not been freed, and it is still the one of the same device number   *)
(* (pdm_cdev_default_open and _release, pdm_cdev_device_release).          *)
OpenFilesAreSafe ==
  \A p \in Procs :
    at[p] # None =>
      /\ live[at[p]]
      /\ minor[at[p]] # NoMinor
      /\ \A d \in Devices : own[d] = at[p] => dpc[d] \in Created

(* Every counted reference has an owner: the creator's, the cdev's and one *)
(* for each file, and the open count told to user space counts the files.  *)
ReferencesExact ==
  \A i \in Memory :
    LET creators == {d \in Devices : own[d] = i /\ dpc[d] \in Created}
        adders == {d \in Devices : own[d] = i /\ dpc[d] \in Added}
    IN /\ cdevRefs[i] = Cardinality(adders) + Cardinality(Files(i))
       /\ devRefs[i] = Cardinality(creators) + Cardinality(Openers(i))
                         + (IF cdevRefs[i] > 0 THEN 1 ELSE 0)
       /\ live[i] /\ minor[i] # NoMinor => openCount[i] = Cardinality(Openers(i))

(* Nothing leaks: storage in use has a thread that still works on it or a  *)
(* process that has it open, and a minor is reserved exactly while it      *)
(* belongs to such an instance, to one only.                               *)
NothingLeaks ==
  /\ \A i \in Memory :
       live[i] => (\E d \in Devices : own[d] = i) \/ Files(i) # {}
  /\ minors = {minor[i] : i \in {j \in Memory : minor[j] # NoMinor}}
  /\ \A i, j \in Memory : minor[i] = minor[j] /\ minor[i] # NoMinor => i = j
  /\ \A i \in Memory : minor[i] # NoMinor => live[i]

(* Transfers run one at a time, on a transport that is set up, and none    *)
(* once remove has shut the instance down, not even on a file that stays   *)
(* open for ever (pdm_driver_claim, pdm_driver_shutdown).                  *)
TransfersExclusive ==
  \A p \in Procs :
    ppc[p] = "xfer" =>
      /\ transport[at[p]]
      /\ \A q \in Procs \ {p} : ~(ppc[q] = "xfer" /\ at[q] = at[p])
      /\ \E d \in Devices :
           own[d] = at[p] /\ dpc[d] \in {"publish", "bound", "shutdown"}

(* A binding leaves nothing behind: a transport is set up only as long as   *)
(* its instance serves, whether the probe fails or the device is removed,   *)
(* and the state of the device is REGISTERED, or ERROR if its last bind was *)
(* refused, since an ioctl that outlives the remove reports no result       *)
(* (pdm_mcu_update_state_locked under the mutex).                          *)
NothingOutlivesBinding ==
  /\ \A i \in Memory :
       transport[i] => \E d \in Devices : own[d] = i /\ ~Unbound(d)
  /\ \A d \in Devices :
       /\ dpc[d] \in {"unbound", "setup", "register"} => devState[d] = "REGISTERED"
       /\ dpc[d] = "refused" => devState[d] = "ERROR"

(* Together: whatever happens to the device, a file keeps its instance,    *)
(* nothing else does, and a binding leaves nothing behind.                 *)
FilesKeepInstance ==
  /\ OpenFilesAreSafe
  /\ ReferencesExact
  /\ NothingLeaks
  /\ NothingOutlivesBinding

(* Removing a device ends, however many processes keep using its node.     *)
RemoveEnds == \A d \in Devices : dpc[d] = "shutdown" ~> dpc[d] = "unbound"
-------------------------------------------------------------------------------
(* The diagnostic files of the MCU driver, /proc/pdm/mcu and debugfs       *)
(* (kernel/pdm/drivers/mcu/pdm_mcu_diag.c), next to the nodes.  A reader   *)
(* looks an instance up through the driver's list of devices and talks to  *)
(* it; the lookup takes no reference.  The index that selects the device   *)
(* and the text are left out.                                              *)

CONSTANT Readers   (* threads that read or write a diagnostic file         *)

(* What the constants are; assumed by the module that instantiates this one. *)
ReaderAssumption ==
  Readers \cap (Devices \cup Procs \cup Memory \cup {None}) = {}

VARIABLES
  rpc,      (* idle, found, query; lost: it went on with freed memory      *)
  target    (* the instance pdm_mcu_find_instance has returned             *)

diagVars == <<rpc, target>>
allVars == <<vars, diagVars>>

DiagInit ==
  /\ Init
  /\ rpc = [r \in Readers |-> "idle"]
  /\ target = [r \in Readers |-> None]

Advance(r, from, to) ==
  /\ rpc[r] = from
  /\ rpc' = [rpc EXCEPT ![r] = to]

(* The devices on the driver's list: from the end of probe to that of      *)
(* remove.                                                                 *)
Listed(d) ==
  dpc[d] \in {"bound", "shutdown", "cleanup", "unlock", "delete", "put"}

(* pdm_mcu_find_instance returns the drvdata of one of them. *)
Find(r) ==
  /\ Advance(r, "idle", "found")
  /\ \E d \in Devices :
       /\ Listed(d)
       /\ drvdata[d] # None
       /\ target' = [target EXCEPT ![r] = drvdata[d]]
  /\ UNCHANGED vars

(* A slip: the diagnostic does not claim the device. *)
QueryUnclaimed(r) ==
  LET i == target[r] IN
    /\ Advance(r, "found", "query")
    /\ live[i]
    /\ online[i]
    /\ UNCHANGED <<vars, target>>

(* pdm_driver_claim, then a request of the protocol. *)
Query(r) ==
  LET i == target[r] IN
    /\ Advance(r, "found", "query")
    /\ live[i]
    /\ lock[i] = None
    /\ online[i]
    /\ lock' = [lock EXCEPT ![i] = r]
    /\ UNCHANGED <<bindVars, devState, online, transport, memVars, refVars, procVars, target>>

(* pdm_driver_claim fails: the device is printed as busy. *)
Busy(r) ==
  LET i == target[r] IN
    /\ Advance(r, "found", "idle")
    /\ live[i]
    /\ lock[i] = None
    /\ ~online[i]
    /\ target' = [target EXCEPT ![r] = None]
    /\ UNCHANGED vars

(* The result goes to the text only, not to the state of the device. *)
Answer(r) ==
  LET i == target[r] IN
    /\ Advance(r, "query", "idle")
    /\ lock' = [lock EXCEPT ![i] = IF @ = r THEN None ELSE @]
    /\ target' = [target EXCEPT ![r] = None]
    /\ UNCHANGED <<bindVars, devState, online, transport, memVars, refVars, procVars>>

Reader(r) == Find(r) \/ Query(r) \/ Busy(r) \/ Answer(r)

(* A step of the drivers and the processes.  When it frees an instance a   *)
(* reader is about to claim, nothing is known of what the reader does.     *)
InstanceStep ==
  /\ Next
  /\ rpc' = [r \in Readers |->
       IF rpc[r] = "found" /\ ~live'[target[r]] THEN "lost" ELSE rpc[r]]
  /\ UNCHANGED target

DiagNext ==
  \/ InstanceStep
  \/ \E r \in Readers : Reader(r)

DiagSpec == DiagInit /\ [][DiagNext]_allVars

(* As of the nodes alone; and a query of a diagnostic file ends too.       *)
DiagFairness == Fairness /\ \A r \in Readers : WF_allVars(Answer(r))

FairDiagSpec == DiagSpec /\ DiagFairness
-------------------------------------------------------------------------------
(* A diagnostic request never runs along with an ioctl, with another one   *)
(* or after the shutdown of its instance: both sides use the one mutex of  *)
(* the instance (pdm_driver_claim in pdm_mcu_proc_show and _write).        *)
QueriesExclusive ==
  \A r \in Readers :
    rpc[r] = "query" =>
      /\ live[target[r]] /\ transport[target[r]]
      /\ \A p \in Procs : ~(ppc[p] = "xfer" /\ at[p] = target[r])
      /\ \A s \in Readers \ {r} : ~(rpc[s] = "query" /\ target[s] = target[r])
      /\ \E d \in Devices :
           own[d] = target[r] /\ dpc[d] \in {"publish", "bound", "shutdown"}

(* Whoever asks an instance for something asks alone, an ioctl or a        *)
(* diagnostic file, and only while it is served.                           *)
RequestsExclusive == TransfersExclusive /\ QueriesExclusive

(* pdm_driver.h: pdm_driver_claim returns -ENODEV if the device is         *)
(* offline.  Then an instance that is about to be claimed still exists,    *)
(* offline or not.  One that pdm_mcu_find_instance has returned may be     *)
(* freed by a remove before the claim.                                     *)
FoundInstanceExists ==
  \A r \in Readers : rpc[r] # "lost"
===============================================================================
