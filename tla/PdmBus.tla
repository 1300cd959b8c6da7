-------------------------------- MODULE PdmBus --------------------------------
(***************************************************************************)
(* The PDM bus (kernel/pdm/bus/pdm_bus.c, pdm_device.c): the life of a     *)
(* pdm_device, the per-type instance numbers (one ida per device type),    *)
(* binding to a driver and unbinding from it.                              *)
(*                                                                         *)
(* The driver core holds device_lock(d) across probe and remove, so each   *)
(* device has at most one such thread: pc[d] is its position.  Threads of  *)
(* different devices interleave, and so do ioctls on a device's node,      *)
(* which write the device's state under a lock of the driver only.         *)
(*                                                                         *)
(* Data left out: the error history and the error counters (PdmErrorLog),  *)
(* names and Device Tree nodes.                                            *)
(***************************************************************************)
EXTENDS Integers, FiniteSets, Sequences

CONSTANTS
  Devices,    (* storage for devices; a value is reused after its release  *)
  Types,      (* device types that have an id allocator                    *)
  TypeOf,     (* the type of the driver each device's compatible matches   *)
  Reporting,  (* types whose driver writes ioctl results to the device     *)
  Ids,        (* the numbers an ida hands out                              *)
  Requests,   (* requested ids enumerators set; -1 asks for any            *)
  Errors,     (* what a failed probe or transfer returns: negative errnos  *)
  INVALID     (* PDM_MANAGER_DEVICE_TYPE_INVALID                           *)

ASSUME BusAssumption ==
  /\ TypeOf \in [Devices -> Types]
  /\ Reporting \subseteq Types
  /\ Ids \subseteq Nat
  /\ Requests \subseteq Ids \cup {-1}
  /\ Errors \subseteq {e \in Int : e < 0}
  /\ INVALID \notin Types

NoId == -1
NoNode == <<INVALID, NoId>>
NoGrant == NoId

Instances == Types \X Ids

States == {"REGISTERED", "BOUND", "ERROR"}

VARIABLES
  bus,          (* klist of the bus: the added devices, oldest first       *)
  life,         (* storage of each device: none, allocated, added, dying   *)
  requested,    (* pdm_dev->requested_id                                   *)
  id,           (* pdm_dev->id                                             *)
  idAllocated,  (* pdm_dev->id_allocated                                   *)
  type,         (* pdm_dev->type                                           *)
  caps,         (* pdm_dev->capabilities                                   *)
  state,        (* pdm_dev->state                                          *)
  lastError,    (* pdm_dev->last_error                                     *)
  ida,          (* numbers reserved in the allocator of each type          *)
  count,        (* allocator->count of each type                           *)
  node,         (* name (type, number) of the device's /dev/pdm node       *)
  pc,           (* where the thread holding device_lock(d) is              *)
  grant         (* its local variable "id" in pdm_device_bind              *)

idVars == <<id, idAllocated, type, caps>>
errVars == <<state, lastError>>
allocVars == <<ida, count>>
lifeVars == <<bus, life, requested>>
vars == <<bus, life, requested, id, idAllocated, type, caps, state, lastError,
          ida, count, node, pc, grant>>

Labels ==
  {"unbound", "bind_count", "bind_fields", "bind_state", "bind_failed",
   "probe", "probe_failed", "bound_state", "bound_error", "bound",
   "unbind_free", "unbind_count", "unbind_clear"}

(* The thread's positions while the number it was granted is reserved.     *)
Holding ==
  {"bind_count", "bind_fields", "bind_state", "probe", "probe_failed",
   "bound_state", "bound_error", "bound", "unbind_free"}

(* The positions at which pdm_dev->id_allocated is true.                   *)
Marked ==
  {"bind_state", "probe", "probe_failed", "bound_state", "bound_error",
   "bound", "unbind_free", "unbind_count", "unbind_clear"}

(* The positions at which the driver's node exists.                        *)
Served == {"bound_state", "bound_error", "bound"}

Move(d, from, to) ==
  /\ pc[d] = from
  /\ pc' = [pc EXCEPT ![d] = to]
-------------------------------------------------------------------------------
Init ==
  /\ bus = <<>>
  /\ life = [d \in Devices |-> "none"]
  /\ requested = [d \in Devices |-> NoId]
  /\ id = [d \in Devices |-> NoId]
  /\ idAllocated = [d \in Devices |-> FALSE]
  /\ type = [d \in Devices |-> INVALID]
  /\ caps = [d \in Devices |-> {}]
  /\ state = [d \in Devices |-> "REGISTERED"]
  /\ lastError = [d \in Devices |-> 0]
  /\ ida = [t \in Types |-> {}]
  /\ count = [t \in Types |-> 0]
  /\ node = [d \in Devices |-> NoNode]
  /\ pc = [d \in Devices |-> "unbound"]
  /\ grant = [d \in Devices |-> NoGrant]

(* pdm_device_alloc, then pdm_device_set_requested_id by the enumerator.   *)
Alloc(d, req) ==
  /\ life[d] = "none"
  /\ life' = [life EXCEPT ![d] = "allocated"]
  /\ requested' = [requested EXCEPT ![d] = req]
  /\ id' = [id EXCEPT ![d] = req]
  /\ state' = [state EXCEPT ![d] = "REGISTERED"]
  /\ lastError' = [lastError EXCEPT ![d] = 0]
  /\ UNCHANGED <<bus, idAllocated, type, caps, allocVars, node, pc, grant>>

(* pdm_device_register, device_add succeeds. *)
Register(d) ==
  /\ life[d] = "allocated"
  /\ life' = [life EXCEPT ![d] = "added"]
  /\ bus' = Append(bus, d)
  /\ UNCHANGED <<requested, idVars, errVars, allocVars, node, pc, grant>>

(* pdm_device_register fails and drops the only reference. *)
RegisterFails(d) ==
  /\ life[d] = "allocated"
  /\ life' = [life EXCEPT ![d] = "none"]
  /\ UNCHANGED <<bus, requested, idVars, errVars, allocVars, node, pc, grant>>

(* pdm_device_unregister: device_del takes the device off the bus under    *)
(* the device lock; a bound driver is removed next.                        *)
Unregister(d) ==
  /\ life[d] = "added"
  /\ pc[d] \in {"unbound", "bound"}
  /\ life' = [life EXCEPT ![d] = "dying"]
  /\ \E k \in 1..Len(bus) :
       /\ bus[k] = d
       /\ bus' = SubSeq(bus, 1, k - 1) \o SubSeq(bus, k + 1, Len(bus))
  /\ UNCHANGED <<requested, idVars, errVars, allocVars, node, pc, grant>>

(* pdm_device_release, once the last reference is gone; its call of        *)
(* pdm_device_unbind returns early (UnboundIsClean).                       *)
Release(d) ==
  /\ life[d] = "dying"
  /\ pc[d] = "unbound"
  /\ life' = [life EXCEPT ![d] = "none"]
  /\ UNCHANGED <<bus, requested, idVars, errVars, allocVars, node, pc, grant>>
-------------------------------------------------------------------------------
FreeIds(t) == Ids \ ida[t]

(* Slips of pdm_id_alloc: a requested number is given out unchecked, or a  *)
(* taken one is quietly replaced by the lowest.                            *)
GrantsUnchecked(t, req) ==
  IF req >= 0
  THEN {req}
  ELSE {i \in FreeIds(t) : \A j \in FreeIds(t) : i <= j}

GrantsFallBack(t, req) ==
  IF req \in FreeIds(t)
  THEN {req}
  ELSE {i \in FreeIds(t) : \A j \in FreeIds(t) : i <= j}

(* The numbers pdm_id_alloc may return: the requested one, or the lowest.  *)
Grants(t, req) ==
  IF req >= 0
  THEN FreeIds(t) \cap {req}
  ELSE {i \in FreeIds(t) : \A j \in FreeIds(t) : i <= j}

(* pdm_bus_device_probe enters pdm_device_bind: ida_alloc succeeds. *)
BindAlloc(d) ==
  /\ life[d] = "added"
  /\ \E i \in Grants(TypeOf[d], requested[d]) :
       /\ ida' = [ida EXCEPT ![TypeOf[d]] = @ \cup {i}]
       /\ grant' = [grant EXCEPT ![d] = i]
  /\ Move(d, "unbound", "bind_count")
  /\ UNCHANGED <<lifeVars, idVars, errVars, count, node>>

(* atomic_inc(&allocator->count), after the ida has been unlocked. *)
BindCount(d) ==
  /\ Move(d, "bind_count", "bind_fields")
  /\ count' = [count EXCEPT ![TypeOf[d]] = @ + 1]
  /\ UNCHANGED <<lifeVars, idVars, errVars, ida, node, grant>>

(* id, id_allocated, type and capabilities become readable before state. *)
BindFields(d) ==
  /\ Move(d, "bind_fields", "bind_state")
  /\ id' = [id EXCEPT ![d] = grant[d]]
  /\ idAllocated' = [idAllocated EXCEPT ![d] = TRUE]
  /\ type' = [type EXCEPT ![d] = TypeOf[d]]
  /\ caps' = [caps EXCEPT ![d] = @ \cup {"driver"}]
  /\ UNCHANGED <<lifeVars, errVars, allocVars, node, grant>>

BindState(d) ==
  /\ Move(d, "bind_state", "probe")
  /\ state' = [state EXCEPT ![d] = "REGISTERED"]
  /\ UNCHANGED <<lifeVars, idVars, lastError, allocVars, node, grant>>

(* ida_alloc fails: the number is taken, none is left, or no memory. *)
BindFails(d) ==
  /\ life[d] = "added"
  /\ Move(d, "unbound", "bind_failed")
  /\ UNCHANGED <<lifeVars, idVars, errVars, allocVars, node, grant>>

(* pdm_device_record_error(pdm_dev, ret) on either error path of probe. *)
RecordError(d, e) ==
  /\ lastError' = [lastError EXCEPT ![d] = e]
  /\ state' = [state EXCEPT ![d] = "ERROR"]

BindFailed(d, e) ==
  /\ Move(d, "bind_failed", "unbound")
  /\ RecordError(d, e)
  /\ UNCHANGED <<lifeVars, idVars, allocVars, node, grant>>

NodeName(d) == <<TypeOf[d], id[d]>>

NodeTaken(name) == \E e \in Devices : node[e] = name

(* The driver's probe succeeds: its node appears and it sets drvdata. *)
ProbeOk(d) ==
  /\ ~NodeTaken(NodeName(d))
  /\ Move(d, "probe", "bound_state")
  /\ node' = [node EXCEPT ![d] = NodeName(d)]
  /\ caps' = [caps EXCEPT ![d] = @ \cup {"backend"}]
  /\ UNCHANGED <<lifeVars, id, idAllocated, type, errVars, allocVars, grant>>

(* The driver's probe fails after undoing what it had set up. *)
ProbeFails(d) ==
  /\ Move(d, "probe", "probe_failed")
  /\ UNCHANGED <<lifeVars, idVars, errVars, allocVars, node, grant>>

ProbeFailed(d, e) ==
  /\ Move(d, "probe_failed", "unbind_free")
  /\ RecordError(d, e)
  /\ UNCHANGED <<lifeVars, idVars, allocVars, node, grant>>

(* The tail of pdm_bus_device_probe: two stores, no lock of the driver. *)
BoundState(d) ==
  /\ Move(d, "bound_state", "bound_error")
  /\ state' = [state EXCEPT ![d] = "BOUND"]
  /\ UNCHANGED <<lifeVars, idVars, lastError, allocVars, node, grant>>

BoundError(d) ==
  /\ Move(d, "bound_error", "bound")
  /\ lastError' = [lastError EXCEPT ![d] = 0]
  /\ UNCHANGED <<lifeVars, idVars, state, allocVars, node, grant>>

(* A slip: the driver's remove forgets its node. *)
RemoveKeepsNode(d) ==
  /\ Move(d, "bound", "unbind_free")
  /\ UNCHANGED <<lifeVars, idVars, errVars, allocVars, node, grant>>

(* pdm_bus_device_remove: the driver's remove takes its node away first. *)
Remove(d) ==
  /\ Move(d, "bound", "unbind_free")
  /\ node' = [node EXCEPT ![d] = NoNode]
  /\ UNCHANGED <<lifeVars, idVars, errVars, allocVars, grant>>

(* A slip: the requested number is freed instead of the granted one. *)
UnbindFreesRequested(d) ==
  /\ Move(d, "unbind_free", "unbind_count")
  /\ ida' = [ida EXCEPT ![type[d]] = @ \ {requested[d]}]
  /\ UNCHANGED <<lifeVars, idVars, errVars, count, node, grant>>

(* pdm_device_unbind: the number goes back to the allocator first ...      *)
UnbindFree(d) ==
  /\ Move(d, "unbind_free", "unbind_count")
  /\ ida' = [ida EXCEPT ![type[d]] = @ \ {id[d]}]
  /\ UNCHANGED <<lifeVars, idVars, errVars, count, node, grant>>

(* A slip: the counter saturates at one. *)
UnbindCountAboveOne(d) ==
  /\ Move(d, "unbind_count", "unbind_clear")
  /\ count' = [count EXCEPT ![type[d]] = IF @ > 1 THEN @ - 1 ELSE @]
  /\ UNCHANGED <<lifeVars, idVars, errVars, ida, node, grant>>

(* ... then atomic_dec_if_positive(&allocator->count) ...                  *)
UnbindCount(d) ==
  /\ Move(d, "unbind_count", "unbind_clear")
  /\ count' = [count EXCEPT ![type[d]] = IF @ > 0 THEN @ - 1 ELSE @]
  /\ UNCHANGED <<lifeVars, idVars, errVars, ida, node, grant>>

(* A slip: the capabilities of the last binding stay. *)
UnbindClearKeepsCaps(d) ==
  /\ Move(d, "unbind_clear", "unbound")
  /\ idAllocated' = [idAllocated EXCEPT ![d] = FALSE]
  /\ id' = [id EXCEPT ![d] = requested[d]]
  /\ type' = [type EXCEPT ![d] = INVALID]
  /\ state' = [state EXCEPT ![d] = "REGISTERED"]
  /\ grant' = [grant EXCEPT ![d] = NoGrant]
  /\ UNCHANGED <<lifeVars, caps, lastError, allocVars, node>>

(* ... and only then are the device's own fields reset.                    *)
UnbindClear(d) ==
  /\ Move(d, "unbind_clear", "unbound")
  /\ idAllocated' = [idAllocated EXCEPT ![d] = FALSE]
  /\ id' = [id EXCEPT ![d] = requested[d]]
  /\ type' = [type EXCEPT ![d] = INVALID]
  /\ caps' = [caps EXCEPT ![d] = {}]
  /\ state' = [state EXCEPT ![d] = "REGISTERED"]
  /\ grant' = [grant EXCEPT ![d] = NoGrant]
  /\ UNCHANGED <<lifeVars, lastError, allocVars, node>>
-------------------------------------------------------------------------------
(* pdm_mcu_update_state_locked at the end of an ioctl on the node.         *)
IoctlFailed(d, e) ==
  /\ TypeOf[d] \in Reporting
  /\ pc[d] \in Served
  /\ RecordError(d, e)
  /\ UNCHANGED <<lifeVars, idVars, allocVars, node, pc, grant>>

IoctlDone(d) ==
  /\ TypeOf[d] \in Reporting
  /\ pc[d] \in Served
  /\ lastError' = [lastError EXCEPT ![d] = 0]
  /\ state' = [state EXCEPT ![d] = "BOUND"]
  /\ UNCHANGED <<lifeVars, idVars, allocVars, node, pc, grant>>

Bind(d) ==
  \/ BindAlloc(d) \/ BindCount(d) \/ BindFields(d) \/ BindState(d)
  \/ BindFails(d) \/ \E e \in Errors : BindFailed(d, e)

Probe(d) ==
  \/ ProbeOk(d) \/ ProbeFails(d) \/ \E e \in Errors : ProbeFailed(d, e)
  \/ BoundState(d) \/ BoundError(d)

Unbind(d) == Remove(d) \/ UnbindFree(d) \/ UnbindCount(d) \/ UnbindClear(d)

Ioctl(d) == IoctlDone(d) \/ \E e \in Errors : IoctlFailed(d, e)

Enumerate(d) ==
  \/ \E req \in Requests : Alloc(d, req)
  \/ Register(d) \/ RegisterFails(d) \/ Unregister(d) \/ Release(d)

Next == \E d \in Devices : Enumerate(d) \/ Bind(d) \/ Probe(d) \/ Unbind(d) \/ Ioctl(d)

Spec == Init /\ [][Next]_vars
-------------------------------------------------------------------------------
(* Types of the state; a device that is not on the bus is not bound.       *)
TypeOK ==
  /\ bus \in Seq(Devices)
  /\ life \in [Devices -> {"none", "allocated", "added", "dying"}]
  /\ requested \in [Devices -> Ids \cup {NoId}]
  /\ id \in [Devices -> Ids \cup {NoId}]
  /\ idAllocated \in [Devices -> BOOLEAN]
  /\ type \in [Devices -> Types \cup {INVALID}]
  /\ caps \in [Devices -> SUBSET {"driver", "backend"}]
  /\ state \in [Devices -> States]
  /\ lastError \in [Devices -> Errors \cup {0}]
  /\ ida \in [Types -> SUBSET Ids]
  /\ count \in [Types -> Nat]
  /\ node \in [Devices -> Instances \cup {NoNode}]
  /\ pc \in [Devices -> Labels]
  /\ grant \in [Devices -> Ids \cup {NoGrant}]

(* The instance device d holds: from ida_alloc to ida_free.                *)
Holds(d) ==
  IF pc[d] \in Holding THEN <<TypeOf[d], grant[d]>> ELSE NoNode

(* No two devices hold the same instance, however the binding and the      *)
(* unbinding of several devices interleave (pdm_device_bind, _unbind).     *)
UniqueInstances ==
  \A d, e \in Devices :
    d # e /\ pc[d] \in Holding /\ pc[e] \in Holding => Holds(d) # Holds(e)

(* A number is reserved in an ida exactly while a device holds it: every   *)
(* error path of probe and every remove gives it back, none gives it back  *)
(* twice or gives back the number of another device.                       *)
NoIdLeak ==
  \A t \in Types, i \in Ids :
    i \in ida[t] <=> \E d \in Devices : pc[d] \in Holding /\ Holds(d) = <<t, i>>

(* A requested number is either honoured or the probe fails; the bus never *)
(* gives the device another one (pdm_id_alloc with requested_id >= 0).     *)
RequestHonoured ==
  \A d \in Devices :
    pc[d] \in Marked /\ requested[d] # NoId => id[d] = requested[d]

(* When a driver comes to create its node, the name made from the type and *)
(* the number is free: remove takes the old node away before the number    *)
(* goes back (pdm_bus_device_remove).                                      *)
NodeNameFree ==
  \A d \in Devices : pc[d] = "probe" => ~NodeTaken(NodeName(d))

(* The counter of an allocator counts the numbers in use, up to the        *)
(* threads that are between the ida call and the atomic; its saturating    *)
(* decrement never hides a missing increment.                              *)
CountExact ==
  \A t \in Types :
    count[t] = Cardinality({d \in Devices :
                 /\ TypeOf[d] = t
                 /\ pc[d] \in (Holding \ {"bind_count"}) \cup {"unbind_count"}})

(* A device without a driver shows no trace of its last binding, so a new  *)
(* binding never takes pdm_device_bind's "already allocated" path and the  *)
(* unbind in pdm_device_release has nothing to do.                         *)
UnboundIsClean ==
  \A d \in Devices :
    pc[d] = "unbound" =>
      /\ ~idAllocated[d]
      /\ type[d] = INVALID
      /\ caps[d] = {}
      /\ id[d] = requested[d]
      /\ node[d] = NoNode

(* The manager reports a device that is on the bus and visible.            *)
Visible(d) ==
  idAllocated[d] /\ type[d] # INVALID /\ state[d] \in {"BOUND", "ERROR"}

(* pdm_device.h: id_allocated is true once the id has been reserved for    *)
(* the type.  Then two devices that both say so cannot show the manager    *)
(* the same instance.  They can: unbind frees the number before it clears  *)
(* the flag.                                                               *)
VisibleInstancesUnique ==
  \A d, e \in Devices :
    /\ d # e
    /\ life[d] = "added" /\ Visible(d)
    /\ life[e] = "added" /\ Visible(e)
    => <<type[d], id[d]>> # <<type[e], id[e]>>

(* pdm_device.h: last_error is the last probe or runtime error.  Then a    *)
(* bound device in state ERROR has one.  The tail of probe may clear the   *)
(* error of an ioctl that failed between its two stores.                   *)
ErrorStateHasError ==
  \A d \in Devices : pc[d] = "bound" /\ state[d] = "ERROR" => lastError[d] # 0

(* pdm_device.h: the last probe error is exported through /dev/pdm_ctl.    *)
(* Then a device on the bus whose probe failed is visible there.  It is    *)
(* not: the failed probe leaves it without a number or a type.             *)
ProbeErrorExported ==
  \A d \in Devices :
    life[d] = "added" /\ pc[d] = "unbound" /\ lastError[d] # 0 => Visible(d)

(* The numbering is the one PdmIdService promises. *)
IdService ==
  INSTANCE PdmIdService
    WITH Nothing <- NoNode, held <- [d \in Devices |-> Holds(d)]

IdServiceSpec == IdService!Spec
===============================================================================
