------------------------------ MODULE PdiClient ------------------------------
(***************************************************************************)
(* The clients of user/pdi: contexts on an MCU or an LED, opened by the path *)
(* of a node or by the name of a device.  An open by name asks the control   *)
(* node for the number of the device, closes the control node and opens the  *)
(* node of that number, while devices are bound and unbound.  The file        *)
(* descriptors are those of the one process: the lowest free one is used.     *)
(* Each context belongs to a thread of its own, which opens it only when it   *)
(* is not open.                                                              *)
(***************************************************************************)
EXTENDS Integers, FiniteSets

CONSTANTS
  Devices, TypeOf,     (* the devices and the type of each                   *)
  Ids,                 (* numbers of a type, 0 among them: the default node   *)
  Contexts, KindOf,    (* the contexts and the type of node each is for       *)
  Fds,                 (* descriptors the process may have                    *)
  Control, None

PdiAssumption ==
  /\ TypeOf \in [Devices -> {"MCU", "LED"}] /\ KindOf \in [Contexts -> {"MCU", "LED"}]
  /\ 0 \in Ids /\ Ids \subseteq Nat /\ Fds \subseteq Nat /\ IsFiniteSet(Fds)
  /\ Control \notin Devices /\ None \notin Devices \cup {Control}

VARIABLES
  index,       (* the number of each device, while it has one                 *)
  nodes,       (* the devices whose node exists                               *)
  files,       (* what each descriptor of the process is open on              *)
  fd,          (* ctx->fd                                                     *)
  ctlFd,       (* the fd of the control context of a call                     *)
  callPc,      (* where the thread of a context is                            *)
  wanted,      (* the device named, or whose default node is opened           *)
  info,        (* the device whose type and number the manager has reported   *)
  path,        (* the number in the path that is opened                       *)
  calm         (* history: the device named has kept its node since the call  *)

deviceVars == <<index, nodes>>
callVars == <<wanted, info, path>>
pdiVars == <<deviceVars, files, fd, ctlFd, callPc, callVars, calm>>

Init ==
  /\ index = [d \in Devices |-> -1]
  /\ nodes = {}
  /\ files = [f \in Fds |-> None]
  /\ fd = [c \in Contexts |-> -1]
  /\ ctlFd = [c \in Contexts |-> -1]
  /\ callPc = [c \in Contexts |-> "idle"]
  /\ wanted = [c \in Contexts |-> None]
  /\ info = [c \in Contexts |-> None]
  /\ path = [c \in Contexts |-> -1]
  /\ calm = [c \in Contexts |-> FALSE]

-----------------------------------------------------------------------------
(* The devices, as pdm_bus_probe and pdm_bus_remove make them seen: a number   *)
(* is visible before the node of that number exists, and the node is gone     *)
(* before the number is.                                                     *)
Disturb(d) == calm' = [c \in Contexts |-> calm[c] /\ wanted[c] # d]

Numbered(d) ==
  /\ index[d] = -1
  /\ \E i \in Ids :
       /\ \A e \in Devices : TypeOf[e] = TypeOf[d] => index[e] # i
       /\ index' = [index EXCEPT ![d] = i]
  /\ UNCHANGED <<nodes, files, fd, ctlFd, callPc, callVars, calm>>

NodeMade(d) ==
  /\ index[d] # -1 /\ d \notin nodes
  /\ nodes' = nodes \cup {d}
  /\ UNCHANGED <<index, files, fd, ctlFd, callPc, callVars, calm>>

NodeGone(d) ==
  /\ d \in nodes
  /\ nodes' = nodes \ {d}
  /\ Disturb(d)
  /\ UNCHANGED <<index, files, fd, ctlFd, callPc, callVars>>

Unnumbered(d) ==
  /\ index[d] # -1 /\ d \notin nodes
  /\ index' = [index EXCEPT ![d] = -1]
  /\ UNCHANGED <<nodes, files, fd, ctlFd, callPc, callVars, calm>>

-----------------------------------------------------------------------------
Free == {f \in Fds : files[f] = None}
Lowest(S) == CHOOSE f \in S : \A g \in S : f <= g
NodeOf(kind, i) == {d \in nodes : TypeOf[d] = kind /\ index[d] = i}

Step(c, from, to) == callPc[c] = from /\ callPc' = [callPc EXCEPT ![c] = to]

Named(c, d) ==
  /\ wanted' = [wanted EXCEPT ![c] = d]
  /\ calm' = [calm EXCEPT ![c] = d \in nodes]

(* pdi_mcu_open_by_name, pdi_led_open_by_name: the context has no file, and   *)
(* the control node is opened, if a descriptor is free.                      *)
OpenByName(c) ==
  /\ fd[c] = -1 /\ Step(c, "idle", "query")
  /\ Free # {}
  /\ \E d \in Devices : Named(c, d)
  /\ files' = [files EXCEPT ![Lowest(Free)] = Control]
  /\ ctlFd' = [ctlFd EXCEPT ![c] = Lowest(Free)]
  /\ UNCHANGED <<deviceVars, fd, info, path>>

OpenByNameFails(c) ==
  /\ fd[c] = -1 /\ Step(c, "idle", "EMFILE")
  /\ Free = {}
  /\ \E d \in Devices : Named(c, d)
  /\ UNCHANGED <<deviceVars, files, fd, ctlFd, info, path>>

(* pdi_get_device_by_name: the manager reports the type and the number of the  *)
(* device, or that it does not know the name.                                *)
GetDeviceByName(c) ==
  /\ Step(c, "query", "close")
  /\ info' = [info EXCEPT ![c] = IF index[wanted[c]] = -1 THEN None ELSE wanted[c]]
  /\ path' = [path EXCEPT ![c] = index[wanted[c]]]
  /\ UNCHANGED <<deviceVars, files, fd, ctlFd, wanted, calm>>

(* A slip: the control node is closed only after a device was found.         *)
CtlCloseLate(c) ==
  /\ \/ Step(c, "close", "ENODEV") /\ info[c] = None /\ UNCHANGED files
     \/ Step(c, "close", "node")   /\ info[c] # None
                                   /\ files' = [files EXCEPT ![ctlFd[c]] = None]
  /\ ctlFd' = [ctlFd EXCEPT ![c] = -1]
  /\ UNCHANGED <<deviceVars, fd, callVars, calm>>

(* pdi_ctl_close; then a name that is unknown or of another type fails.       *)
CtlClose(c) ==
  /\ LET found == info[c] # None /\ TypeOf[wanted[c]] = KindOf[c]
     IN Step(c, "close", IF found THEN "node" ELSE "ENODEV")
  /\ files' = [files EXCEPT ![ctlFd[c]] = None]
  /\ ctlFd' = [ctlFd EXCEPT ![c] = -1]
  /\ UNCHANGED <<deviceVars, fd, callVars, calm>>

(* pdi_mcu_open, pdi_led_open without a path: the node of number 0.          *)
OpenDefault(c) ==
  /\ fd[c] = -1 /\ Step(c, "idle", "node")
  /\ path' = [path EXCEPT ![c] = 0]
  /\ UNCHANGED <<deviceVars, files, fd, ctlFd, wanted, info, calm>>

(* The open of the path itself: on whatever device has the number by now.     *)
OpenNode(c) ==
  /\ Step(c, "node", "opened")
  /\ Free # {}
  /\ \E d \in NodeOf(KindOf[c], path[c]) : files' = [files EXCEPT ![Lowest(Free)] = d]
  /\ fd' = [fd EXCEPT ![c] = Lowest(Free)]
  /\ UNCHANGED <<deviceVars, ctlFd, callVars, calm>>

OpenNodeFails(c) ==
  /\ \/ Free = {} /\ Step(c, "node", "EMFILE")
     \/ NodeOf(KindOf[c], path[c]) = {} /\ Step(c, "node", "ENOENT")
  /\ UNCHANGED <<deviceVars, files, fd, ctlFd, callVars, calm>>

Results == {"opened", "EMFILE", "ENODEV", "ENOENT"}

Return(c) ==
  /\ callPc[c] \in Results
  /\ callPc' = [callPc EXCEPT ![c] = "idle"]
  /\ wanted' = [wanted EXCEPT ![c] = None]
  /\ info' = [info EXCEPT ![c] = None]
  /\ path' = [path EXCEPT ![c] = -1]
  /\ calm' = [calm EXCEPT ![c] = FALSE]
  /\ UNCHANGED <<deviceVars, files, fd, ctlFd>>

(* A slip: the context keeps the number of the descriptor it has closed.      *)
CloseKeepsNumber(c) ==
  /\ callPc[c] = "idle" /\ fd[c] # -1
  /\ files' = [files EXCEPT ![fd[c]] = None]
  /\ UNCHANGED <<deviceVars, fd, ctlFd, callPc, callVars, calm>>

(* pdi_mcu_close, pdi_led_close: of an open context, any number of times.     *)
Close(c) ==
  /\ callPc[c] = "idle" /\ fd[c] # -1
  /\ files' = [files EXCEPT ![fd[c]] = None]
  /\ fd' = [fd EXCEPT ![c] = -1]
  /\ UNCHANGED <<deviceVars, ctlFd, callPc, callVars, calm>>

Call(c) ==
  \/ OpenByName(c) \/ OpenByNameFails(c) \/ GetDeviceByName(c) \/ CtlClose(c)
  \/ OpenDefault(c) \/ OpenNode(c) \/ OpenNodeFails(c) \/ Return(c) \/ Close(c)

DeviceStep(d) == Numbered(d) \/ NodeMade(d) \/ NodeGone(d) \/ Unnumbered(d)

Next == (\E d \in Devices : DeviceStep(d)) \/ (\E c \in Contexts : Call(c))

Spec == Init /\ [][Next]_pdiVars
-----------------------------------------------------------------------------
TypeOK ==
  /\ index \in [Devices -> Ids \cup {-1}] /\ nodes \subseteq Devices
  /\ files \in [Fds -> Devices \cup {Control, None}]
  /\ fd \in [Contexts -> Fds \cup {-1}] /\ ctlFd \in [Contexts -> Fds \cup {-1}]
  /\ callPc \in [Contexts -> {"idle", "query", "close", "node"} \cup Results]
  /\ wanted \in [Contexts -> Devices \cup {None}]
  /\ info \in [Contexts -> Devices \cup {None}]
  /\ path \in [Contexts -> Ids \cup {-1}] /\ calm \in [Contexts -> BOOLEAN]

(* Each descriptor of the process that is open belongs to one context, or to   *)
(* one call that is not over: no early return of an open by name leaks the     *)
(* control node, and no close of one context closes the file of another.      *)
DescriptorsExact ==
  /\ \A f \in Fds :
       Cardinality({c \in Contexts : fd[c] = f}) + Cardinality({c \in Contexts : ctlFd[c] = f})
         = IF files[f] = None THEN 0 ELSE 1
  /\ \A c \in Contexts :
       /\ fd[c] # -1 => TypeOf[files[fd[c]]] = KindOf[c]
       /\ ctlFd[c] # -1 => files[ctlFd[c]] = Control

(* As long as the device named keeps its node, an open by name ends on that    *)
(* device, and fails only for want of a descriptor or for the wrong type.     *)
CalmOpenIsRight ==
  \A c \in Contexts :
    calm[c] =>
      /\ callPc[c] = "opened" => files[fd[c]] = wanted[c]
      /\ callPc[c] # "ENOENT"
      /\ callPc[c] = "ENODEV" => TypeOf[wanted[c]] # KindOf[c]

(* user/pdi/README.md: an open by name opens the matching instance node.       *)
(* Another device may have its number by the time the node is opened.        *)
OpensNamedDevice ==
  \A c \in Contexts :
    callPc[c] = "opened" /\ wanted[c] # None => files[fd[c]] = wanted[c]
=============================================================================
