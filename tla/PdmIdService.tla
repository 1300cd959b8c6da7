----------------------------- MODULE PdmIdService -----------------------------
(***************************************************************************)
(* What the PDM bus promises about instance numbers, without saying how:   *)
(* a device holds at most one instance (a device type together with a      *)
(* number), and no two devices hold the same instance at the same time.    *)
(* PdmBus is shown to implement this module.                               *)
(***************************************************************************)
CONSTANTS
  Devices,     (* devices that may ask for an instance number              *)
  Instances,   (* pairs of a device type and a number                      *)
  Nothing      (* what a device holds when it holds no instance            *)

VARIABLE held  (* the instance each device holds                           *)

Init == held = [d \in Devices |-> Nothing]

(* A device without an instance is given one nobody holds. *)
Acquire(d, n) ==
  /\ held[d] = Nothing
  /\ \A e \in Devices : held[e] # n
  /\ held' = [held EXCEPT ![d] = n]

(* A device gives its instance back. *)
Release(d) ==
  /\ held[d] # Nothing
  /\ held' = [held EXCEPT ![d] = Nothing]

Next ==
  \E d \in Devices :
    \/ \E n \in Instances : Acquire(d, n)
    \/ Release(d)

Spec == Init /\ [][Next]_held
===============================================================================
