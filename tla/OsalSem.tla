------------------------------- MODULE OsalSem -------------------------------
(***************************************************************************)
(* The counting semaphore of the kernel OSAL (kernel/osal/src/ipc/          *)
(* osal_semaphore.c): a Linux semaphore, and next to it an atomic counter   *)
(* that osal_sem_get_value reads.  The two are updated one after the other. *)
(***************************************************************************)
EXTENDS Integers, FiniteSets

CONSTANTS
    Procs,
    Start,      \* the value given to osal_sem_init
    MaxCount    \* bound of both counters

(* What the constants are; assumed by the module that instantiates this one. *)
SemAssumption == Start \in 0 .. MaxCount /\ MaxCount \in Nat

VARIABLES
    count,      \* sem->sem: units of the Linux semaphore
    value,      \* sem->value
    pc          \* "idle", "took" (down, value not yet decremented),
                \* "posted" (up, value not yet incremented)

vars == <<count, value, pc>>

(* osal_sem_init.                                                           *)
Init ==
    /\ count = Start
    /\ value = Start
    /\ pc = [p \in Procs |-> "idle"]

(* down_interruptible, down_trylock and down_timeout take a unit when there  *)
(* is one; interrupted, refused and timed out calls change nothing.         *)
Down(p) ==
    /\ pc[p] = "idle"
    /\ count > 0
    /\ count' = count - 1
    /\ pc' = [pc EXCEPT ![p] = "took"]
    /\ UNCHANGED value

(* osal_sem_value_dec: atomic_dec_if_positive.                              *)
CountDown(p) ==
    /\ pc[p] = "took"
    /\ value' = IF value > 0 THEN value - 1 ELSE value
    /\ pc' = [pc EXCEPT ![p] = "idle"]
    /\ UNCHANGED count

(* osal_sem_post: up, then atomic_inc.  The bound leaves room for every post *)
(* that is not counted yet.                                                 *)
Up(p) ==
    /\ pc[p] = "idle"
    /\ count < MaxCount
    /\ value + Cardinality({q \in Procs : pc[q] = "posted"}) < MaxCount
    /\ count' = count + 1
    /\ pc' = [pc EXCEPT ![p] = "posted"]
    /\ UNCHANGED value

(* A faulty CountUp, for a semaphore that is thought to be binary.           *)
CountUpBinary(p) ==
    /\ pc[p] = "posted"
    /\ value' = 1
    /\ pc' = [pc EXCEPT ![p] = "idle"]
    /\ UNCHANGED count

CountUp(p) ==
    /\ pc[p] = "posted"
    /\ value' = value + 1
    /\ pc' = [pc EXCEPT ![p] = "idle"]
    /\ UNCHANGED count

Next == \E p \in Procs : Down(p) \/ CountDown(p) \/ Up(p) \/ CountUp(p)

Spec == Init /\ [][Next]_vars

-----------------------------------------------------------------------------
At(place) == {p \in Procs : pc[p] = place}

(* Both counters stay within their bounds: value is never negative, however *)
(* late the decrement of a taken unit comes.                                *)
TypeOK ==
    /\ count \in 0 .. MaxCount
    /\ value \in 0 .. MaxCount
    /\ pc \in [Procs -> {"idle", "took", "posted"}]

(* osal_sem_get_value never reports fewer units than there are, but for the  *)
(* posts that are being counted.                                            *)
NeverUnderreports ==
    count + Cardinality(At("took")) <= value + Cardinality(At("posted"))

(* When no call is in progress the value is the number of units.            *)
QuietValueIsExact == (\A p \in Procs : pc[p] = "idle") => value = count
=============================================================================
