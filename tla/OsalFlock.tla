------------------------------ MODULE OsalFlock ------------------------------
(***************************************************************************)
(* File locks of the user OSAL (user/osal/src/lib/osal_flock.c).  The lock    *)
(* itself is the kernel's: one per process and file, dropped when the process *)
(* closes the file or dies.  Next to it osal_flock_t keeps a flag and a type.  *)
(* The blocking lock sleeps in the kernel, which refuses a wait that would     *)
(* close a circle; the timed lock polls against the monotonic clock.          *)
(***************************************************************************)
EXTENDS Integers, FiniteSets

CONSTANTS
  Procs,         (* processes, each with one osal_flock_t on the one file      *)
  Timeouts,      (* timeout_ms of timed locks                                  *)
  NsPerMs, MsPerSec,
  MaxTime        (* bound of the clock, in nanoseconds                         *)

FlockAssumption ==
  /\ IsFiniteSet(Procs)
  /\ Timeouts \subseteq Nat \ {0} /\ MaxTime \in Nat
  /\ NsPerMs \in Nat \ {0} /\ MsPerSec \in Nat \ {0}

VARIABLES
  held,          (* the kernel's lock of each process                          *)
  isLocked,      (* flock->is_locked                                           *)
  currentType,   (* flock->current_type                                        *)
  flockPc,       (* "none": no object; "idle", or the call the process is in    *)
  wish,          (* the type a call asks for                                   *)
  timeout, start,(* of a timed lock                                            *)
  clock          (* CLOCK_MONOTONIC                                            *)

lockVars == <<held, isLocked, currentType>>
timedVars == <<timeout, start>>
flockVars == <<lockVars, flockPc, wish, timedVars, clock>>

Types == {"shared", "exclusive"}

Init ==
  /\ held = [p \in Procs |-> "none"]
  /\ isLocked = [p \in Procs |-> FALSE]
  /\ currentType = [p \in Procs |-> "shared"]
  /\ flockPc = [p \in Procs |-> "none"]
  /\ wish = [p \in Procs |-> "shared"]
  /\ timeout = [p \in Procs |-> 0] /\ start = [p \in Procs |-> 0]
  /\ clock = 0

Step(p, from, to) == flockPc[p] = from /\ flockPc' = [flockPc EXCEPT ![p] = to]

(* What stands in the way of a lock: processes with a lock it conflicts with.  *)
Blockers(p, type) ==
  {q \in Procs \ {p} : held[q] = "exclusive" \/ (type = "exclusive" /\ held[q] # "none")}

(* fcntl grants the lock: a process that has one changes its type.            *)
Grant(p, type) ==
  /\ Blockers(p, type) = {}
  /\ held' = [held EXCEPT ![p] = type]
  /\ isLocked' = [isLocked EXCEPT ![p] = TRUE]
  /\ currentType' = [currentType EXCEPT ![p] = type]

Create(p) ==
  /\ Step(p, "none", "idle")
  /\ UNCHANGED <<lockVars, wish, timedVars, clock>>

(* A slip: the flag says it is unlocked and the lock stays.                    *)
UnlockFlagOnly(p) ==
  /\ flockPc[p] = "idle"
  /\ isLocked[p]
  /\ isLocked' = [isLocked EXCEPT ![p] = FALSE]
  /\ UNCHANGED <<held, currentType, flockPc, wish, timedVars, clock>>

(* osal_flock_unlock; of a lock that is not locked it does nothing.           *)
Unlock(p) ==
  /\ flockPc[p] = "idle"
  /\ isLocked[p]
  /\ held' = [held EXCEPT ![p] = "none"]
  /\ isLocked' = [isLocked EXCEPT ![p] = FALSE]
  /\ UNCHANGED <<currentType, flockPc, wish, timedVars, clock>>

(* osal_flock_destroy: unlocks what is locked, and the close drops the rest.  *)
Destroy(p) ==
  /\ Step(p, "idle", "none")
  /\ held' = [held EXCEPT ![p] = "none"]
  /\ isLocked' = [isLocked EXCEPT ![p] = FALSE]
  /\ currentType' = [currentType EXCEPT ![p] = "shared"]
  /\ UNCHANGED <<wish, timedVars, clock>>

(* The process dies wherever it is.                                           *)
Die(p) ==
  /\ flockPc[p] # "none"
  /\ flockPc' = [flockPc EXCEPT ![p] = "none"]
  /\ held' = [held EXCEPT ![p] = "none"]
  /\ isLocked' = [isLocked EXCEPT ![p] = FALSE]
  /\ currentType' = [currentType EXCEPT ![p] = "shared"]
  /\ wish' = [wish EXCEPT ![p] = "shared"]
  /\ timeout' = [timeout EXCEPT ![p] = 0] /\ start' = [start EXCEPT ![p] = 0]
  /\ UNCHANGED clock

(* osal_flock_try_lock: EAGAIN becomes OSAL_ERR_BUSY.                         *)
TryLock(p) ==
  /\ flockPc[p] = "idle"
  /\ \E type \in Types :
       \/ Grant(p, type)
       \/ Blockers(p, type) # {} /\ UNCHANGED lockVars
  /\ UNCHANGED <<flockPc, wish, timedVars, clock>>

(* osal_flock_lock: F_SETLKW.                                                *)
Lock(p) ==
  /\ Step(p, "idle", "wait")
  /\ \E type \in Types : wish' = [wish EXCEPT ![p] = type]
  /\ UNCHANGED <<lockVars, timedVars, clock>>

LockGranted(p) ==
  /\ Step(p, "wait", "idle")
  /\ Grant(p, wish[p])
  /\ wish' = [wish EXCEPT ![p] = "shared"]
  /\ UNCHANGED <<timedVars, clock>>

(* EDEADLK: every way out of the wait leads back to it.                        *)
Waiting(q) == flockPc[q] = "wait" /\ Blockers(q, wish[q]) # {}

LockCircle(p) ==
  /\ Step(p, "wait", "idle")
  /\ held[p] # "none"
  /\ \E q \in Blockers(p, wish[p]) : Waiting(q) /\ p \in Blockers(q, wish[q])
  /\ wish' = [wish EXCEPT ![p] = "shared"]
  /\ UNCHANGED <<lockVars, timedVars, clock>>

(* osal_flock_timed_lock with a timeout; without one it is a try.             *)
TimedLock(p) ==
  /\ Step(p, "idle", "try")
  /\ \E type \in Types : wish' = [wish EXCEPT ![p] = type]
  /\ \E ms \in Timeouts :
       /\ clock + ms * NsPerMs < MaxTime
       /\ timeout' = [timeout EXCEPT ![p] = ms]
  /\ start' = [start EXCEPT ![p] = clock]
  /\ UNCHANGED <<lockVars, clock>>

TimedOver(p) ==
  /\ Step(p, "try", "idle")
  /\ wish' = [wish EXCEPT ![p] = "shared"]
  /\ timeout' = [timeout EXCEPT ![p] = 0] /\ start' = [start EXCEPT ![p] = 0]
  /\ UNCHANGED clock

TimedGranted(p) == Grant(p, wish[p]) /\ TimedOver(p)

(* elapsed_ms: a difference of seconds and one of nanoseconds, and C divides    *)
(* the latter towards zero.                                                  *)
Toward0(n, d) == IF n >= 0 THEN n \div d ELSE -((-n) \div d)
NsPerSec == NsPerMs * MsPerSec

Elapsed(from, to) ==
  ((to \div NsPerSec) - (from \div NsPerSec)) * MsPerSec
    + Toward0((to % NsPerSec) - (from % NsPerSec), NsPerMs)

(* A slip: the try after the last sleep is left out.                          *)
TimedExpiredUntried(p) ==
  /\ flockPc[p] = "try"
  /\ Elapsed(start[p], clock) >= timeout[p]
  /\ TimedOver(p)
  /\ UNCHANGED lockVars

(* The lock was busy and the time is over, ...                               *)
TimedExpired(p) ==
  /\ flockPc[p] = "try"
  /\ Blockers(p, wish[p]) # {}
  /\ Elapsed(start[p], clock) >= timeout[p]
  /\ TimedOver(p)
  /\ UNCHANGED lockVars

(* ... or is not, and the process sleeps some time.                          *)
TimedSleeps(p) ==
  /\ Step(p, "try", "sleep")
  /\ Blockers(p, wish[p]) # {}
  /\ Elapsed(start[p], clock) < timeout[p]
  /\ UNCHANGED <<lockVars, wish, timedVars, clock>>

TimedWakes(p) ==
  /\ Step(p, "sleep", "try")
  /\ clock' = IF clock < MaxTime THEN clock + 1 ELSE clock
  /\ UNCHANGED <<lockVars, wish, timedVars>>

(* Time passes; it starts again, seconds included, when nobody measures it.    *)
Tick ==
  /\ clock < MaxTime
  /\ clock' = clock + 1
  /\ UNCHANGED <<lockVars, flockPc, wish, timedVars>>

Restart ==
  /\ clock = MaxTime
  /\ \A p \in Procs : flockPc[p] \notin {"try", "sleep"}
  /\ clock' = 0
  /\ UNCHANGED <<lockVars, flockPc, wish, timedVars>>

InTimedLock(p) ==
  TimedGranted(p) \/ TimedExpired(p) \/ TimedSleeps(p) \/ TimedWakes(p)

FlockCall(p) ==
  \/ Create(p) \/ Unlock(p) \/ Destroy(p) \/ Die(p) \/ TryLock(p)
  \/ Lock(p) \/ LockGranted(p) \/ LockCircle(p) \/ TimedLock(p) \/ InTimedLock(p)

Next == Tick \/ Restart \/ \E p \in Procs : FlockCall(p)

(* A process runs while it is in a timed lock.                                *)
Fairness == \A p \in Procs : WF_flockVars(InTimedLock(p))

Spec == Init /\ [][Next]_flockVars
-----------------------------------------------------------------------------
TypeOK ==
  /\ held \in [Procs -> Types \cup {"none"}]
  /\ isLocked \in [Procs -> BOOLEAN] /\ currentType \in [Procs -> Types]
  /\ flockPc \in [Procs -> {"none", "idle", "wait", "try", "sleep"}]
  /\ wish \in [Procs -> Types]
  /\ timeout \in [Procs -> Timeouts \cup {0}] /\ start \in [Procs -> 0 .. MaxTime]
  /\ clock \in 0 .. MaxTime

(* What the objects of the processes say is true, whatever was refused, timed   *)
(* out, changed from shared to exclusive or died: who believes to have the file *)
(* for itself has it, and no lock is left that its process does not know of.    *)
LocksAreTrue ==
  /\ \A p \in Procs :
       held[p] = IF isLocked[p] THEN currentType[p] ELSE "none"
  /\ \A p, q \in Procs :
       isLocked[p] /\ currentType[p] = "exclusive" /\ q # p => ~isLocked[q]

(* A timed lock that is given up: it leaves its loop without what it wished.    *)
GivesUp(p) ==
  /\ flockPc[p] = "try" /\ flockPc'[p] = "idle"
  /\ ~(isLocked'[p] /\ currentType'[p] = wish[p])

(* A timed lock is not given up a whole millisecond before its time, nor while  *)
(* the lock is free.                                                         *)
TimeoutsAreLate ==
  [][ \A p \in Procs : GivesUp(p) =>
        /\ clock - start[p] > (timeout[p] - 1) * NsPerMs
        /\ Blockers(p, wish[p]) # {} ]_flockVars

(* osal_flock.h: a timed lock has timeout_ms.  The division may take one off.   *)
TimeoutsAreExact ==
  [][ \A p \in Procs :
        GivesUp(p) => clock - start[p] >= timeout[p] * NsPerMs ]_flockVars

(* A timed lock ends.                                                         *)
TimedLockEnds == \A p \in Procs : flockPc[p] = "try" ~> flockPc[p] \in {"idle", "none"}
=============================================================================
