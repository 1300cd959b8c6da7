------------------------------ MODULE OsalMutex ------------------------------
(***************************************************************************)
(* The mutex of the kernel OSAL (kernel/osal/src/ipc/osal_mutex.c): a Linux   *)
(* mutex and, since Linux has no lock with a time limit, a loop that tries,   *)
(* looks at the clock and sleeps for a tick.  The clock is a word that wraps. *)
(* A mutex has the type its attributes ask for only on paper: osal_mutex_init *)
(* does not look at them.                                                     *)
(***************************************************************************)
EXTENDS Integers, FiniteSets

CONSTANTS
    Threads,
    Timeouts,   (* milliseconds asked for                                     *)
    Tick,       (* milliseconds of a tick                                     *)
    Word,       (* ticks until the clock wraps: 2^32 or 2^64                  *)
    Slack,      (* ticks by which a thread that can run may be late           *)
    Relocks,    (* does a thread lock a recursive mutex again that it has      *)
    None

MutexAssumption ==
    /\ None \notin Threads
    /\ Timeouts \subseteq Nat /\ Tick \in Nat \ {0}
    /\ Word \in Nat \ {0} /\ Slack \in Nat \ {0} /\ Relocks \in BOOLEAN
    /\ \A ms \in Timeouts : 2 * ((ms \div Tick) + 1 + Slack) < Word

VARIABLES
    type,       (* the type given with the attributes                         *)
    holder,     (* of the Linux mutex                                         *)
    jiffies,
    mutexPc,    (* "out", "lock", "try", "look", "asleep", "in"               *)
    limit,      (* osal_mutex_timed_lock: timeout                             *)
    left        (* history: ticks the call still has to wait                  *)

mutexVars == <<type, holder, jiffies, mutexPc, limit, left>>

Goto(t, place) == mutexPc' = [mutexPc EXCEPT ![t] = place]

(* osal_mutex_attr_set_type takes these two and no other.                    *)
Types == {"normal", "recursive"}

(* osal_mutex_init, at any time of the clock.                                *)
Init ==
    /\ type \in Types
    /\ holder = None
    /\ jiffies \in 0 .. Word - 1
    /\ mutexPc = [t \in Threads |-> "out"]
    /\ limit = [t \in Threads |-> 0]
    /\ left = [t \in Threads |-> 0]

(* osal_mutex_lock is called ...                                             *)
Lock(t) ==
    /\ mutexPc[t] = "out" \/ (Relocks /\ mutexPc[t] = "in" /\ type = "recursive")
    /\ Goto(t, "lock")
    /\ UNCHANGED <<type, holder, jiffies, limit, left>>

(* ... and returns: mutex_lock.                                              *)
Locked(t) ==
    /\ mutexPc[t] = "lock" /\ holder = None
    /\ holder' = t
    /\ Goto(t, "in")
    /\ UNCHANGED <<type, jiffies, limit, left>>

(* osal_mutex_try_lock; one that is refused changes nothing.                   *)
TryLock(t) ==
    /\ mutexPc[t] = "out"
    /\ holder = None
    /\ holder' = t
    /\ Goto(t, "in")
    /\ UNCHANGED <<type, jiffies, limit, left>>

(* msecs_to_jiffies rounds up.                                               *)
Ticks(ms) == (ms + Tick - 1) \div Tick

(* osal_mutex_timed_lock: the time it gives up at.                           *)
TimedLock(t) ==
    /\ mutexPc[t] = "out"
    /\ \E ms \in Timeouts :
          /\ limit' = [limit EXCEPT ![t] = (jiffies + Ticks(ms)) % Word]
          /\ left' = [left EXCEPT ![t] = Ticks(ms)]
    /\ Goto(t, "try")
    /\ UNCHANGED <<type, holder, jiffies>>

(* The call is over: what it kept is gone.                                   *)
Leave(t, place) ==
    /\ Goto(t, place)
    /\ limit' = [limit EXCEPT ![t] = 0]
    /\ left' = [left EXCEPT ![t] = 0]

TimedTry(t) ==
    /\ mutexPc[t] = "try"
    /\ IF holder = None
       THEN holder' = t /\ Leave(t, "in")
       ELSE Goto(t, "look") /\ UNCHANGED <<holder, limit, left>>
    /\ UNCHANGED <<type, jiffies>>

(* time_after_eq: a difference of less than half the clock is one.            *)
AfterEq(a, b) == 2 * ((a - b) % Word) < Word

(* A slip: the two times are compared as they are.                           *)
TimedLookPlain(t) ==
    /\ mutexPc[t] = "look"
    /\ IF jiffies >= limit[t]
       THEN Leave(t, "out")
       ELSE Goto(t, "asleep") /\ UNCHANGED <<limit, left>>
    /\ UNCHANGED <<type, holder, jiffies>>

(* It gives up, or sleeps until the next tick.                               *)
TimedLook(t) ==
    /\ mutexPc[t] = "look"
    /\ IF AfterEq(jiffies, limit[t])
       THEN Leave(t, "out")
       ELSE Goto(t, "asleep") /\ UNCHANGED <<limit, left>>
    /\ UNCHANGED <<type, holder, jiffies>>

Unlock(t) ==
    /\ mutexPc[t] = "in"
    /\ holder' = None
    /\ Goto(t, "out")
    /\ UNCHANGED <<type, jiffies, limit, left>>

Timed(t) == mutexPc[t] \in {"try", "look", "asleep"}

(* The clock goes on, unless a thread would be later than Slack allows.       *)
Clock ==
    /\ \A t \in Threads : Timed(t) => left[t] + Slack > 0
    /\ jiffies' = (jiffies + 1) % Word
    /\ left' = [t \in Threads |-> IF Timed(t) THEN left[t] - 1 ELSE left[t]]
    /\ mutexPc' = [t \in Threads |->
                     IF mutexPc[t] = "asleep" THEN "try" ELSE mutexPc[t]]
    /\ UNCHANGED <<type, holder, limit>>

Call(t) == Lock(t) \/ TryLock(t) \/ TimedLock(t) \/ Unlock(t)
Step(t) == Locked(t) \/ TimedTry(t) \/ TimedLook(t)

Next == (\E t \in Threads : Call(t) \/ Step(t)) \/ Clock

Spec == Init /\ [][Next]_mutexVars

(* The clock runs, and a thread that can run does.                           *)
Fairness == WF_mutexVars(Clock) /\ \A t \in Threads : WF_mutexVars(Step(t))
-----------------------------------------------------------------------------
TypeOK ==
    /\ type \in Types /\ holder \in Threads \union {None}
    /\ jiffies \in 0 .. Word - 1 /\ limit \in [Threads -> 0 .. Word - 1]
    /\ mutexPc \in [Threads -> {"out", "lock", "try", "look", "asleep", "in"}]
    /\ left \in [Threads -> Int]

(* osal_mutex_timed_lock gives up only when all the ticks it was told to wait  *)
(* have passed, wherever the clock stood when it began, and the mutex is not    *)
(* its own then.                                                             *)
TimeoutsAreLate ==
    [][ \A t \in Threads : mutexPc[t] = "look" /\ mutexPc'[t] = "out" =>
            left[t] <= 0 /\ holder # t ]_mutexVars

(* osal_mutex_timed_lock returns, also when the mutex is never unlocked.       *)
TimedLockEnds == \A t \in Threads : Timed(t) ~> ~Timed(t)

(* A thread that has a mutex of the type it asked for is not stuck on it.      *)
OwnerIsNotStuck == \A t \in Threads : ~(holder = t /\ mutexPc[t] = "lock")
=============================================================================
