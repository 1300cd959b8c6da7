------------------------------- MODULE UserWait -------------------------------
(***************************************************************************)
(* The mutex, the condition and the semaphore of a user program (user/osal/    *)
(* src/ipc/osal_mutex.c, osal_cond.c, osal_semaphore.c) are those of POSIX,     *)
(* modelled by what they do.  What the code adds is the time limit: a number of  *)
(* milliseconds becomes a time of day, split in seconds and nanoseconds, that    *)
(* POSIX waits for.  The time of day can be set while a thread waits.          *)
(***************************************************************************)
EXTENDS Integers, FiniteSets

CONSTANTS
    Threads,
    Timeouts,       (* milliseconds asked for                                 *)
    MsPerSec,       (* 1000                                                   *)
    NsPerMs,        (* 1000000                                                *)
    MaxTime,        (* bound: nanoseconds a run lasts                          *)
    Settings,       (* by how much the time of day is set, once                *)
    MaxUnits,       (* bound: of the semaphore                                *)
    None

WaitAssumption ==
    /\ None \notin Threads /\ Timeouts \subseteq Nat
    /\ {MsPerSec, NsPerMs, MaxTime, MaxUnits} \subseteq Nat \ {0}
    /\ Settings \subseteq Int

VARIABLES
    now,            (* nanoseconds since the run began                         *)
    set,            (* by how much the time of day has been set                *)
    owner,          (* of the mutex                                           *)
    units,          (* of the semaphore                                       *)
    waitPc,         (* "out", "in" (has the mutex); "lock", "cond", "relock",    *)
                    (* "sem": waits, for the mutex, for a signal, ...            *)
    ts,             (* the time of day a wait ends, or None                    *)
    due,            (* history: when it should                                *)
    said            (* what the wait returned                                 *)

waitVars == <<now, set, owner, units, waitPc, ts, due, said>>

NsPerSec == MsPerSec * NsPerMs

Init ==
    /\ now = 0 /\ set = 0 /\ owner = None /\ units \in 0 .. 1
    /\ waitPc = [t \in Threads |-> "out"]
    /\ ts = [t \in Threads |-> None]
    /\ due = [t \in Threads |-> 0]
    /\ said = [t \in Threads |-> "none"]

(* CLOCK_REALTIME.                                                           *)
TimeOfDay == [sec |-> (now + set) \div NsPerSec, nsec |-> (now + set) % NsPerSec]

Goto(t, place) == waitPc' = [waitPc EXCEPT ![t] = place]

Says(t, what) == said' = [said EXCEPT ![t] = what]

(* A slip: a second too many nanoseconds stay nanoseconds.                    *)
DeadlineNoCarry(ms) ==
    [sec |-> TimeOfDay.sec + ms \div MsPerSec,
     nsec |-> TimeOfDay.nsec + (ms % MsPerSec) * NsPerMs]

(* What the three functions add up: ts.                                      *)
Deadline(ms) ==
    LET nsec == TimeOfDay.nsec + (ms % MsPerSec) * NsPerMs
        carry == IF nsec >= NsPerSec THEN 1 ELSE 0
    IN [sec |-> TimeOfDay.sec + ms \div MsPerSec + carry,
        nsec |-> nsec - carry * NsPerSec]

Limits(t, ms) ==
    /\ ts' = [ts EXCEPT ![t] = Deadline(ms)]
    /\ due' = [due EXCEPT ![t] = now + ms * NsPerMs]

NoLimit(t) == ts' = [ts EXCEPT ![t] = None] /\ due' = [due EXCEPT ![t] = 0]

(* POSIX refuses a time with a second of nanoseconds, and one is over when the   *)
(* time of day has come.                                                     *)
IsOver(d) ==
    \/ TimeOfDay.sec > d.sec
    \/ TimeOfDay.sec = d.sec /\ TimeOfDay.nsec >= d.nsec
Refused(t) == ts[t] # None /\ ts[t].nsec >= NsPerSec
Expired(t) == ts[t] # None /\ IsOver(ts[t])

-----------------------------------------------------------------------------
(* osal_mutex_lock and osal_mutex_timed_lock.                                *)
Lock(t) ==
    /\ waitPc[t] = "out"
    /\ Goto(t, "lock")
    /\ \/ NoLimit(t)
       \/ \E ms \in Timeouts : Limits(t, ms)
    /\ UNCHANGED <<now, set, owner, units, said>>

(* osal_mutex_try_lock; one that is refused changes nothing.                   *)
TryLock(t) ==
    /\ waitPc[t] = "out" /\ owner = None
    /\ owner' = t
    /\ Goto(t, "in") /\ Says(t, "success")
    /\ UNCHANGED <<now, set, units, ts, due>>

(* The mutex is free.                                                        *)
Acquire(t) ==
    /\ waitPc[t] = "lock" /\ owner = None /\ ~Refused(t)
    /\ owner' = t
    /\ Goto(t, "in") /\ Says(t, "success") /\ NoLimit(t)
    /\ UNCHANGED <<now, set, units>>

Unlock(t) ==
    /\ waitPc[t] = "in"
    /\ owner' = None
    /\ Goto(t, "out")
    /\ UNCHANGED <<now, set, units, ts, due, said>>

(* osal_cond_wait and osal_cond_timed_wait: the mutex is given up.            *)
CondWait(t) ==
    /\ waitPc[t] = "in"
    /\ owner' = None
    /\ Goto(t, "cond")
    /\ \/ NoLimit(t)
       \/ \E ms \in Timeouts : Limits(t, ms)
    /\ UNCHANGED <<now, set, units, said>>

(* osal_cond_signal wakes one, osal_cond_broadcast all.                       *)
Wakes(woken) ==
    /\ waitPc' = [u \in Threads |-> IF u \in woken THEN "relock" ELSE waitPc[u]]
    /\ said' = [u \in Threads |-> IF u \in woken THEN "success" ELSE said[u]]

Signal(t) ==
    LET asleep == {u \in Threads : waitPc[u] = "cond"} IN
    /\ waitPc[t] = "in" /\ asleep # {}
    /\ Wakes(asleep) \/ \E u \in asleep : Wakes({u})
    /\ UNCHANGED <<now, set, owner, units, ts, due>>

(* A wait for a condition ends with the mutex, however it ends.                *)
CondEnds(t) ==
    /\ waitPc[t] = "relock" /\ owner = None
    /\ owner' = t
    /\ Goto(t, "in") /\ NoLimit(t)
    /\ UNCHANGED <<now, set, units, said>>

(* osal_sem_wait, and osal_sem_timed_wait, for which no time is a trywait.      *)
SemWait(t) ==
    /\ waitPc[t] = "out"
    /\ \/ Goto(t, "sem") /\ NoLimit(t)
       \/ \E ms \in Timeouts \ {0} : Goto(t, "sem") /\ Limits(t, ms)
    /\ UNCHANGED <<now, set, owner, units, said>>

(* osal_sem_try_wait.                                                        *)
SemTryWait(t) ==
    /\ waitPc[t] = "out"
    /\ IF units > 0 THEN units' = units - 1 /\ Says(t, "success")
       ELSE UNCHANGED units /\ Says(t, "again")
    /\ UNCHANGED <<now, set, owner, waitPc, ts, due>>

SemTake(t) ==
    /\ waitPc[t] = "sem" /\ units > 0 /\ ~Refused(t)
    /\ units' = units - 1
    /\ Goto(t, "out") /\ Says(t, "success") /\ NoLimit(t)
    /\ UNCHANGED <<now, set, owner>>

SemPost(t) ==
    /\ waitPc[t] \in {"out", "in"} /\ units < MaxUnits
    /\ units' = units + 1
    /\ UNCHANGED <<now, set, owner, waitPc, ts, due, said>>

(* ETIMEDOUT: a mutex or a semaphore that is there at that time is taken.       *)
Expire(t) ==
    /\ waitPc[t] \in {"lock", "cond", "sem"} /\ Expired(t)
    /\ waitPc[t] = "lock" => owner # None
    /\ waitPc[t] = "sem" => units = 0
    /\ Goto(t, IF waitPc[t] = "cond" THEN "relock" ELSE "out")
    /\ Says(t, "timeout") /\ NoLimit(t)
    /\ UNCHANGED <<now, set, owner, units>>

-----------------------------------------------------------------------------
Clock ==
    /\ now < MaxTime
    /\ now' = now + 1
    /\ UNCHANGED <<set, owner, units, waitPc, ts, due, said>>

(* Somebody sets the time of day.                                            *)
SetTime ==
    /\ set = 0 /\ set' \in Settings
    /\ UNCHANGED <<now, owner, units, waitPc, ts, due, said>>

Call(t) ==
    \/ Lock(t) \/ TryLock(t) \/ Unlock(t) \/ CondWait(t) \/ Signal(t)
    \/ SemWait(t) \/ SemTryWait(t) \/ SemPost(t)

Return(t) == Acquire(t) \/ CondEnds(t) \/ SemTake(t) \/ Expire(t)

Next == (\E t \in Threads : Call(t) \/ Return(t)) \/ Clock \/ SetTime

Spec == Init /\ [][Next]_waitVars
-------------------------------------------------------------------------------
TypeOK ==
    /\ now \in 0 .. MaxTime /\ set \in Settings \union {0}
    /\ owner \in Threads \union {None} /\ units \in 0 .. MaxUnits
    /\ waitPc \in [Threads -> {"out", "in", "lock", "cond", "relock", "sem"}]
    /\ due \in [Threads -> Nat]
    /\ said \in [Threads -> {"none", "success", "again", "timeout"}]

(* POSIX takes every time the functions work out: the nanoseconds are fewer     *)
(* than a second has, wherever in a second the call was made.                 *)
DeadlinesAreTimes == \A t \in Threads : ~Refused(t)

(* Who has the mutex is where it may be used, and nobody else is: a wait for a   *)
(* condition returns with it after a signal and after a timeout alike.         *)
WaitHasMutex == \A t \in Threads : waitPc[t] = "in" <=> owner = t

(* A wait that times out has lasted as long as it was told to, each of the       *)
(* three, also across the turn of a second.  It holds while nobody sets the      *)
(* time of day.                                                              *)
TimeoutsAreExact ==
    [][ \A t \in Threads :
          ts[t] # None /\ ts'[t] = None /\ said'[t] = "timeout" => now >= due[t]
      ]_waitVars
===============================================================================
