---------------------------- MODULE ShmFreshness ----------------------------
(***************************************************************************)
(* What a reader of the shared memory cache is told about the age of an      *)
(* entry (user/osal/src/ipc/osal_shm_cache.c).  Every call runs under the    *)
(* mutex of the cache, so each is one step; ShmCache is about the mutex.     *)
(* Time is in milliseconds; an age is a number below AgeWord, 2^32 in the     *)
(* code.                                                                    *)
(***************************************************************************)
EXTENDS Naturals, FiniteSets

CONSTANTS
    Entries,
    Validities, \* values of data_validity_ms
    MaxNow,     \* bound of the clock
    AgeWord

(* What the constants are; assumed by the module that instantiates this one. *)
FreshnessAssumption ==
    /\ IsFiniteSet(Entries) /\ Validities \subseteq Nat
    /\ MaxNow \in Nat /\ AgeWord \in Nat \ {0}

VARIABLES
    now,
    entry,      \* [Entries -> valid, status, timestamp, validity]
    written,    \* when the data of each entry was written
    marked,     \* entries invalidated since their last write
    result,     \* status of the last read of each entry, "none" before
    counts      \* what osal_cache_get_stats last returned

vars == <<now, entry, written, marked, result, counts>>

Statuses == {"INVALID", "FRESH", "STALE"}

(* osal_cache_create leaves every entry without data.                        *)
Init ==
    /\ now = 0
    /\ entry = [e \in Entries |-> [valid |-> FALSE, status |-> "INVALID",
                                   timestamp |-> 0, validity |-> 0]]
    /\ written = [e \in Entries |-> 0]
    /\ marked = {}
    /\ result = [e \in Entries |-> "none"]
    /\ counts = [valid |-> 0, fresh |-> 0, stale |-> 0]

(* The results of earlier calls are of their time.                          *)
Tick ==
    /\ now < MaxNow
    /\ now' = now + 1
    /\ result' = [e \in Entries |-> "none"]
    /\ counts' = [valid |-> 0, fresh |-> 0, stale |-> 0]
    /\ UNCHANGED <<entry, written, marked>>

Forget(e) ==
    /\ result' = [result EXCEPT ![e] = "none"]
    /\ counts' = [valid |-> 0, fresh |-> 0, stale |-> 0]

(* osal_cache_write.                                                        *)
Write(e, validity) ==
    /\ entry' = [entry EXCEPT ![e] =
                   [valid |-> TRUE, status |-> "FRESH", validity |-> validity,
                    timestamp |-> now]]
    /\ written' = [written EXCEPT ![e] = now]
    /\ marked' = marked \ {e}
    /\ Forget(e)
    /\ UNCHANGED now

(* osal_cache_invalidate, and osal_cache_invalidate_batch for several.       *)
Invalidate(e) ==
    /\ entry[e].valid
    /\ entry' = [entry EXCEPT ![e].status = "STALE"]
    /\ marked' = marked \union {e}
    /\ Forget(e)
    /\ UNCHANGED <<now, written>>

Age(e) == (now - entry[e].timestamp) % AgeWord

(* A faulty Told, for which the last millisecond is in time.                 *)
ToldLate(e) ==
    CASE entry[e].status = "INVALID"    -> "INVALID"
      [] entry[e].status # "INVALID" /\ Age(e) <= entry[e].validity -> "FRESH"
      [] OTHER -> "STALE"

(* The status a reader is given: by the age, unless it is INVALID.           *)
Told(e) ==
    CASE entry[e].status = "INVALID"    -> "INVALID"
      [] entry[e].status # "INVALID" /\ Age(e) < entry[e].validity -> "FRESH"
      [] OTHER -> "STALE"

(* osal_cache_read, of an entry that was written.                           *)
Read(e) ==
    /\ entry[e].valid
    /\ result' = [result EXCEPT ![e] = Told(e)]
    /\ UNCHANGED <<now, entry, written, marked, counts>>

Count(status) == Cardinality({e \in Entries : entry[e].valid /\ Told(e) = status})

(* osal_cache_get_stats.                                                    *)
GetStats ==
    /\ counts' = [valid |-> Cardinality({e \in Entries : entry[e].valid}),
                  fresh |-> Count("FRESH"), stale |-> Count("STALE")]
    /\ UNCHANGED <<now, entry, written, marked, result>>

Next ==
    \/ Tick
    \/ \E e \in Entries :
          \/ \E validity \in Validities : Write(e, validity)
          \/ Invalidate(e)
          \/ Read(e)
    \/ GetStats

Spec == Init /\ [][Next]_vars

-----------------------------------------------------------------------------
TypeOK ==
    /\ now \in 0 .. MaxNow
    /\ entry \in [Entries -> [valid : BOOLEAN, status : Statuses,
                              timestamp : 0 .. MaxNow,
                              validity : Validities \union {0}]]
    /\ \A e \in Entries : entry[e].valid <=> entry[e].status # "INVALID"
    /\ written \in [Entries -> 0 .. MaxNow]
    /\ marked \subseteq Entries
    /\ result \in [Entries -> Statuses \union {"none"}]
    /\ counts \in [valid : 0 .. Cardinality(Entries),
                   fresh : 0 .. Cardinality(Entries),
                   stale : 0 .. Cardinality(Entries)]

(* A reader that is told FRESH has data that was written, and written less   *)
(* than its validity ago, whatever was written and invalidated before; or so  *)
(* long ago that its age no longer fits its word: 49 days, in 32 bits.        *)
FreshIsInTime ==
    \A e \in Entries : result[e] = "FRESH" =>
       /\ entry[e].valid
       /\ now - written[e] < entry[e].validity \/ now - written[e] >= AgeWord

(* A reader is told STALE only when the time of the data is over, or when it   *)
(* was invalidated and not written since (osal_cache_invalidate marks it       *)
(* STALE): a write starts a new time, also after an invalidation.            *)
StaleIsLate ==
    \A e \in Entries : result[e] = "STALE" =>
       now - written[e] >= entry[e].validity \/ e \in marked

(* The statistics agree with what readers are told at the same time: every   *)
(* entry with data counts once, as what a read says it is.                   *)
StatsAgree ==
    LET read == {e \in Entries : result[e] # "none"}
    IN /\ counts.fresh + counts.stale = counts.valid
       /\ read = Entries /\ counts.valid > 0 =>
             counts.fresh = Cardinality({e \in Entries : result[e] = "FRESH"})

(* An entry that was invalidated and not written since is not FRESH.         *)
InvalidatedIsNotFresh == \A e \in marked : result[e] # "FRESH"
=============================================================================
