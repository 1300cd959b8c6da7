------------------------------- MODULE UserOsal -------------------------------
(***************************************************************************)
(* What is proved of the OSAL of user programs, for any processes, threads,    *)
(* timeouts, objects and values: the shared memory cache, which this module      *)
(* extends, the times of its entries (ShmFreshness), the locks of files          *)
(* (OsalFlock), the waits with a timeout (UserWait), the tables of shared memory  *)
(* (ShmTable), the clients of devices (PdiClient), the heap (OsalHeap), the atomic *)
(* word (OsalAtomic), the log file and the log server (OsalLog, OsalRemoteLog).    *)
(* No two of them share state, so a theorem names the specification of each it is  *)
(* about; their steps may come in any order or together.                       *)
(***************************************************************************)
EXTENDS ShmCache, FiniteSetTheorems, WellFoundedInduction, TLAPS

CONSTANTS
    NoOne,                                   (* no thread, no time             *)
    Entries, Validities, MaxNow, AgeWord,    (* the times of entries           *)
    MsPerSec, NsPerMs,                       (* units of time, of both locks   *)
    Lockers, LockTimeouts, MaxClock,         (* the locks of files             *)
    Threads, WaitTimeouts, MaxTime, MaxUnits,    (* the waits                  *)
    ProcessOf, ShmNames, Sizes, Slots, TableFds,    (* the tables of shared memory *)
    Devices, TypeOf, Ids, Contexts, KindOf, PdiFds,  (* the clients of devices *)
    Blocks, BlockSizes, Thresholds, Percent, HeapWord, Readings,    (* the heap *)
    Amounts, AtomicWord, MaxCalls,           (* the atomic word                *)
    Controllers, LogSizes, LogCounts, MaxLines, MaxInits,    (* the log file   *)
    LogCalls, Levels, Info, Rates, ServerFds, MaxCount       (* the log server *)

VARIABLES
    now, entry, written, marked, result, counts,
    held, isLocked, currentType, flockPc, wish, timeout, start, clock,
    time, set, owner, units, waitPc, ts, due, said,
    shm_table, shm_table_initialized, shmOpen, named, length, mapped, owned, tablePc,
    got, found, asks,
    index, nodes, files, fd, ctlFd, callPc, wanted, info, node, calm,
    inUse, blockSize, magic, current, peak, threshold, alert, has, heapPc, block, old,
    highest, reading, purpose, readable,
    atomic, atomicPc, expected, amount, first, added, calls,
    state, path, file, open, disk, fileSize, maxSize, maxFiles, logPc, seen, lines, inits,
    remoteState, level, rate, filter, counter, total, dropped, sock, enabled, fds,
    regexes, remotePc, remoteCall, hand, reached, even

freshVars == <<now, entry, written, marked, result, counts>>
flockVars == <<held, isLocked, currentType, flockPc, wish, timeout, start, clock>>
waitVars == <<time, set, owner, units, waitPc, ts, due, said>>
tableVars == <<shm_table, shm_table_initialized, shmOpen, named, length, mapped, owned,
               tablePc, got, found, asks>>
pdiVars == <<index, nodes, files, fd, ctlFd, callPc, wanted, info, node, calm>>
heapVars == <<inUse, blockSize, magic, current, peak, threshold, alert, has, heapPc,
              block, old, highest, reading, purpose, readable>>
atomicVars == <<atomic, atomicPc, expected, amount, first, added, calls>>
logVars == <<state, path, file, open, disk, fileSize, maxSize, maxFiles, logPc, seen,
             lines, inits>>
remoteVars == <<remoteState, level, rate, filter, counter, total, dropped, sock, enabled,
                fds, regexes, remotePc, remoteCall, hand, reached, even>>

Fresh == INSTANCE ShmFreshness

Flock == INSTANCE OsalFlock WITH
    Procs <- Lockers, Timeouts <- LockTimeouts, MaxTime <- MaxClock

(* Nobody sets the time of day.                                              *)
Wait == INSTANCE UserWait WITH
    Timeouts <- WaitTimeouts, Settings <- {}, None <- NoOne, now <- time

(* Nobody closes a handle that was never given.                              *)
Table == INSTANCE ShmTable WITH
    Names <- ShmNames, Fds <- TableFds, Careless <- FALSE, None <- NoOne,
    open <- shmOpen

Client == INSTANCE PdiClient WITH
    Fds <- PdiFds, Control <- "ctl", None <- NoOne, path <- node

Heap == INSTANCE OsalHeap WITH
    Users <- Threads, Sizes <- BlockSizes, Word <- HeapWord, NoBlock <- NoOne,
    size <- blockSize

Atomic == INSTANCE OsalAtomic WITH
    Kernel <- FALSE, Word <- AtomicWord, start <- first

Log == INSTANCE OsalLog WITH
    Loggers <- Threads, Sizes <- LogSizes, Counts <- LogCounts,
    size <- fileSize, pc <- logPc

(* The log with a server, which is changed while nobody logs and configured once   *)
(* it is started.                                                            *)
Remote == INSTANCE OsalRemoteLog WITH
    Loggers <- Threads, Calls <- LogCalls, Fds <- ServerFds, Eager <- FALSE, Busy <- FALSE,
    state <- remoteState, pc <- remotePc, call <- remoteCall

(* A system that has /proc/self/status, or one on which every call finds it     *)
(* cannot be read.                                                           *)
ReadsAreReal ==
    readable \/ \A u \in Threads : heapPc[u] = "apply" => reading[u] = Heap!Unread

HeapInit == Heap!Init /\ readable \in BOOLEAN
HeapNext == Heap!UserNext /\ UNCHANGED readable /\ ReadsAreReal'
HeapSpec == HeapInit /\ [][HeapNext]_heapVars

ASSUME UserConstants ==
    /\ Fresh!FreshnessAssumption
    /\ Flock!FlockAssumption /\ Wait!WaitAssumption
    /\ Table!TableAssumption /\ Client!PdiAssumption
    /\ Heap!HeapAssumption /\ Atomic!AtomicAssumption
    /\ Log!LogAssumption /\ Remote!RemoteLogAssumption

(* All the blocks together have fewer bytes than the figures can count.        *)
MemoryFits ==
    \E n \in BlockSizes :
        (\A m \in BlockSizes : m <= n) /\ Cardinality(Blocks) * n < HeapWord

(* A reader that is told FRESH has data written less than its validity ago, or   *)
(* longer ago than an age can tell; one that is told STALE has not, or has data    *)
(* that was invalidated; and osal_cache_get_stats counts alike.                 *)
AnswersInTime == Fresh!FreshIsInTime /\ Fresh!StaleIsLate /\ Fresh!StatsAgree

(* What a lock says is true, whatever was refused, timed out, or changed: who    *)
(* believes to have a file for itself has it (osal_flock.c); who comes back from *)
(* the wait for a condition has its mutex; and the end of a wait is a time that  *)
(* POSIX takes, wherever in a second it began (osal_cond_timedwait).            *)
LocksAreTrue ==
    /\ Flock!LocksAreTrue
    /\ Wait!WaitHasMutex /\ Wait!DeadlinesAreTimes

(* A call that reports a timeout has waited: a lock of a file to the last        *)
(* millisecond and not while the file was free, the other waits exactly          *)
(* (osal_mutex_timed_lock, osal_cond_timedwait, osal_sem_timedwait).           *)
TimeoutsAreLate == Flock!TimeoutsAreLate /\ Wait!TimeoutsAreExact

(* A descriptor belongs to one context or call and none is forgotten, an open    *)
(* by name ends on the device named while that one stays (pdi.c), and a handle   *)
(* of shared memory leads to the memory it was made for (osal_shm.c).           *)
DescriptorsExact ==
    /\ Client!DescriptorsExact /\ Client!CalmOpenIsRight
    /\ Table!HandlesLeadHome

(* One thread starts, stops and configures the log.                            *)
OneController == \A c, d \in Controllers : c = d

(* Every FILE that is open is the log's, and a backup with a larger number is   *)
(* older, whichever rename failed (_rotate_log_file); each message judged        *)
(* counts once (osal_log_get_stats); the sockets and expressions there are are   *)
(* those configured; and a message reaches the server (_send_remote_log).       *)
LogIsSound ==
    /\ Log!HandlesExact /\ Log!BackupsOrdered
    /\ Remote!LogIsCounted /\ Remote!ConfigurationIsOwned /\ Remote!SentToServer

(* The heap counts the bytes of the blocks that are handed out, each a good      *)
(* block of its owner alone, and the peak covers them, also when the bytes in    *)
(* use are read from /proc; and an atomic word has all that was added to it.     *)
FiguresExact ==
    /\ IF readable THEN Heap!PeakCovers ELSE Heap!FiguresExact /\ Heap!BlocksAreOwned
    /\ Atomic!NothingIsLost
-----------------------------------------------------------------------------
(* The cache.                                                                *)
(* The values of the fields of an object.                                   *)
Datum == Values \union {0}
Memory == [magic : BOOLEAN, mutex : {"zero", "ready", "destroyed"},
           holder : Users \union {Null}, valid : BOOLEAN, data : Datum \X Datum]

LEMMA InitCache == Init => CacheInv
<1> SUFFICES ASSUME Init PROVE CacheInv
    OBVIOUS
<1> USE CacheConstants DEF CacheAssumption, Init, Cleared
<1>1. TypeOK
    BY DEF TypeOK
<1>2. NameInv /\ HolderInv
    BY DEF NameInv, NameIsUsed, UnusedIsCleared, MappedIsNamed, MakersAreAlone,
            HolderInv, NameIsUsable, InsideHolds, NewIsFree, Creating, Inside
<1>3. DataInv
    BY DEF DataInv, FreeIsWhole, AccessIsWhole, CopyIsWhole, Whole
<1>4. ValidIsWritten
    BY DEF ValidIsWritten
<1>5. QED
    BY <1>1, <1>2, <1>3, <1>4 DEF CacheInv

(* What an object of the memory has in its fields; one of them is set.        *)
Has(n, g, x, h, v, d) ==
    /\ n \in Memory
    /\ n.magic = g /\ n.mutex = x /\ n.holder = h /\ n.valid = v /\ n.data = d

LEMMA FieldSteps ==
    ASSUME NEW n \in Memory
    PROVE  /\ \A g \in BOOLEAN : 
                 Has([n EXCEPT !.magic = g], g, n.mutex, n.holder, n.valid, n.data)
           /\ \A x \in {"zero", "ready", "destroyed"} :
                 Has([n EXCEPT !.mutex = x], n.magic, x, n.holder, n.valid, n.data)
           /\ \A h \in Users \union {Null} :
                 Has([n EXCEPT !.holder = h], n.magic, n.mutex, h, n.valid, n.data)
           /\ \A v \in BOOLEAN :
                 Has([n EXCEPT !.valid = v], n.magic, n.mutex, n.holder, v, n.data)
           /\ \A d \in Datum :
                 Has([n EXCEPT !.data[1] = d], n.magic, n.mutex, n.holder, n.valid,
                     <<d, n.data[2]>>)
           /\ \A d \in Datum :
                 Has([n EXCEPT !.data[2] = d], n.magic, n.mutex, n.holder, n.valid,
                     <<n.data[1], d>>)
<1>1. ASSUME NEW g \in BOOLEAN
      PROVE  Has([n EXCEPT !.magic = g], g, n.mutex, n.holder, n.valid, n.data)
    BY DEF Memory, Has
<1>2. ASSUME NEW x \in {"zero", "ready", "destroyed"}
      PROVE  Has([n EXCEPT !.mutex = x], n.magic, x, n.holder, n.valid, n.data)
    BY DEF Memory, Has
<1>3. ASSUME NEW h \in Users \union {Null}
      PROVE  Has([n EXCEPT !.holder = h], n.magic, n.mutex, h, n.valid, n.data)
    BY DEF Memory, Has
<1>4. ASSUME NEW v \in BOOLEAN
      PROVE  Has([n EXCEPT !.valid = v], n.magic, n.mutex, n.holder, v, n.data)
    BY DEF Memory, Has
<1>5. ASSUME NEW d \in Datum
      PROVE  Has([n EXCEPT !.data[1] = d], n.magic, n.mutex, n.holder, n.valid,
                 <<d, n.data[2]>>)
    BY DEF Memory, Has
<1>6. ASSUME NEW d \in Datum
      PROVE  Has([n EXCEPT !.data[2] = d], n.magic, n.mutex, n.holder, n.valid,
                 <<n.data[1], d>>)
    BY DEF Memory, Has
<1>7. QED
    BY <1>1, <1>2, <1>3, <1>4, <1>5, <1>6

(* A step that writes to memory writes to the object its process has mapped.  *)
Becomes(p, g, x, h, v, d) ==
    /\ mem' \in [Objects -> Memory]
    /\ Has(mem'[at[p]], g, x, h, v, d)
    /\ \A o \in Objects : o # at[p] => mem'[o] = mem[o]

Destroyed(m) == IF m.holder = Null THEN "destroyed" ELSE m.mutex

LEMMA MemoryStep ==
    ASSUME TypeOK, NEW p \in Users, pc[p] # "out", NEW m, m = mem[at[p]]
    PROVE  /\ at[p] \in Objects /\ m \in Memory
           /\ CreateClear(p) => Becomes(p, FALSE, "zero", Null, FALSE, <<0, 0>>)
           /\ CreateMagic(p) => Becomes(p, TRUE, m.mutex, m.holder, m.valid, m.data)
           /\ CreateMutex(p) => Becomes(p, m.magic, "ready", Null, m.valid, m.data)
           /\ CreateEntries(p) => Becomes(p, m.magic, m.mutex, m.holder, FALSE, m.data)
           /\ DeleteMutex(p) => Becomes(p, m.magic, Destroyed(m), m.holder, m.valid,
                   m.data)
           /\ \A v : WriteLock(p, v) => Becomes(p, m.magic, m.mutex, Locked(p),
                   m.valid, m.data)
           /\ ReadLock(p) => Becomes(p, m.magic, m.mutex, Locked(p), m.valid, m.data)
           /\ WriteHalf(p) => Becomes(p, m.magic, m.mutex, m.holder, m.valid,
                   <<value[p], m.data[2]>>)
           /\ WriteRest(p) => Becomes(p, m.magic, m.mutex, Null, TRUE, <<m.data[1],
                   value[p]>>)
           /\ ReadInvalid(p) => Becomes(p, m.magic, m.mutex, Null, m.valid, m.data)
           /\ ReadRest(p) => Becomes(p, m.magic, m.mutex, Null, m.valid, m.data)
<1>1. at[p] \in Objects /\ m \in Memory /\ mem \in [Objects -> Memory]
    BY DEF TypeOK, Memory, Datum
<1>2. value[p] \in Datum /\ Null \in Users \union {Null} /\ p \in Users \union {Null}
    BY DEF TypeOK, Datum
<1>3. ASSUME NEW n, mem' = [mem EXCEPT ![at[p]] = n],
             NEW g, NEW x, NEW h, NEW v, NEW d, Has(n, g, x, h, v, d)
      PROVE  Becomes(p, g, x, h, v, d)
    BY <1>1, <1>3 DEF Becomes, Has
<1>4. ASSUME CreateClear(p) PROVE Becomes(p, FALSE, "zero", Null, FALSE, <<0, 0>>)
  <2>1. mem' = [mem EXCEPT ![at[p]] = Cleared]
    BY <1>4 DEF CreateClear
  <2>2. Has(Cleared, FALSE, "zero", Null, FALSE, <<0, 0>>)
    BY DEF Has, Cleared, Memory, Datum
  <2>3. QED
    BY <1>3, <2>1, <2>2
<1>5. ASSUME CreateMagic(p) PROVE Becomes(p, TRUE, m.mutex, m.holder, m.valid, m.data)
  <2>1. mem' = [mem EXCEPT ![at[p]] = [m EXCEPT !.magic = TRUE]]
    BY <1>5 DEF CreateMagic
  <2>2. Has([m EXCEPT !.magic = TRUE], TRUE, m.mutex, m.holder, m.valid, m.data)
    BY <1>1, <1>2, FieldSteps
  <2>3. QED
    BY <1>3, <2>1, <2>2
<1>6. ASSUME CreateMutex(p) PROVE Becomes(p, m.magic, "ready", Null, m.valid, m.data)
  <2>1. mem' = [mem EXCEPT ![at[p]] = [m EXCEPT !.mutex = "ready", !.holder = Null]]
    BY <1>6 DEF CreateMutex
  <2>2. PICK n : n = [m EXCEPT !.mutex = "ready"]
    OBVIOUS
  <2>3. Has(n, m.magic, "ready", m.holder, m.valid, m.data)
    BY <1>1, <1>2, FieldSteps, <2>2
  <2>4. n \in Memory
    BY <2>3 DEF Has
  <2>5. Has([n EXCEPT !.holder = Null], n.magic, n.mutex, Null, n.valid, n.data)
    BY <1>2, FieldSteps, <2>4
  <2>6. [n EXCEPT !.holder = Null] = [m EXCEPT !.mutex = "ready", !.holder = Null]
    BY <2>2
  <2>7. Has([m EXCEPT !.mutex = "ready", !.holder = Null], m.magic, "ready", Null,
          m.valid, m.data)
    BY <2>3, <2>5, <2>6 DEF Has
  <2>8. QED
    BY <1>3, <2>1, <2>7
<1>7. ASSUME CreateEntries(p) PROVE Becomes(p, m.magic, m.mutex, m.holder, FALSE, m.data)
  <2>1. mem' = [mem EXCEPT ![at[p]] = [m EXCEPT !.valid = FALSE]]
    BY <1>7 DEF CreateEntries
  <2>2. Has([m EXCEPT !.valid = FALSE], m.magic, m.mutex, m.holder, FALSE, m.data)
    BY <1>1, <1>2, FieldSteps
  <2>3. QED
    BY <1>3, <2>1, <2>2
<1>8. ASSUME DeleteMutex(p)
      PROVE  Becomes(p, m.magic, Destroyed(m), m.holder, m.valid, m.data)
  <2>1. mem' = [mem EXCEPT ![at[p]] = [m EXCEPT !.mutex = Destroyed(m)]]
    BY <1>8 DEF DeleteMutex, Destroyed
  <2>2. Destroyed(m) \in {"zero", "ready", "destroyed"}
    BY <1>1 DEF Memory, Destroyed
  <2>3. Has([m EXCEPT !.mutex = Destroyed(m)],
            m.magic, Destroyed(m), m.holder, m.valid, m.data)
    BY <1>1, <2>2, FieldSteps
  <2>4. QED
    BY <1>3, <2>1, <2>3
<1>9. ASSUME NEW v, WriteLock(p, v)
      PROVE  Becomes(p, m.magic, m.mutex, Locked(p), m.valid, m.data)
  <2>1. mem' = [mem EXCEPT ![at[p]] = [m EXCEPT !.holder = Locked(p)]]
    BY <1>9 DEF WriteLock
  <2>2. Has([m EXCEPT !.holder = Locked(p)], m.magic, m.mutex, Locked(p), m.valid, m.data)
    BY <1>1, <1>2, FieldSteps DEF Locked
  <2>3. QED
    BY <1>3, <2>1, <2>2
<1>10. ASSUME ReadLock(p) PROVE Becomes(p, m.magic, m.mutex, Locked(p), m.valid, m.data)
  <2>1. mem' = [mem EXCEPT ![at[p]] = [m EXCEPT !.holder = Locked(p)]]
    BY <1>10 DEF ReadLock
  <2>2. Has([m EXCEPT !.holder = Locked(p)], m.magic, m.mutex, Locked(p), m.valid, m.data)
    BY <1>1, <1>2, FieldSteps DEF Locked
  <2>3. QED
    BY <1>3, <2>1, <2>2
<1>11. ASSUME WriteHalf(p)
      PROVE  Becomes(p, m.magic, m.mutex, m.holder, m.valid, <<value[p], m.data[2]>>)
  <2>1. mem' = [mem EXCEPT ![at[p]] = [m EXCEPT !.data[1] = value[p]]]
    BY <1>11 DEF WriteHalf
  <2>2. Has([m EXCEPT !.data[1] = value[p]], m.magic, m.mutex, m.holder, m.valid,
          <<value[p], m.data[2]>>)
    BY <1>1, <1>2, FieldSteps
  <2>3. QED
    BY <1>3, <2>1, <2>2
<1>12. ASSUME WriteRest(p)
      PROVE  Becomes(p, m.magic, m.mutex, Null, TRUE, <<m.data[1], value[p]>>)
  <2>1. mem' = [mem EXCEPT ![at[p]] = [m EXCEPT !.data[2] = value[p], !.valid = TRUE,
          !.holder = Null]]
    BY <1>12 DEF WriteRest
  <2>2. PICK n : n = [m EXCEPT !.data[2] = value[p]]
    OBVIOUS
  <2>3. Has(n, m.magic, m.mutex, m.holder, m.valid, <<m.data[1], value[p]>>)
    BY <1>1, <1>2, FieldSteps, <2>2
  <2>4. n \in Memory
    BY <2>3 DEF Has
  <2>5. PICK k : k = [n EXCEPT !.valid = TRUE]
    OBVIOUS
  <2>6. Has(k, n.magic, n.mutex, n.holder, TRUE, n.data)
    BY FieldSteps, <2>4, <2>5
  <2>7. k \in Memory
    BY <2>6 DEF Has
  <2>8. PICK w : w = [k EXCEPT !.holder = Null]
    OBVIOUS
  <2>9. Has(w, k.magic, k.mutex, Null, k.valid, k.data)
    BY <1>2, FieldSteps, <2>7, <2>8
  <2>10. w = [m EXCEPT !.data[2] = value[p], !.valid = TRUE, !.holder = Null]
    BY <2>2, <2>5, <2>8
  <2>11. Has(w, m.magic, m.mutex, Null, TRUE, <<m.data[1], value[p]>>)
    BY <2>3, <2>6, <2>9 DEF Has
  <2>12. QED
    BY <1>3, <2>1, <2>10, <2>11
<1>13. ASSUME ReadInvalid(p) PROVE Becomes(p, m.magic, m.mutex, Null, m.valid, m.data)
  <2>1. mem' = [mem EXCEPT ![at[p]] = [m EXCEPT !.holder = Null]]
    BY <1>13 DEF ReadInvalid
  <2>2. Has([m EXCEPT !.holder = Null], m.magic, m.mutex, Null, m.valid, m.data)
    BY <1>1, <1>2, FieldSteps
  <2>3. QED
    BY <1>3, <2>1, <2>2
<1>14. ASSUME ReadRest(p) PROVE Becomes(p, m.magic, m.mutex, Null, m.valid, m.data)
  <2>1. mem' = [mem EXCEPT ![at[p]] = [m EXCEPT !.holder = Null]]
    BY <1>14 DEF ReadRest
  <2>2. Has([m EXCEPT !.holder = Null], m.magic, m.mutex, Null, m.valid, m.data)
    BY <1>1, <1>2, FieldSteps
  <2>3. QED
    BY <1>3, <2>1, <2>2
<1>15. QED
    BY <1>1, <1>4, <1>5, <1>6, <1>7, <1>8, <1>9, <1>10, <1>11, <1>12, <1>13, <1>14

(* What a step of a process that has an object mapped does: it writes to that  *)
(* object and goes to a place; the name, what is mapped and the values and     *)
(* copies of the other processes stay.                                      *)
Moves(p, place, g, x, h, v, d) ==
    /\ pc[p] # "out" /\ at[p] \in Objects
    /\ Becomes(p, g, x, h, v, d)
    /\ pc' = [pc EXCEPT ![p] = place]
    /\ \A q \in Users : q # p => value'[q] = value[q] /\ copy'[q] = copy[q]
    /\ name' = name /\ used' = used /\ at' = at

Places == {"out", "idle", "unlink"} \union Creating \union Inside

(* The same, place by place: what it says of the process and of the others.   *)
LEMMA MovesApart ==
    ASSUME TypeOK, NEW p \in Users, NEW place, NEW g, NEW x, NEW h, NEW v, NEW d,
           Moves(p, place, g, x, h, v, d)
    PROVE  /\ pc'[p] = place
           /\ \A q \in Users : q # p => pc'[q] = pc[q]
           /\ \A q \in Users : at'[q] = at[q]
           /\ mem'[at[p]].mutex = x /\ mem'[at[p]].holder = h
           /\ mem'[at[p]].valid = v /\ mem'[at[p]].data = d
           /\ \A o \in Objects : o # at[p] => mem'[o] = mem[o]
           /\ at[p] \in Objects
           /\ \A q \in Users : at[q] \in Objects \/ at[q] = Null
<1>1. pc \in [Users -> Places] /\ at \in [Users -> Objects \union {Null}]
    BY DEF TypeOK, Places
<1>2. pc' = [pc EXCEPT ![p] = place] /\ at' = at /\ at[p] \in Objects
    BY DEF Moves
<1>3. pc'[p] = place /\ \A q \in Users : q # p => pc'[q] = pc[q]
    BY <1>1, <1>2
<1>4. /\ Has(mem'[at[p]], g, x, h, v, d)
      /\ \A o \in Objects : o # at[p] => mem'[o] = mem[o]
    BY DEF Moves, Becomes
<1>5. QED
    BY <1>1, <1>2, <1>3, <1>4 DEF Has

LEMMA TypesMove ==
    ASSUME TypeOK, NEW p \in Users, NEW place, NEW g, NEW x, NEW h, NEW v, NEW d,
           Moves(p, place, g, x, h, v, d), place \in Places \ {"out"},
           value' \in [Users -> Datum], copy' \in [Users -> Datum \X Datum]
    PROVE  TypeOK'
<1>1. mem' \in [Objects -> Memory]
    BY DEF Moves, Becomes
<1>2. name' \in Objects \union {Null} /\ used' \subseteq Objects
    BY DEF Moves, TypeOK
<1>3. at' \in [Users -> Objects \union {Null}]
    BY DEF Moves, TypeOK
<1>4. pc \in [Users -> Places] /\ pc' = [pc EXCEPT ![p] = place]
    BY DEF Moves, TypeOK, Places
<1>5. pc' \in [Users -> Places]
    BY <1>4
<1>6. at[p] # Null /\ \A q \in Users : pc[q] = "out" <=> at[q] = Null
    BY DEF Moves, TypeOK
<1>7. ASSUME NEW q \in Users PROVE pc'[q] = "out" <=> at'[q] = Null
  <2>1. CASE q = p
    BY <1>6, <2>1, MovesApart
  <2>2. CASE q # p
    BY <1>6, <2>2, MovesApart
  <2>3. QED
    BY <2>1, <2>2
<1>8. QED
    BY <1>1, <1>2, <1>3, <1>5, <1>7 DEF TypeOK, Memory, Datum, Places

(* A process that begins to delete an object is the only one that has it       *)
(* mapped.                                                                 *)
LEMMA NamesMove ==
    ASSUME TypeOK, NameInv, NEW p \in Users, NEW place,
           NEW g, NEW x, NEW h, NEW v, NEW d, Moves(p, place, g, x, h, v, d),
           \/ place \notin Creating \union {"unlink"}
           \/ \A q \in Users : at[q] # Null => q = p
    PROVE  NameInv'
<1>1. name' = name /\ used' = used /\ at' = at /\ at[p] # Null
    BY CacheConstants DEF Moves, CacheAssumption
<1>2. NameIsUsed'
    BY <1>1 DEF NameInv, NameIsUsed
<1>3. MappedIsNamed'
    BY <1>1 DEF NameInv, MappedIsNamed
<1>4. at[p] \in used
    BY <1>1 DEF NameInv, MappedIsNamed, NameIsUsed
<1>5. UnusedIsCleared'
    BY <1>1, <1>4, MovesApart DEF NameInv, UnusedIsCleared
<1>6. ASSUME NEW q \in Users, NEW r \in Users,
             pc'[q] \in Creating \union {"unlink"}, at[r] # Null
      PROVE  q = r
  <2>1. CASE q = p
    <3>1. place \in Creating \union {"unlink"}
        BY <1>6, <2>1, MovesApart
    <3>2. QED
        BY <1>6, <2>1, <3>1
  <2>2. CASE q # p
    <3>1. pc[q] \in Creating \union {"unlink"}
        BY <1>6, <2>2, MovesApart
    <3>2. q = p
        BY <1>1, <3>1 DEF NameInv, MakersAreAlone
    <3>3. QED
        BY <2>2, <3>2
  <2>3. QED
    BY <2>1, <2>2
<1>7. MakersAreAlone'
    BY <1>1, <1>6 DEF MakersAreAlone
<1>8. QED
    BY <1>2, <1>3, <1>5, <1>7 DEF NameInv

(* Nobody else has anything mapped while a process creates or deletes.        *)
LEMMA MakersAlone ==
    ASSUME NameInv, NEW p \in Users, pc[p] \in Creating \union {"unlink"}, NEW q \in Users,
           q # p
    PROVE  at[q] = Null
BY DEF NameInv, MakersAreAlone

(* A process that goes into a read or a write takes the mutex, one that begins *)
(* to create finds it free, and one that destroys it goes on to unlink.       *)
LEMMA HoldersMove ==
    ASSUME TypeOK, NameInv, HolderInv, NameInv', NEW p \in Users, NEW place,
           NEW g, NEW x, NEW h, NEW v, NEW d, Moves(p, place, g, x, h, v, d),
           x = "destroyed" => place = "unlink",
           place \in Inside => h = p,
           place \in Creating => h = Null,
           \A q \in Users : q # p /\ pc[q] \in Inside => at[q] = Null \/ h = mem[at[p]].holder
    PROVE  HolderInv'
<1>1. name' = name /\ at' = at /\ at[p] # Null /\ at[p] = name
    BY CacheConstants DEF Moves, CacheAssumption, NameInv, MappedIsNamed
<1>2. NameIsUsable'
    BY <1>1, MovesApart DEF NameIsUsable
<1>3. ASSUME NEW q \in Users PROVE pc'[q] \in Inside => mem'[at'[q]].holder = q
  <2>1. CASE q = p
    BY <2>1, MovesApart
  <2>2. CASE q # p /\ pc[q] \in Inside
    <3>1. at[q] # Null
        BY <2>2 DEF TypeOK, Inside
    <3>2. at[q] = at[p]
        BY <1>1, <3>1 DEF NameInv, MappedIsNamed
    <3>3. h = mem[at[p]].holder /\ mem[at[q]].holder = q
        BY <2>2, <3>1 DEF HolderInv, InsideHolds
    <3>4. QED
        BY <1>1, <3>2, <3>3, MovesApart
  <2>3. CASE q # p /\ pc[q] \notin Inside
    BY <2>3, MovesApart
  <2>4. QED
    BY <2>1, <2>2, <2>3
<1>4. ASSUME NEW q \in Users PROVE pc'[q] \in Creating => mem'[at'[q]].holder = Null
  <2>1. CASE q = p
    BY <2>1, MovesApart
  <2>2. CASE q # p
    <3>1. pc[q] \notin Creating
        BY <1>1, <2>2 DEF NameInv, MakersAreAlone
    <3>2. QED
        BY <2>2, <3>1, MovesApart
  <2>3. QED
    BY <2>1, <2>2
<1>5. QED
    BY <1>2, <1>3, <1>4 DEF HolderInv, InsideHolds, NewIsFree

(* The processes that are inside a read or a write: never two.                *)
LEMMA InsideAlone ==
    ASSUME TypeOK, NameInv, HolderInv, NEW p \in Users, NEW q \in Users,
           pc[p] \in Inside, pc[q] \in Inside
    PROVE  p = q
<1>1. at[p] # Null /\ at[q] # Null
    BY DEF TypeOK, Inside
<1>2. at[p] = at[q]
    BY <1>1 DEF NameInv, MappedIsNamed
<1>3. QED
    BY <1>2 DEF HolderInv, InsideHolds

(* What a step leaves in an object that is free is whole, what it leaves to    *)
(* its process is half copied only where the process says so, and while        *)
(* another process is inside it leaves the data alone.                        *)
LEMMA DataMove ==
    ASSUME TypeOK, NameInv, HolderInv, DataInv, NEW p \in Users, NEW place,
           NEW g, NEW x, NEW h, NEW v, NEW d, Moves(p, place, g, x, h, v, d),
           h = Null => Whole(d),
           place \in {"write", "read", "reading"} => Whole(d),
           place = "writing" => d[1] = value'[p],
           place = "reading" => copy'[p][1] = d[1],
           place # "reading" => Whole(copy'[p]),
           \A q \in Users : q # p /\ pc[q] \in Inside => at[q] = Null \/ d = mem[at[p]].data
    PROVE  DataInv'
<1>1. at' = at /\ at[p] # Null
    BY CacheConstants DEF Moves, CacheAssumption
<1>2. ASSUME NEW o \in Objects PROVE mem'[o].holder = Null => Whole(mem'[o].data)
  <2>1. CASE o = at[p]
    BY <2>1, MovesApart
  <2>2. CASE o # at[p]
    BY <2>2, MovesApart DEF DataInv, FreeIsWhole
  <2>3. QED
    BY <2>1, <2>2
<1>3. ASSUME NEW q \in Users, q # p, pc[q] \in Inside
      PROVE  mem'[at[q]].data = mem[at[q]].data
  <2>1. at[q] # Null
    BY <1>3 DEF TypeOK, Inside
  <2>2. at[q] = at[p]
    BY <1>1, <2>1 DEF NameInv, MappedIsNamed
  <2>3. d = mem[at[p]].data
    BY <1>3, <2>1
  <2>4. QED
    BY <2>2, <2>3, MovesApart
<1>4. ASSUME NEW q \in Users, q # p
      PROVE  pc'[q] = pc[q] /\ value'[q] = value[q] /\ copy'[q] = copy[q]
    BY <1>4, MovesApart DEF Moves
<1>5. ASSUME NEW q \in Users
      PROVE  /\ pc'[q] \in {"write", "read", "reading"} => Whole(mem'[at'[q]].data)
             /\ pc'[q] = "writing" => mem'[at'[q]].data[1] = value'[q]
  <2>1. CASE q = p
    BY <1>1, <2>1, MovesApart
  <2>2. CASE q # p /\ pc[q] \in Inside
    BY <1>1, <1>3, <1>4, <2>2 DEF DataInv, AccessIsWhole
  <2>3. CASE q # p /\ pc[q] \notin Inside
    BY <1>4, <2>3 DEF Inside
  <2>4. QED
    BY <2>1, <2>2, <2>3
<1>6. ASSUME NEW q \in Users
      PROVE  IF pc'[q] = "reading" THEN copy'[q][1] = mem'[at'[q]].data[1]
             ELSE Whole(copy'[q])
  <2>1. CASE q = p
    BY <1>1, <2>1, MovesApart
  <2>2. CASE q # p /\ pc[q] = "reading"
    <3>1. pc[q] \in Inside
        BY <2>2 DEF Inside
    <3>2. copy[q][1] = mem[at[q]].data[1]
        BY <2>2 DEF DataInv, CopyIsWhole
    <3>3. QED
        BY <1>1, <1>3, <1>4, <2>2, <3>1, <3>2
  <2>3. CASE q # p /\ pc[q] # "reading"
    BY <1>4, <2>3 DEF DataInv, CopyIsWhole
  <2>4. QED
    BY <2>1, <2>2, <2>3
<1>7. FreeIsWhole'
    BY <1>2 DEF FreeIsWhole, Whole
<1>8. AccessIsWhole'
    BY <1>5 DEF AccessIsWhole, Whole
<1>9. CopyIsWhole'
    BY <1>6 DEF CopyIsWhole, Whole
<1>10. QED
    BY <1>7, <1>8, <1>9 DEF DataInv

Clean(v, d) == v => d[1] # 0

LEMMA WrittenMove ==
    ASSUME TypeOK, ValidIsWritten, NEW p \in Users, NEW place,
           NEW g, NEW x, NEW h, NEW v, NEW d, Moves(p, place, g, x, h, v, d),
           Clean(v, d),
           place \in {"write", "writing"} => value'[p] # 0,
           place = "reading" => copy'[p][1] # 0
    PROVE  ValidIsWritten'
<1>1. ASSUME NEW o \in Objects PROVE mem'[o].valid => mem'[o].data[1] # 0
  <2>1. CASE o = at[p]
    BY <2>1, MovesApart DEF Clean
  <2>2. CASE o # at[p]
    BY <2>2, MovesApart DEF ValidIsWritten
  <2>3. QED
    BY <2>1, <2>2
<1>2. ASSUME NEW q \in Users
      PROVE  /\ pc'[q] \in {"write", "writing"} => value'[q] # 0
             /\ pc'[q] = "reading" => copy'[q][1] # 0
  <2>1. CASE q = p
    BY <2>1, MovesApart
  <2>2. CASE q # p
    <3>1. pc'[q] = pc[q] /\ value'[q] = value[q] /\ copy'[q] = copy[q]
        BY <2>2, MovesApart DEF Moves
    <3>2. QED
        BY <3>1 DEF ValidIsWritten
  <2>3. QED
    BY <2>1, <2>2
<1>3. QED
    BY <1>1, <1>2 DEF ValidIsWritten

(* A step of a process that has an object mapped, in those terms.             *)
LEMMA StepMoves ==
    ASSUME TypeOK, NEW p \in Users, pc[p] # "out", NEW m, m = mem[at[p]]
    PROVE  /\ CreateClear(p) => Moves(p, "magic", FALSE, "zero", Null, FALSE, <<0, 0>>)
           /\ CreateMagic(p) => Moves(p, "mutex", TRUE, m.mutex, m.holder, m.valid, m.data)
           /\ CreateMutex(p) => Moves(p, "entries", m.magic, "ready", Null, m.valid, m.data)
           /\ CreateEntries(p) => Moves(p, "idle", m.magic, m.mutex, m.holder, FALSE, m.data)
           /\ DeleteMutex(p) => Moves(p, "unlink", m.magic, Destroyed(m), m.holder,
                   m.valid, m.data)
           /\ \A v : WriteLock(p, v) => Moves(p, "write", m.magic, m.mutex, Locked(p),
                   m.valid, m.data)
           /\ WriteHalf(p) => Moves(p, "writing", m.magic, m.mutex, m.holder, m.valid,
                   <<value[p], m.data[2]>>)
           /\ WriteRest(p) => Moves(p, "idle", m.magic, m.mutex, Null, TRUE,
                   <<m.data[1], value[p]>>)
           /\ ReadLock(p) => Moves(p, "read", m.magic, m.mutex, Locked(p), m.valid, m.data)
           /\ ReadInvalid(p) => Moves(p, "idle", m.magic, m.mutex, Null, m.valid, m.data)
           /\ ReadHalf(p) => Moves(p, "reading", m.magic, m.mutex, m.holder, m.valid, m.data)
           /\ ReadRest(p) => Moves(p, "idle", m.magic, m.mutex, Null, m.valid, m.data)
<1>1. /\ at[p] \in Objects /\ m \in Memory /\ mem \in [Objects -> Memory]
      /\ value \in [Users -> Datum] /\ copy \in [Users -> Datum \X Datum]
    BY DEF TypeOK, Memory, Datum
<1>2. ASSUME CreateClear(p)
      PROVE  Moves(p, "magic", FALSE, "zero", Null, FALSE, <<0, 0>>)
  <2>1. Becomes(p, FALSE, "zero", Null, FALSE, <<0, 0>>)
    BY <1>2, MemoryStep
  <2>2. /\ pc' = [pc EXCEPT ![p] = "magic"]
        /\ name' = name /\ used' = used /\ at' = at
        /\ value' = value /\ copy' = copy
    BY <1>2 DEF CreateClear, Goto
  <2>3. QED
    BY <1>1, <2>1, <2>2 DEF Moves
<1>3. ASSUME CreateMagic(p)
      PROVE  Moves(p, "mutex", TRUE, m.mutex, m.holder, m.valid, m.data)
  <2>1. Becomes(p, TRUE, m.mutex, m.holder, m.valid, m.data)
    BY <1>3, MemoryStep
  <2>2. /\ pc' = [pc EXCEPT ![p] = "mutex"]
        /\ name' = name /\ used' = used /\ at' = at
        /\ value' = value /\ copy' = copy
    BY <1>3 DEF CreateMagic, Goto
  <2>3. QED
    BY <1>1, <2>1, <2>2 DEF Moves
<1>4. ASSUME CreateMutex(p)
      PROVE  Moves(p, "entries", m.magic, "ready", Null, m.valid, m.data)
  <2>1. Becomes(p, m.magic, "ready", Null, m.valid, m.data)
    BY <1>4, MemoryStep
  <2>2. /\ pc' = [pc EXCEPT ![p] = "entries"]
        /\ name' = name /\ used' = used /\ at' = at
        /\ value' = value /\ copy' = copy
    BY <1>4 DEF CreateMutex, Goto
  <2>3. QED
    BY <1>1, <2>1, <2>2 DEF Moves
<1>5. ASSUME CreateEntries(p)
      PROVE  Moves(p, "idle", m.magic, m.mutex, m.holder, FALSE, m.data)
  <2>1. Becomes(p, m.magic, m.mutex, m.holder, FALSE, m.data)
    BY <1>5, MemoryStep
  <2>2. /\ pc' = [pc EXCEPT ![p] = "idle"]
        /\ name' = name /\ used' = used /\ at' = at
        /\ value' = value /\ copy' = copy
    BY <1>5 DEF CreateEntries, Goto
  <2>3. QED
    BY <1>1, <2>1, <2>2 DEF Moves
<1>6. ASSUME DeleteMutex(p)
      PROVE  Moves(p, "unlink", m.magic, Destroyed(m), m.holder, m.valid, m.data)
  <2>1. Becomes(p, m.magic, Destroyed(m), m.holder, m.valid, m.data)
    BY <1>6, MemoryStep
  <2>2. /\ pc' = [pc EXCEPT ![p] = "unlink"]
        /\ name' = name /\ used' = used /\ at' = at
        /\ value' = value /\ copy' = copy
    BY <1>6 DEF DeleteMutex, Goto
  <2>3. QED
    BY <1>1, <2>1, <2>2 DEF Moves
<1>7. ASSUME NEW w, WriteLock(p, w)
      PROVE  Moves(p, "write", m.magic, m.mutex, Locked(p), m.valid, m.data)
  <2>1. Becomes(p, m.magic, m.mutex, Locked(p), m.valid, m.data)
    BY <1>7, MemoryStep
  <2>2. /\ pc' = [pc EXCEPT ![p] = "write"]
        /\ name' = name /\ used' = used /\ at' = at
        /\ value' = [value EXCEPT ![p] = w] /\ copy' = copy
    BY <1>7 DEF WriteLock, Goto
  <2>3. QED
    BY <1>1, <2>1, <2>2 DEF Moves
<1>8. ASSUME WriteHalf(p)
      PROVE  Moves(p, "writing", m.magic, m.mutex, m.holder, m.valid, <<value[p], m.data[2]>>)
  <2>1. Becomes(p, m.magic, m.mutex, m.holder, m.valid, <<value[p], m.data[2]>>)
    BY <1>8, MemoryStep
  <2>2. /\ pc' = [pc EXCEPT ![p] = "writing"]
        /\ name' = name /\ used' = used /\ at' = at
        /\ value' = value /\ copy' = copy
    BY <1>8 DEF WriteHalf, Goto
  <2>3. QED
    BY <1>1, <2>1, <2>2 DEF Moves
<1>9. ASSUME WriteRest(p)
      PROVE  Moves(p, "idle", m.magic, m.mutex, Null, TRUE, <<m.data[1], value[p]>>)
  <2>1. Becomes(p, m.magic, m.mutex, Null, TRUE, <<m.data[1], value[p]>>)
    BY <1>9, MemoryStep
  <2>2. /\ pc' = [pc EXCEPT ![p] = "idle"]
        /\ name' = name /\ used' = used /\ at' = at
        /\ value' = value /\ copy' = copy
    BY <1>9 DEF WriteRest, Goto
  <2>3. QED
    BY <1>1, <2>1, <2>2 DEF Moves
<1>10. ASSUME ReadLock(p)
      PROVE  Moves(p, "read", m.magic, m.mutex, Locked(p), m.valid, m.data)
  <2>1. Becomes(p, m.magic, m.mutex, Locked(p), m.valid, m.data)
    BY <1>10, MemoryStep
  <2>2. /\ pc' = [pc EXCEPT ![p] = "read"]
        /\ name' = name /\ used' = used /\ at' = at
        /\ value' = value /\ copy' = copy
    BY <1>10 DEF ReadLock, Goto
  <2>3. QED
    BY <1>1, <2>1, <2>2 DEF Moves
<1>11. ASSUME ReadInvalid(p)
      PROVE  Moves(p, "idle", m.magic, m.mutex, Null, m.valid, m.data)
  <2>1. Becomes(p, m.magic, m.mutex, Null, m.valid, m.data)
    BY <1>11, MemoryStep
  <2>2. /\ pc' = [pc EXCEPT ![p] = "idle"]
        /\ name' = name /\ used' = used /\ at' = at
        /\ value' = value /\ copy' = copy
    BY <1>11 DEF ReadInvalid, Goto
  <2>3. QED
    BY <1>1, <2>1, <2>2 DEF Moves
<1>12. ASSUME ReadHalf(p)
      PROVE  Moves(p, "reading", m.magic, m.mutex, m.holder, m.valid, m.data)
  <2>1. mem' = mem /\ m = mem[at[p]] /\ Has(m, m.magic, m.mutex, m.holder, m.valid, m.data)
    BY <1>1, <1>12 DEF ReadHalf, Has
  <2>2. Becomes(p, m.magic, m.mutex, m.holder, m.valid, m.data)
    BY <1>1, <2>1 DEF Becomes
  <2>3. /\ pc' = [pc EXCEPT ![p] = "reading"]
        /\ name' = name /\ used' = used /\ at' = at
        /\ value' = value /\ copy' = [copy EXCEPT ![p][1] = mem[at[p]].data[1]]
    BY <1>12 DEF ReadHalf, Goto
  <2>4. QED
    BY <1>1, <2>2, <2>3 DEF Moves
<1>13. ASSUME ReadRest(p)
      PROVE  Moves(p, "idle", m.magic, m.mutex, Null, m.valid, m.data)
  <2>1. Becomes(p, m.magic, m.mutex, Null, m.valid, m.data)
    BY <1>13, MemoryStep
  <2>2. /\ pc' = [pc EXCEPT ![p] = "idle"]
        /\ name' = name /\ used' = used /\ at' = at
        /\ value' = value /\ copy' = [copy EXCEPT ![p][2] = mem[at[p]].data[2]]
    BY <1>13 DEF ReadRest, Goto
  <2>3. QED
    BY <1>1, <2>1, <2>2 DEF Moves
<1>14. QED
    BY <1>2, <1>3, <1>4, <1>5, <1>6, <1>7, <1>8, <1>9, <1>10, <1>11, <1>12, <1>13

LEMMA TypesStep ==
    ASSUME TypeOK, Next PROVE TypeOK'
<1> USE DEF Places, Creating, Inside
<1>1. PICK p \in Users :
        \/ CreateOpen(p) \/ Create(p) \/ Open(p)
        \/ DeleteMutex(p) \/ DeleteUnlink(p)
        \/ (\E v \in Values : WriteLock(p, v)) \/ ReadLock(p) \/ Access(p)
        \/ Crash(p)
    BY DEF Next
<1> DEFINE m == mem[at[p]]
<1>2. CASE CreateOpen(p)
    BY <1>2, CacheConstants DEF CreateOpen, TypeOK, CacheAssumption, Goto
<1>3. CASE CreateFails(p)
    BY <1>3, CacheConstants DEF CreateFails, TypeOK, CacheAssumption, Goto
<1>4. CASE Open(p)
    BY <1>4, CacheConstants DEF Open, TypeOK, CacheAssumption, Goto
<1>5. CASE DeleteUnlink(p)
    BY <1>5, CacheConstants DEF DeleteUnlink, TypeOK, CacheAssumption, Goto
<1>6. CASE Crash(p)
    BY <1>6, CacheConstants DEF Crash, TypeOK, CacheAssumption, Goto
<1>7. CASE CreateClear(p)
  <2>1. pc[p] # "out"
    BY <1>7 DEF CreateClear
  <2>2. Moves(p, "magic", FALSE, "zero", Null, FALSE, <<0, 0>>)
    BY <1>7, <2>1, StepMoves
  <2>3. value' \in [Users -> Datum] /\ copy' \in [Users -> Datum \X Datum]
    BY <1>7 DEF CreateClear, TypeOK, Datum
  <2>4. QED
    BY <2>2, <2>3, TypesMove
<1>8. CASE CreateMagic(p)
  <2>1. pc[p] # "out"
    BY <1>8 DEF CreateMagic
  <2>2. Moves(p, "mutex", TRUE, m.mutex, m.holder, m.valid, m.data)
    BY <1>8, <2>1, StepMoves
  <2>3. value' \in [Users -> Datum] /\ copy' \in [Users -> Datum \X Datum]
    BY <1>8 DEF CreateMagic, TypeOK, Datum
  <2>4. QED
    BY <2>2, <2>3, TypesMove
<1>9. CASE CreateMutex(p)
  <2>1. pc[p] # "out"
    BY <1>9 DEF CreateMutex
  <2>2. Moves(p, "entries", m.magic, "ready", Null, m.valid, m.data)
    BY <1>9, <2>1, StepMoves
  <2>3. value' \in [Users -> Datum] /\ copy' \in [Users -> Datum \X Datum]
    BY <1>9 DEF CreateMutex, TypeOK, Datum
  <2>4. QED
    BY <2>2, <2>3, TypesMove
<1>10. CASE CreateEntries(p)
  <2>1. pc[p] # "out"
    BY <1>10 DEF CreateEntries
  <2>2. Moves(p, "idle", m.magic, m.mutex, m.holder, FALSE, m.data)
    BY <1>10, <2>1, StepMoves
  <2>3. value' \in [Users -> Datum] /\ copy' \in [Users -> Datum \X Datum]
    BY <1>10 DEF CreateEntries, TypeOK, Datum
  <2>4. QED
    BY <2>2, <2>3, TypesMove
<1>11. CASE DeleteMutex(p)
  <2>1. pc[p] # "out"
    BY <1>11 DEF DeleteMutex
  <2>2. Moves(p, "unlink", m.magic, Destroyed(m), m.holder, m.valid, m.data)
    BY <1>11, <2>1, StepMoves
  <2>3. value' \in [Users -> Datum] /\ copy' \in [Users -> Datum \X Datum]
    BY <1>11 DEF DeleteMutex, TypeOK, Datum
  <2>4. QED
    BY <2>2, <2>3, TypesMove
<1>12. ASSUME NEW w \in Values, WriteLock(p, w) PROVE TypeOK'
  <2>1. pc[p] # "out"
    BY <1>12 DEF WriteLock
  <2>2. Moves(p, "write", m.magic, m.mutex, Locked(p), m.valid, m.data)
    BY <1>12, <2>1, StepMoves
  <2>3. value' \in [Users -> Datum] /\ copy' \in [Users -> Datum \X Datum]
    BY <1>12 DEF WriteLock, TypeOK, Datum
  <2>4. QED
    BY <2>2, <2>3, TypesMove
<1>13. CASE WriteHalf(p)
  <2>1. pc[p] # "out"
    BY <1>13 DEF WriteHalf
  <2>2. Moves(p, "writing", m.magic, m.mutex, m.holder, m.valid, <<value[p], m.data[2]>>)
    BY <1>13, <2>1, StepMoves
  <2>3. value' \in [Users -> Datum] /\ copy' \in [Users -> Datum \X Datum]
    BY <1>13 DEF WriteHalf, TypeOK, Datum
  <2>4. QED
    BY <2>2, <2>3, TypesMove
<1>14. CASE WriteRest(p)
  <2>1. pc[p] # "out"
    BY <1>14 DEF WriteRest
  <2>2. Moves(p, "idle", m.magic, m.mutex, Null, TRUE, <<m.data[1], value[p]>>)
    BY <1>14, <2>1, StepMoves
  <2>3. value' \in [Users -> Datum] /\ copy' \in [Users -> Datum \X Datum]
    BY <1>14 DEF WriteRest, TypeOK, Datum
  <2>4. QED
    BY <2>2, <2>3, TypesMove
<1>15. CASE ReadLock(p)
  <2>1. pc[p] # "out"
    BY <1>15 DEF ReadLock
  <2>2. Moves(p, "read", m.magic, m.mutex, Locked(p), m.valid, m.data)
    BY <1>15, <2>1, StepMoves
  <2>3. value' \in [Users -> Datum] /\ copy' \in [Users -> Datum \X Datum]
    BY <1>15 DEF ReadLock, TypeOK, Datum
  <2>4. QED
    BY <2>2, <2>3, TypesMove
<1>16. CASE ReadInvalid(p)
  <2>1. pc[p] # "out"
    BY <1>16 DEF ReadInvalid
  <2>2. Moves(p, "idle", m.magic, m.mutex, Null, m.valid, m.data)
    BY <1>16, <2>1, StepMoves
  <2>3. value' \in [Users -> Datum] /\ copy' \in [Users -> Datum \X Datum]
    BY <1>16 DEF ReadInvalid, TypeOK, Datum
  <2>4. QED
    BY <2>2, <2>3, TypesMove
<1>17. CASE ReadHalf(p)
  <2>1. pc[p] # "out"
    BY <1>17 DEF ReadHalf
  <2>2. Moves(p, "reading", m.magic, m.mutex, m.holder, m.valid, m.data)
    BY <1>17, <2>1, StepMoves
  <2>3. mem[at[p]].data \in Datum \X Datum
    BY <2>1 DEF TypeOK, Datum
  <2>4. copy' = [copy EXCEPT ![p][1] = mem[at[p]].data[1]] /\ value' = value
    BY <1>17 DEF ReadHalf
  <2>5. value \in [Users -> Datum] /\ copy \in [Users -> Datum \X Datum]
    BY DEF TypeOK, Datum
  <2>6. PICK e \in Datum : e = mem[at[p]].data[1]
    BY <2>3
  <2>7. [copy[p] EXCEPT ![1] = e] \in Datum \X Datum
    BY <2>5
  <2>8. value' \in [Users -> Datum] /\ copy' \in [Users -> Datum \X Datum]
    BY <2>4, <2>5, <2>6, <2>7
  <2>9. QED
    BY <2>2, <2>8, TypesMove
<1>18. CASE ReadRest(p)
  <2>1. pc[p] # "out"
    BY <1>18 DEF ReadRest
  <2>2. Moves(p, "idle", m.magic, m.mutex, Null, m.valid, m.data)
    BY <1>18, <2>1, StepMoves
  <2>3. mem[at[p]].data \in Datum \X Datum
    BY <2>1 DEF TypeOK, Datum
  <2>4. copy' = [copy EXCEPT ![p][2] = mem[at[p]].data[2]] /\ value' = value
    BY <1>18 DEF ReadRest
  <2>5. value \in [Users -> Datum] /\ copy \in [Users -> Datum \X Datum]
    BY DEF TypeOK, Datum
  <2>6. PICK e \in Datum : e = mem[at[p]].data[2]
    BY <2>3
  <2>7. [copy[p] EXCEPT ![2] = e] \in Datum \X Datum
    BY <2>5
  <2>8. value' \in [Users -> Datum] /\ copy' \in [Users -> Datum \X Datum]
    BY <2>4, <2>5, <2>6, <2>7
  <2>9. QED
    BY <2>2, <2>8, TypesMove
<1>19. QED
    BY <1>1, <1>2, <1>3, <1>4, <1>5, <1>6, <1>7, <1>8, <1>9, <1>10, <1>11, <1>12,
       <1>13, <1>14, <1>15, <1>16, <1>17, <1>18 DEF Create, Access

(* The mutex of an object that is mapped is destroyed only by who deletes it.  *)
LEMMA MappedUsable ==
    ASSUME NameInv, HolderInv, NEW p \in Users, at[p] # Null, pc[p] # "unlink"
    PROVE  mem[at[p]].mutex # "destroyed"
<1>1. at[p] = name
    BY DEF NameInv, MappedIsNamed
<1>2. \A q \in Users : pc[q] = "unlink" => q = p
    BY DEF NameInv, MakersAreAlone
<1>3. QED
    BY <1>1, <1>2 DEF HolderInv, NameIsUsable

(* While the mutex of what is mapped is free nobody is inside.                *)
LEMMA FreeIsEmpty ==
    ASSUME TypeOK, NameInv, HolderInv, NEW p \in Users, at[p] # Null,
           mem[at[p]].holder = Null
    PROVE  \A q \in Users : pc[q] \notin Inside
<1>1. SUFFICES ASSUME NEW q \in Users, pc[q] \in Inside PROVE FALSE
    OBVIOUS
<1>2. at[q] # Null
    BY <1>1 DEF TypeOK, Inside
<1>3. at[q] = at[p]
    BY <1>2 DEF NameInv, MappedIsNamed
<1>4. QED
    BY <1>1, <1>3, CacheConstants DEF HolderInv, InsideHolds, CacheAssumption

(* A step that maps or unmaps an object, or renames, writes to no memory.      *)
LEMMA MapStep ==
    ASSUME TypeOK, NameInv, HolderInv, DataInv, ValidIsWritten, TypeOK',
           Freedoms \subseteq {"crash"}, NEW p \in Users,
           CreateOpen(p) \/ CreateFails(p) \/ Open(p) \/ DeleteUnlink(p) \/ Crash(p)
    PROVE  NameInv' /\ HolderInv' /\ DataInv' /\ ValidIsWritten'
<1>1. CASE CreateOpen(p)
  <2>1. NameIsUsed' /\ UnusedIsCleared'
    BY <1>1 DEF CreateOpen, TypeOK, NameInv, NameIsUsed, UnusedIsCleared
  <2>2. MappedIsNamed'
    BY <1>1, CacheConstants DEF CreateOpen, TypeOK, NameInv, MappedIsNamed,
       MakersAreAlone, Creating, CacheAssumption
  <2>3. MakersAreAlone'
    BY <1>1, CacheConstants DEF CreateOpen, Goto, TypeOK, NameInv, MakersAreAlone,
       MappedIsNamed, Creating, CacheAssumption
  <2>4. NameIsUsable'
    BY <1>1, CacheConstants DEF CreateOpen, Goto, TypeOK, HolderInv, NameIsUsable,
       NameInv, UnusedIsCleared, Cleared, MakersAreAlone, Creating, CacheAssumption
  <2>5. InsideHolds'
    BY <1>1 DEF CreateOpen, Goto, TypeOK, HolderInv, InsideHolds, Inside
  <2>6. NewIsFree'
    BY <1>1 DEF CreateOpen, Goto, TypeOK, HolderInv, NewIsFree, NameInv,
       UnusedIsCleared, Cleared, Creating
  <2>7. FreeIsWhole'
    BY <1>1 DEF CreateOpen, DataInv, FreeIsWhole, Whole
  <2>8. AccessIsWhole'
    BY <1>1 DEF CreateOpen, Goto, TypeOK, DataInv, AccessIsWhole, Whole
  <2>9. CopyIsWhole'
    BY <1>1 DEF CreateOpen, Goto, TypeOK, DataInv, CopyIsWhole, Whole
  <2>10. ValidIsWritten'
    BY <1>1 DEF CreateOpen, Goto, TypeOK, ValidIsWritten
  <2>11. QED
    BY <2>1, <2>2, <2>3, <2>4, <2>5, <2>6, <2>7, <2>8, <2>9, <2>10
       DEF NameInv, HolderInv, DataInv
<1>2. CASE CreateFails(p)
  <2>1. NameIsUsed' /\ UnusedIsCleared'
    BY <1>2 DEF CreateFails, TypeOK, NameInv, NameIsUsed, UnusedIsCleared
  <2>2. MappedIsNamed'
    BY <1>2, CacheConstants DEF CreateFails, TypeOK, NameInv, MappedIsNamed,
       MakersAreAlone, Creating, CacheAssumption
  <2>3. MakersAreAlone'
    BY <1>2, CacheConstants DEF CreateFails, Goto, TypeOK, NameInv, MakersAreAlone,
       MappedIsNamed, Creating, CacheAssumption
  <2>4. NameIsUsable'
    BY <1>2, CacheConstants DEF CreateFails, Goto, TypeOK, HolderInv, NameIsUsable,
       NameInv, UnusedIsCleared, Cleared, MakersAreAlone, Creating, CacheAssumption
  <2>5. InsideHolds'
    BY <1>2 DEF CreateFails, Goto, TypeOK, HolderInv, InsideHolds, Inside
  <2>6. NewIsFree'
    BY <1>2 DEF CreateFails, Goto, TypeOK, HolderInv, NewIsFree, NameInv,
       UnusedIsCleared, Cleared, Creating
  <2>7. FreeIsWhole'
    BY <1>2 DEF CreateFails, DataInv, FreeIsWhole, Whole
  <2>8. AccessIsWhole'
    BY <1>2 DEF CreateFails, Goto, TypeOK, DataInv, AccessIsWhole, Whole
  <2>9. CopyIsWhole'
    BY <1>2 DEF CreateFails, Goto, TypeOK, DataInv, CopyIsWhole, Whole
  <2>10. ValidIsWritten'
    BY <1>2 DEF CreateFails, Goto, TypeOK, ValidIsWritten
  <2>11. QED
    BY <2>1, <2>2, <2>3, <2>4, <2>5, <2>6, <2>7, <2>8, <2>9, <2>10
       DEF NameInv, HolderInv, DataInv
<1>3. CASE Open(p)
  <2>1. NameIsUsed' /\ UnusedIsCleared'
    BY <1>3 DEF Open, TypeOK, NameInv, NameIsUsed, UnusedIsCleared
  <2>2. MappedIsNamed'
    BY <1>3, CacheConstants DEF Open, TypeOK, NameInv, MappedIsNamed, MakersAreAlone,
       Creating, CacheAssumption
  <2>3. MakersAreAlone'
    BY <1>3, CacheConstants DEF Open, Goto, TypeOK, NameInv, MakersAreAlone,
       MappedIsNamed, Creating, CacheAssumption
  <2>4. NameIsUsable'
    BY <1>3, CacheConstants DEF Open, Goto, TypeOK, HolderInv, NameIsUsable, NameInv,
       UnusedIsCleared, Cleared, MakersAreAlone, Creating, CacheAssumption
  <2>5. InsideHolds'
    BY <1>3 DEF Open, Goto, TypeOK, HolderInv, InsideHolds, Inside
  <2>6. NewIsFree'
    BY <1>3 DEF Open, Goto, TypeOK, HolderInv, NewIsFree, NameInv, UnusedIsCleared,
       Cleared, Creating
  <2>7. FreeIsWhole'
    BY <1>3 DEF Open, DataInv, FreeIsWhole, Whole
  <2>8. AccessIsWhole'
    BY <1>3 DEF Open, Goto, TypeOK, DataInv, AccessIsWhole, Whole
  <2>9. CopyIsWhole'
    BY <1>3 DEF Open, Goto, TypeOK, DataInv, CopyIsWhole, Whole
  <2>10. ValidIsWritten'
    BY <1>3 DEF Open, Goto, TypeOK, ValidIsWritten
  <2>11. QED
    BY <2>1, <2>2, <2>3, <2>4, <2>5, <2>6, <2>7, <2>8, <2>9, <2>10
       DEF NameInv, HolderInv, DataInv
<1>4. CASE DeleteUnlink(p)
  <2>1. NameIsUsed' /\ UnusedIsCleared'
    BY <1>4 DEF DeleteUnlink, TypeOK, NameInv, NameIsUsed, UnusedIsCleared
  <2>2. MappedIsNamed'
    BY <1>4, CacheConstants DEF DeleteUnlink, TypeOK, NameInv, MappedIsNamed,
       MakersAreAlone, Creating, CacheAssumption
  <2>3. MakersAreAlone'
    BY <1>4, CacheConstants DEF DeleteUnlink, Goto, TypeOK, NameInv, MakersAreAlone,
       MappedIsNamed, Creating, CacheAssumption
  <2>4. NameIsUsable'
    BY <1>4, CacheConstants DEF DeleteUnlink, Goto, TypeOK, HolderInv, NameIsUsable,
       NameInv, UnusedIsCleared, Cleared, MakersAreAlone, Creating, CacheAssumption
  <2>5. InsideHolds'
    BY <1>4 DEF DeleteUnlink, Goto, TypeOK, HolderInv, InsideHolds, Inside
  <2>6. NewIsFree'
    BY <1>4 DEF DeleteUnlink, Goto, TypeOK, HolderInv, NewIsFree, NameInv,
       UnusedIsCleared, Cleared, Creating
  <2>7. FreeIsWhole'
    BY <1>4 DEF DeleteUnlink, DataInv, FreeIsWhole, Whole
  <2>8. AccessIsWhole'
    BY <1>4 DEF DeleteUnlink, Goto, TypeOK, DataInv, AccessIsWhole, Whole
  <2>9. CopyIsWhole'
    BY <1>4 DEF DeleteUnlink, Goto, TypeOK, DataInv, CopyIsWhole, Whole
  <2>10. ValidIsWritten'
    BY <1>4 DEF DeleteUnlink, Goto, TypeOK, ValidIsWritten
  <2>11. QED
    BY <2>1, <2>2, <2>3, <2>4, <2>5, <2>6, <2>7, <2>8, <2>9, <2>10
       DEF NameInv, HolderInv, DataInv
<1>5. CASE Crash(p)
  <2>1. NameIsUsed' /\ UnusedIsCleared'
    BY <1>5 DEF Crash, TypeOK, NameInv, NameIsUsed, UnusedIsCleared
  <2>2. MappedIsNamed'
    BY <1>5, CacheConstants DEF Crash, TypeOK, NameInv, MappedIsNamed, MakersAreAlone,
       Creating, CacheAssumption
  <2>3. MakersAreAlone'
    BY <1>5, CacheConstants DEF Crash, Goto, TypeOK, NameInv, MakersAreAlone,
       MappedIsNamed, Creating, CacheAssumption
  <2>4. NameIsUsable'
    BY <1>5, CacheConstants DEF Crash, Goto, TypeOK, HolderInv, NameIsUsable, NameInv,
       UnusedIsCleared, Cleared, MakersAreAlone, Creating, CacheAssumption
  <2>5. InsideHolds'
    BY <1>5 DEF Crash, Goto, TypeOK, HolderInv, InsideHolds, Inside
  <2>6. NewIsFree'
    BY <1>5 DEF Crash, Goto, TypeOK, HolderInv, NewIsFree, NameInv, UnusedIsCleared,
       Cleared, Creating
  <2>7. FreeIsWhole'
    BY <1>5 DEF Crash, DataInv, FreeIsWhole, Whole
  <2>8. AccessIsWhole'
    BY <1>5 DEF Crash, Goto, TypeOK, DataInv, AccessIsWhole, Whole
  <2>9. CopyIsWhole'
    BY <1>5 DEF Crash, Goto, TypeOK, DataInv, CopyIsWhole, Whole
  <2>10. ValidIsWritten'
    BY <1>5 DEF Crash, Goto, TypeOK, ValidIsWritten
  <2>11. QED
    BY <2>1, <2>2, <2>3, <2>4, <2>5, <2>6, <2>7, <2>8, <2>9, <2>10
       DEF NameInv, HolderInv, DataInv
<1>6. QED
    BY <1>1, <1>2, <1>3, <1>4, <1>5

LEMMA CacheStep ==
    ASSUME CacheInv, Freedoms \subseteq {"crash"}, Next PROVE CacheInv'
<1>1. TypeOK /\ NameInv /\ HolderInv /\ DataInv /\ ValidIsWritten
    BY DEF CacheInv
<1>2. TypeOK'
    BY <1>1, TypesStep
<1> SUFFICES NameInv' /\ HolderInv' /\ DataInv' /\ ValidIsWritten'
    BY <1>2 DEF CacheInv
<1>3. PICK p \in Users :
        \/ CreateOpen(p) \/ Create(p) \/ Open(p)
        \/ DeleteMutex(p) \/ DeleteUnlink(p)
        \/ (\E v \in Values : WriteLock(p, v)) \/ ReadLock(p) \/ Access(p)
        \/ Crash(p)
    BY DEF Next
<1> DEFINE m == mem[at[p]]
<1>4. CASE CreateOpen(p) \/ CreateFails(p) \/ Open(p) \/ DeleteUnlink(p) \/ Crash(p)
    BY <1>1, <1>2, <1>4, MapStep
<1>5. CASE CreateClear(p)
  <2>1. pc[p] # "out"
    BY <1>5 DEF CreateClear
  <2>2. PICK v, d : v = FALSE /\ d = <<0, 0>>
    OBVIOUS
  <2>3. Moves(p, "magic", FALSE, "zero", Null, v, d)
    BY <1>1, <1>5, <2>1, <2>2, StepMoves
  <2>4. at[p] # Null /\ at[p] \in Objects
    BY <1>1, <2>1 DEF TypeOK
  <2>5. \A q \in Users : q # p => at[q] = Null
    BY <1>1, <1>5, MakersAlone DEF CreateClear, Creating
  <2>6. m.holder = Null /\ Whole(m.data)
    BY <1>1, <1>5, <2>4 DEF HolderInv, NewIsFree, DataInv, FreeIsWhole, CreateClear,
       Creating
  <2>7. "magic" \notin Inside /\ "magic" \in Creating
    BY DEF Creating, Inside
  <2>8. NameInv'
    BY <1>1, <2>3, <2>7, <2>5, NamesMove
  <2>9. HolderInv'
    BY <1>1, <2>3, <2>7, <2>5, <2>6, <2>8, HoldersMove
  <2>10. value' = value /\ copy' = copy
    BY <1>1, <1>5 DEF CreateClear, TypeOK
  <2>11. Whole(copy[p])
    BY <1>1, <1>5 DEF DataInv, CopyIsWhole, CreateClear
  <2>12. Whole(d)
    BY <2>2 DEF Whole
  <2>13. DataInv'
    BY <1>1, <2>3, <2>5, <2>12, <2>10, <2>11, DataMove
  <2>14. Clean(v, d)
    BY <2>2 DEF Clean
  <2>15. ValidIsWritten'
    BY <1>1, <2>3, <2>7, <2>14, WrittenMove
  <2>16. QED
    BY <2>8, <2>9, <2>13, <2>15
<1>6. CASE CreateMagic(p)
  <2>1. pc[p] # "out"
    BY <1>6 DEF CreateMagic
  <2>2. PICK g : g = TRUE
    OBVIOUS
  <2>3. Moves(p, "mutex", g, m.mutex, m.holder, m.valid, m.data)
    BY <1>1, <1>6, <2>1, <2>2, StepMoves
  <2>4. at[p] # Null /\ at[p] \in Objects
    BY <1>1, <2>1 DEF TypeOK
  <2>5. \A q \in Users : q # p => at[q] = Null
    BY <1>1, <1>6, MakersAlone DEF CreateMagic, Creating
  <2>6. m.holder = Null /\ Whole(m.data)
    BY <1>1, <1>6, <2>4 DEF HolderInv, NewIsFree, DataInv, FreeIsWhole, CreateMagic,
       Creating
  <2>7. "mutex" \notin Inside /\ "mutex" \in Creating
    BY DEF Creating, Inside
  <2>8. NameInv'
    BY <1>1, <2>3, <2>7, <2>5, NamesMove
  <2>9. m.mutex # "destroyed"
    BY <1>1, <1>6, <2>4, MappedUsable DEF CreateMagic
  <2>10. HolderInv'
    BY <1>1, <2>3, <2>7, <2>5, <2>6, <2>9, <2>8, HoldersMove
  <2>11. value' = value /\ copy' = copy
    BY <1>1, <1>6 DEF CreateMagic, TypeOK
  <2>12. Whole(copy[p])
    BY <1>1, <1>6 DEF DataInv, CopyIsWhole, CreateMagic
  <2>13. DataInv'
    BY <1>1, <2>3, <2>5, <2>6, <2>11, <2>12, DataMove
  <2>14. Clean(m.valid, m.data)
    BY <1>1, <2>4 DEF Clean, ValidIsWritten
  <2>15. ValidIsWritten'
    BY <1>1, <2>3, <2>7, <2>14, WrittenMove
  <2>16. QED
    BY <2>8, <2>10, <2>13, <2>15
<1>7. CASE CreateMutex(p)
  <2>1. pc[p] # "out"
    BY <1>7 DEF CreateMutex
  <2>2. Moves(p, "entries", m.magic, "ready", Null, m.valid, m.data)
    BY <1>1, <1>7, <2>1, StepMoves
  <2>3. at[p] # Null /\ at[p] \in Objects
    BY <1>1, <2>1 DEF TypeOK
  <2>4. \A q \in Users : q # p => at[q] = Null
    BY <1>1, <1>7, MakersAlone DEF CreateMutex, Creating
  <2>5. m.holder = Null /\ Whole(m.data)
    BY <1>1, <1>7, <2>3 DEF HolderInv, NewIsFree, DataInv, FreeIsWhole, CreateMutex,
       Creating
  <2>6. "entries" \notin Inside /\ "entries" \in Creating
    BY DEF Creating, Inside
  <2>7. NameInv'
    BY <1>1, <2>2, <2>6, <2>4, NamesMove
  <2>8. HolderInv'
    BY <1>1, <2>2, <2>6, <2>4, <2>5, <2>7, HoldersMove
  <2>9. value' = value /\ copy' = copy
    BY <1>1, <1>7 DEF CreateMutex, TypeOK
  <2>10. Whole(copy[p])
    BY <1>1, <1>7 DEF DataInv, CopyIsWhole, CreateMutex
  <2>11. DataInv'
    BY <1>1, <2>2, <2>4, <2>5, <2>9, <2>10, DataMove
  <2>12. Clean(m.valid, m.data)
    BY <1>1, <2>3 DEF Clean, ValidIsWritten
  <2>13. ValidIsWritten'
    BY <1>1, <2>2, <2>6, <2>12, WrittenMove
  <2>14. QED
    BY <2>7, <2>8, <2>11, <2>13
<1>8. CASE CreateEntries(p)
  <2>1. pc[p] # "out"
    BY <1>8 DEF CreateEntries
  <2>2. PICK v : v = FALSE
    OBVIOUS
  <2>3. Moves(p, "idle", m.magic, m.mutex, m.holder, v, m.data)
    BY <1>1, <1>8, <2>1, <2>2, StepMoves
  <2>4. at[p] # Null /\ at[p] \in Objects
    BY <1>1, <2>1 DEF TypeOK
  <2>5. \A q \in Users : q # p => at[q] = Null
    BY <1>1, <1>8, MakersAlone DEF CreateEntries, Creating
  <2>6. m.holder = Null /\ Whole(m.data)
    BY <1>1, <1>8, <2>4 DEF HolderInv, NewIsFree, DataInv, FreeIsWhole, CreateEntries,
       Creating
  <2>7. "idle" \notin Inside /\ "idle" \notin Creating /\ "idle" # "unlink"
    BY DEF Creating, Inside
  <2>8. NameInv'
    BY <1>1, <2>3, <2>7, <2>5, NamesMove
  <2>9. m.mutex # "destroyed"
    BY <1>1, <1>8, <2>4, MappedUsable DEF CreateEntries
  <2>10. HolderInv'
    BY <1>1, <2>3, <2>7, <2>5, <2>6, <2>9, <2>8, HoldersMove
  <2>11. value' = value /\ copy' = copy
    BY <1>1, <1>8 DEF CreateEntries, TypeOK
  <2>12. Whole(copy[p])
    BY <1>1, <1>8 DEF DataInv, CopyIsWhole, CreateEntries
  <2>13. DataInv'
    BY <1>1, <2>3, <2>5, <2>6, <2>11, <2>12, DataMove
  <2>14. Clean(v, m.data)
    BY <2>2 DEF Clean
  <2>15. ValidIsWritten'
    BY <1>1, <2>3, <2>7, <2>14, WrittenMove
  <2>16. QED
    BY <2>8, <2>10, <2>13, <2>15
<1>9. CASE DeleteMutex(p)
  <2>1. pc[p] # "out"
    BY <1>9 DEF DeleteMutex
  <2>2. Moves(p, "unlink", m.magic, Destroyed(m), m.holder, m.valid, m.data)
    BY <1>1, <1>9, <2>1, StepMoves
  <2>3. at[p] # Null /\ at[p] \in Objects
    BY <1>1, <2>1 DEF TypeOK
  <2>4. \A q \in Users : q # p => at[q] = Null
    BY <1>1, <1>9, <2>3 DEF DeleteMutex, Mappers, NameInv, MappedIsNamed
  <2>5. m.holder = Null => Whole(m.data)
    BY <1>1, <2>3 DEF DataInv, FreeIsWhole
  <2>6. "unlink" \notin Inside /\ "unlink" \notin Creating
    BY DEF Creating, Inside
  <2>7. NameInv'
    BY <1>1, <2>2, <2>6, <2>4, NamesMove
  <2>8. HolderInv'
    BY <1>1, <2>2, <2>6, <2>4, <2>7, HoldersMove
  <2>9. value' = value /\ copy' = copy
    BY <1>1, <1>9 DEF DeleteMutex, TypeOK
  <2>10. Whole(copy[p])
    BY <1>1, <1>9 DEF DataInv, CopyIsWhole, DeleteMutex
  <2>11. DataInv'
    BY <1>1, <2>2, <2>4, <2>5, <2>9, <2>10, DataMove
  <2>12. Clean(m.valid, m.data)
    BY <1>1, <2>3 DEF Clean, ValidIsWritten
  <2>13. ValidIsWritten'
    BY <1>1, <2>2, <2>6, <2>12, WrittenMove
  <2>14. QED
    BY <2>7, <2>8, <2>11, <2>13
<1>10. ASSUME NEW w \in Values, WriteLock(p, w) PROVE NameInv' /\ HolderInv' /\ DataInv' /\ ValidIsWritten'
  <2>1. pc[p] # "out"
    BY <1>10 DEF WriteLock
  <2>2. Moves(p, "write", m.magic, m.mutex, Locked(p), m.valid, m.data)
    BY <1>1, <1>10, <2>1, StepMoves
  <2>3. at[p] # Null /\ at[p] \in Objects
    BY <1>1, <2>1 DEF TypeOK
  <2>4. m.mutex # "destroyed"
    BY <1>1, <1>10, <2>3, MappedUsable DEF WriteLock
  <2>5. m.holder = Null /\ Locked(p) = p
    BY <1>10, <2>4 DEF WriteLock, CanLock, Locked
  <2>6. \A q \in Users : pc[q] \notin Inside
    BY <1>1, <2>3, <2>5, FreeIsEmpty
  <2>7. Whole(m.data)
    BY <1>1, <2>3, <2>5 DEF DataInv, FreeIsWhole
  <2>8. "write" \in Inside /\ "write" \notin Creating /\ "write" # "unlink"
    BY DEF Creating, Inside
  <2>9. NameInv'
    BY <1>1, <2>2, <2>8, NamesMove
  <2>10. HolderInv'
    BY <1>1, <2>2, <2>8, <2>6, <2>4, <2>5, <2>9, HoldersMove
  <2>11. copy' = copy /\ value'[p] = w
    BY <1>1, <1>10 DEF WriteLock, TypeOK
  <2>12. Whole(copy[p])
    BY <1>1, <1>10 DEF DataInv, CopyIsWhole, WriteLock
  <2>13. DataInv'
    BY <1>1, <2>2, <2>6, <2>7, <2>11, <2>12, DataMove
  <2>14. Clean(m.valid, m.data)
    BY <1>1, <2>3 DEF Clean, ValidIsWritten
  <2>15. w # 0
    BY CacheConstants DEF CacheAssumption
  <2>16. ValidIsWritten'
    BY <1>1, <2>2, <2>8, <2>14, <2>15, <2>11, WrittenMove
  <2>17. QED
    BY <2>9, <2>10, <2>13, <2>16
<1>11. CASE WriteHalf(p)
  <2>1. pc[p] # "out"
    BY <1>11 DEF WriteHalf
  <2>2. PICK d : d = <<value[p], m.data[2]>>
    OBVIOUS
  <2>3. Moves(p, "writing", m.magic, m.mutex, m.holder, m.valid, d)
    BY <1>1, <1>11, <2>1, <2>2, StepMoves
  <2>4. at[p] # Null /\ at[p] \in Objects
    BY <1>1, <2>1 DEF TypeOK
  <2>5. pc[p] = "write" /\ pc[p] \in Inside
    BY <1>11 DEF WriteHalf, Inside
  <2>6. m.mutex # "destroyed" /\ m.holder = p
    BY <1>1, <2>4, <2>5, MappedUsable DEF HolderInv, InsideHolds, Inside
  <2>7. \A q \in Users : q # p => pc[q] \notin Inside
    BY <1>1, <2>5, InsideAlone
  <2>8. Whole(m.data)
    BY <1>1, <2>5 DEF DataInv, AccessIsWhole
  <2>9. "writing" \in Inside /\ "writing" \notin Creating /\ "writing" # "unlink"
    BY DEF Creating, Inside
  <2>10. NameInv'
    BY <1>1, <2>3, <2>9, NamesMove
  <2>11. HolderInv'
    BY <1>1, <2>3, <2>9, <2>7, <2>6, <2>10, HoldersMove
  <2>12. value' = value /\ copy' = copy
    BY <1>1, <1>11 DEF WriteHalf, TypeOK
  <2>13. Whole(copy[p])
    BY <1>1, <1>11 DEF DataInv, CopyIsWhole, WriteHalf
  <2>14. d[1] = value[p]
    BY <2>2
  <2>15. p # Null
    BY CacheConstants DEF CacheAssumption
  <2>16. DataInv'
    BY <1>1, <2>3, <2>7, <2>14, <2>15, <2>6, <2>12, <2>13, DataMove
  <2>17. value[p] # 0
    BY <1>1, <2>5 DEF ValidIsWritten
  <2>18. Clean(m.valid, d)
    BY <2>14, <2>17 DEF Clean
  <2>19. ValidIsWritten'
    BY <1>1, <2>3, <2>9, <2>12, <2>17, <2>18, WrittenMove
  <2>20. QED
    BY <2>10, <2>11, <2>16, <2>19
<1>12. CASE WriteRest(p)
  <2>1. pc[p] # "out"
    BY <1>12 DEF WriteRest
  <2>2. PICK v, d : v = TRUE /\ d = <<m.data[1], value[p]>>
    OBVIOUS
  <2>3. Moves(p, "idle", m.magic, m.mutex, Null, v, d)
    BY <1>1, <1>12, <2>1, <2>2, StepMoves
  <2>4. at[p] # Null /\ at[p] \in Objects
    BY <1>1, <2>1 DEF TypeOK
  <2>5. pc[p] = "writing" /\ pc[p] \in Inside
    BY <1>12 DEF WriteRest, Inside
  <2>6. m.mutex # "destroyed" /\ m.holder = p
    BY <1>1, <2>4, <2>5, MappedUsable DEF HolderInv, InsideHolds, Inside
  <2>7. \A q \in Users : q # p => pc[q] \notin Inside
    BY <1>1, <2>5, InsideAlone
  <2>8. m.data[1] = value[p]
    BY <1>1, <2>5 DEF DataInv, AccessIsWhole
  <2>9. "idle" \notin Inside /\ "idle" \notin Creating /\ "idle" # "unlink"
    BY DEF Creating, Inside
  <2>10. NameInv'
    BY <1>1, <2>3, <2>9, NamesMove
  <2>11. HolderInv'
    BY <1>1, <2>3, <2>9, <2>7, <2>6, <2>10, HoldersMove
  <2>12. value' = value /\ copy' = copy
    BY <1>1, <1>12 DEF WriteRest, TypeOK
  <2>13. Whole(copy[p])
    BY <1>1, <1>12 DEF DataInv, CopyIsWhole, WriteRest
  <2>14. Whole(d) /\ d[1] = value[p]
    BY <2>2, <2>8 DEF Whole
  <2>15. DataInv'
    BY <1>1, <2>3, <2>7, <2>14, <2>12, <2>13, DataMove
  <2>16. value[p] # 0
    BY <1>1, <2>5 DEF ValidIsWritten
  <2>17. Clean(v, d)
    BY <2>14, <2>16 DEF Clean
  <2>18. ValidIsWritten'
    BY <1>1, <2>3, <2>9, <2>12, <2>16, <2>17, WrittenMove
  <2>19. QED
    BY <2>10, <2>11, <2>15, <2>18
<1>13. CASE ReadLock(p)
  <2>1. pc[p] # "out"
    BY <1>13 DEF ReadLock
  <2>2. Moves(p, "read", m.magic, m.mutex, Locked(p), m.valid, m.data)
    BY <1>1, <1>13, <2>1, StepMoves
  <2>3. at[p] # Null /\ at[p] \in Objects
    BY <1>1, <2>1 DEF TypeOK
  <2>4. m.mutex # "destroyed"
    BY <1>1, <1>13, <2>3, MappedUsable DEF ReadLock
  <2>5. m.holder = Null /\ Locked(p) = p
    BY <1>13, <2>4 DEF ReadLock, CanLock, Locked
  <2>6. \A q \in Users : pc[q] \notin Inside
    BY <1>1, <2>3, <2>5, FreeIsEmpty
  <2>7. Whole(m.data)
    BY <1>1, <2>3, <2>5 DEF DataInv, FreeIsWhole
  <2>8. "read" \in Inside /\ "read" \notin Creating /\ "read" # "unlink"
    BY DEF Creating, Inside
  <2>9. NameInv'
    BY <1>1, <2>2, <2>8, NamesMove
  <2>10. HolderInv'
    BY <1>1, <2>2, <2>8, <2>6, <2>4, <2>5, <2>9, HoldersMove
  <2>11. value' = value /\ copy' = copy
    BY <1>1, <1>13 DEF ReadLock, TypeOK
  <2>12. Whole(copy[p])
    BY <1>1, <1>13 DEF DataInv, CopyIsWhole, ReadLock
  <2>13. DataInv'
    BY <1>1, <2>2, <2>6, <2>7, <2>11, <2>12, DataMove
  <2>14. Clean(m.valid, m.data)
    BY <1>1, <2>3 DEF Clean, ValidIsWritten
  <2>15. ValidIsWritten'
    BY <1>1, <2>2, <2>8, <2>14, WrittenMove
  <2>16. QED
    BY <2>9, <2>10, <2>13, <2>15
<1>14. CASE ReadInvalid(p)
  <2>1. pc[p] # "out"
    BY <1>14 DEF ReadInvalid
  <2>2. Moves(p, "idle", m.magic, m.mutex, Null, m.valid, m.data)
    BY <1>1, <1>14, <2>1, StepMoves
  <2>3. at[p] # Null /\ at[p] \in Objects
    BY <1>1, <2>1 DEF TypeOK
  <2>4. pc[p] = "read" /\ pc[p] \in Inside
    BY <1>14 DEF ReadInvalid, Inside
  <2>5. m.mutex # "destroyed" /\ m.holder = p
    BY <1>1, <2>3, <2>4, MappedUsable DEF HolderInv, InsideHolds, Inside
  <2>6. \A q \in Users : q # p => pc[q] \notin Inside
    BY <1>1, <2>4, InsideAlone
  <2>7. Whole(m.data)
    BY <1>1, <2>4 DEF DataInv, AccessIsWhole
  <2>8. "idle" \notin Inside /\ "idle" \notin Creating /\ "idle" # "unlink"
    BY DEF Creating, Inside
  <2>9. NameInv'
    BY <1>1, <2>2, <2>8, NamesMove
  <2>10. HolderInv'
    BY <1>1, <2>2, <2>8, <2>6, <2>5, <2>9, HoldersMove
  <2>11. value' = value /\ copy' = copy
    BY <1>1, <1>14 DEF ReadInvalid, TypeOK
  <2>12. Whole(copy[p])
    BY <1>1, <1>14 DEF DataInv, CopyIsWhole, ReadInvalid
  <2>13. DataInv'
    BY <1>1, <2>2, <2>6, <2>7, <2>11, <2>12, DataMove
  <2>14. Clean(m.valid, m.data)
    BY <1>1, <2>3 DEF Clean, ValidIsWritten
  <2>15. ValidIsWritten'
    BY <1>1, <2>2, <2>8, <2>14, WrittenMove
  <2>16. QED
    BY <2>9, <2>10, <2>13, <2>15
<1>15. CASE ReadHalf(p)
  <2>1. pc[p] # "out"
    BY <1>15 DEF ReadHalf
  <2>2. Moves(p, "reading", m.magic, m.mutex, m.holder, m.valid, m.data)
    BY <1>1, <1>15, <2>1, StepMoves
  <2>3. at[p] # Null /\ at[p] \in Objects
    BY <1>1, <2>1 DEF TypeOK
  <2>4. pc[p] = "read" /\ pc[p] \in Inside
    BY <1>15 DEF ReadHalf, Inside
  <2>5. m.mutex # "destroyed" /\ m.holder = p
    BY <1>1, <2>3, <2>4, MappedUsable DEF HolderInv, InsideHolds, Inside
  <2>6. \A q \in Users : q # p => pc[q] \notin Inside
    BY <1>1, <2>4, InsideAlone
  <2>7. Whole(m.data)
    BY <1>1, <2>4 DEF DataInv, AccessIsWhole
  <2>8. "reading" \in Inside /\ "reading" \notin Creating /\ "reading" # "unlink"
    BY DEF Creating, Inside
  <2>9. NameInv'
    BY <1>1, <2>2, <2>8, NamesMove
  <2>10. HolderInv'
    BY <1>1, <2>2, <2>8, <2>6, <2>5, <2>9, HoldersMove
  <2>11. value' = value /\ copy'[p][1] = m.data[1]
    BY <1>1, <1>15 DEF ReadHalf, TypeOK
  <2>12. Clean(m.valid, m.data) /\ m.data[1] # 0
    BY <1>1, <1>15, <2>3 DEF ReadHalf, Clean, ValidIsWritten
  <2>13. DataInv'
    BY <1>1, <2>2, <2>5, <2>6, <2>7, <2>11, DataMove
  <2>14. ValidIsWritten'
    BY <1>1, <2>2, <2>11, <2>12, WrittenMove
  <2>15. QED
    BY <2>9, <2>10, <2>13, <2>14
<1>16. CASE ReadRest(p)
  <2>1. pc[p] # "out"
    BY <1>16 DEF ReadRest
  <2>2. Moves(p, "idle", m.magic, m.mutex, Null, m.valid, m.data)
    BY <1>1, <1>16, <2>1, StepMoves
  <2>3. at[p] # Null /\ at[p] \in Objects
    BY <1>1, <2>1 DEF TypeOK
  <2>4. pc[p] = "reading" /\ pc[p] \in Inside
    BY <1>16 DEF ReadRest, Inside
  <2>5. m.mutex # "destroyed" /\ m.holder = p
    BY <1>1, <2>3, <2>4, MappedUsable DEF HolderInv, InsideHolds, Inside
  <2>6. \A q \in Users : q # p => pc[q] \notin Inside
    BY <1>1, <2>4, InsideAlone
  <2>7. Whole(m.data)
    BY <1>1, <2>4 DEF DataInv, AccessIsWhole
  <2>8. "idle" \notin Inside /\ "idle" \notin Creating /\ "idle" # "unlink"
    BY DEF Creating, Inside
  <2>9. NameInv'
    BY <1>1, <2>2, <2>8, NamesMove
  <2>10. HolderInv'
    BY <1>1, <2>2, <2>8, <2>6, <2>5, <2>9, HoldersMove
  <2>11. value' = value /\ copy'[p][1] = copy[p][1] /\ copy'[p][2] = m.data[2]
    BY <1>1, <1>16 DEF ReadRest, TypeOK
  <2>12. copy[p][1] = m.data[1]
    BY <1>1, <2>4 DEF DataInv, CopyIsWhole
  <2>13. Whole(copy'[p])
    BY <2>7, <2>11, <2>12 DEF Whole
  <2>14. DataInv'
    BY <1>1, <2>2, <2>6, <2>7, <2>13, DataMove
  <2>15. Clean(m.valid, m.data)
    BY <1>1, <2>3 DEF Clean, ValidIsWritten
  <2>16. ValidIsWritten'
    BY <1>1, <2>2, <2>8, <2>15, WrittenMove
  <2>17. QED
    BY <2>9, <2>10, <2>14, <2>16
<1>17. QED
    BY <1>3, <1>4, <1>5, <1>6, <1>7, <1>8, <1>9, <1>10, <1>11, <1>12, <1>13, <1>14,
       <1>15, <1>16 DEF Create, Access

THEOREM CacheInvariant ==
    ASSUME Freedoms \subseteq {"crash"} PROVE Spec => []CacheInv
<1>1. Init => CacheInv
    BY InitCache
<1>2. CacheInv /\ [Next]_vars => CacheInv'
  <2>1. ASSUME CacheInv, Next PROVE CacheInv'
    BY <2>1, CacheStep
  <2>2. ASSUME CacheInv, UNCHANGED vars PROVE CacheInv'
    <3>1. TypeOK'
        BY <2>2 DEF CacheInv, TypeOK, vars
    <3>2. NameInv'
        BY <2>2 DEF CacheInv, NameInv, NameIsUsed, UnusedIsCleared, MappedIsNamed,
                    MakersAreAlone, vars
    <3>3. HolderInv'
        BY <2>2 DEF CacheInv, HolderInv, NameIsUsable, InsideHolds, NewIsFree, vars
    <3>4. DataInv'
        BY <2>2 DEF CacheInv, DataInv, FreeIsWhole, AccessIsWhole, CopyIsWhole,
                    Whole, vars
    <3>5. ValidIsWritten'
        BY <2>2 DEF CacheInv, ValidIsWritten, vars
    <3>6. QED
        BY <3>1, <3>2, <3>3, <3>4, <3>5 DEF CacheInv
  <2>3. QED
    BY <2>1, <2>2
<1>3. QED
    BY <1>1, <1>2, PTL DEF Spec

(* Every field of the cache and of its processes has its type, however they   *)
(* use it, and a process has something mapped just while it is not out.       *)
THEOREM CacheTypes == Spec => []TypeOK
<1>1. Init => TypeOK
    BY InitCache DEF CacheInv
<1>2. TypeOK /\ [Next]_vars => TypeOK'
  <2>1. TypeOK /\ UNCHANGED vars => TypeOK'
    BY DEF TypeOK, vars
  <2>2. QED
    BY <2>1, TypesStep
<1>3. QED
    BY <1>1, <1>2, PTL DEF Spec

(* A read returns the data of one write, for any processes, objects and       *)
(* values, while the cache is used as it is meant to be, also when processes   *)
(* die inside their calls (osal_cache_read, osal_cache_write).               *)
THEOREM ReadsAreWhole ==
    ASSUME Freedoms \subseteq {"crash"} PROVE Spec => []ReadIsWhole
<1>1. CacheInv => ReadIsWhole
    BY DEF CacheInv, DataInv, CopyIsWhole, Whole, ValidIsWritten, ReadIsWhole
<1>2. QED
    BY <1>1, CacheInvariant, PTL
-----------------------------------------------------------------------------
(* The times of entries.  What was written lately is what the time stamp says;   *)
(* what a reader was told it would be told again, as long as nothing happens;    *)
(* and the statistics are those of this moment, or cleared.                   *)
Stamp == [valid : BOOLEAN, status : Fresh!Statuses, timestamp : Nat, validity : Nat]

FreshTypes ==
    /\ now \in 0 .. MaxNow
    /\ entry \in [Entries -> Stamp] /\ written \in [Entries -> Nat]
    /\ marked \subseteq Entries

StampsAreRight ==
    \A e \in Entries : entry[e].valid =>
       /\ entry[e].timestamp = written[e] /\ written[e] <= now
       /\ entry[e].status # "INVALID"

ResultsStand ==
    /\ result \in [Entries -> Fresh!Statuses \union {"none"}]
    /\ \A e \in Entries : result[e] # "none" => entry[e].valid /\ result[e] = Fresh!Told(e)

WithData == {e \in Entries : entry[e].valid}
ToldAs(status) == {e \in WithData : Fresh!Told(e) = status}

CountsStand ==
    \/ counts = [valid |-> 0, fresh |-> 0, stale |-> 0]
    \/ counts = [valid |-> Cardinality(WithData), fresh |-> Cardinality(ToldAs("FRESH")),
                 stale |-> Cardinality(ToldAs("STALE"))]

FreshInv == FreshTypes /\ StampsAreRight /\ ResultsStand /\ CountsStand

LEMMA FreshConstants ==
    /\ IsFiniteSet(Entries) /\ Validities \subseteq Nat
    /\ MaxNow \in Nat /\ AgeWord \in Nat \ {0}
<1>1. Fresh!IsFiniteSet(Entries) => IsFiniteSet(Entries)
    BY DEF Fresh!IsFiniteSet, IsFiniteSet
<1> QED
    BY <1>1, UserConstants DEF Fresh!FreshnessAssumption

LEMMA InitFresh == Fresh!Init => FreshInv
<1> SUFFICES ASSUME Fresh!Init PROVE FreshInv
    OBVIOUS
<1>1. FreshTypes
    BY FreshConstants DEF Fresh!Init, FreshTypes, Stamp, Fresh!Statuses
<1>2. StampsAreRight /\ ResultsStand
    BY DEF Fresh!Init, StampsAreRight, ResultsStand
<1>3. CountsStand
    BY DEF Fresh!Init, CountsStand
<1> QED
    BY <1>1, <1>2, <1>3 DEF FreshInv

(* What every step has to show: the results of a call that writes are cleared   *)
(* where it writes.                                                          *)
LEMMA StepFresh == FreshInv /\ [Fresh!Next]_freshVars => FreshInv'
<1> SUFFICES ASSUME FreshInv, [Fresh!Next]_freshVars PROVE FreshInv'
    OBVIOUS
<1> USE DEF FreshInv
<1>0. FreshTypes /\ StampsAreRight /\ ResultsStand /\ CountsStand
    OBVIOUS
<1>1. CASE UNCHANGED freshVars
    <2>1. FreshTypes' /\ StampsAreRight'
        BY <1>0, <1>1 DEF freshVars, FreshTypes, StampsAreRight
    <2>2. ResultsStand'
        BY <1>0, <1>1 DEF freshVars, ResultsStand, Fresh!Told, Fresh!Age
    <2>3. CountsStand'
        BY <1>0, <1>1 DEF freshVars, CountsStand, WithData, ToldAs, Fresh!Told, Fresh!Age
    <2> QED
        BY <2>1, <2>2, <2>3
<1>2. CASE Fresh!Tick
    <2>1. FreshTypes'
        BY <1>0, <1>2, FreshConstants DEF FreshTypes, Fresh!Tick
    <2>2. StampsAreRight'
        BY <1>0, <1>2, FreshConstants DEF FreshTypes, StampsAreRight, Fresh!Tick
    <2>3. ResultsStand'
        BY <1>2 DEF ResultsStand, Fresh!Tick
    <2>4. CountsStand'
        BY <1>2 DEF CountsStand, Fresh!Tick
    <2> QED
        BY <2>1, <2>2, <2>3, <2>4
<1>3. ASSUME NEW e \in Entries, NEW validity \in Validities, Fresh!Write(e, validity)
      PROVE  FreshInv'
    <2> DEFINE new == [valid |-> TRUE, status |-> "FRESH", validity |-> validity,
                       timestamp |-> now]
    <2>0. new \in Stamp /\ now \in Nat
        BY <1>0, FreshConstants DEF FreshTypes, Stamp, Fresh!Statuses
    <2>1. entry' = [entry EXCEPT ![e] = new]
        BY <1>3 DEF Fresh!Write
    <2>a. new.valid = TRUE /\ new.status = "FRESH" /\ new.timestamp = now
        OBVIOUS
    <2> HIDE DEF new
    <2>2. FreshTypes'
        BY <1>0, <1>3, <2>0, <2>1 DEF FreshTypes, Fresh!Write
    <2>3. StampsAreRight'
        BY <1>0, <1>3, <2>0, <2>1, <2>a DEF FreshTypes, StampsAreRight, Fresh!Write
    <2>4. ResultsStand'
        <3>1. result' = [result EXCEPT ![e] = "none"] /\ now' = now
            BY <1>3 DEF Fresh!Write, Fresh!Forget
        <3>2. \A d \in Entries : d # e => entry'[d] = entry[d]
            BY <1>0, <2>1 DEF FreshTypes
        <3>3. ASSUME NEW d \in Entries, result'[d] # "none"
              PROVE  entry'[d].valid /\ result'[d] = Fresh!Told(d)'
            <4>1. d # e /\ result'[d] = result[d]
                BY <1>0, <3>1, <3>3 DEF ResultsStand
            <4> QED
                BY <1>0, <3>1, <3>2, <3>3, <4>1 DEF ResultsStand, Fresh!Told, Fresh!Age
        <3> QED
            BY <1>0, <3>1, <3>3 DEF ResultsStand
    <2>5. CountsStand'
        BY <1>3 DEF CountsStand, Fresh!Write, Fresh!Forget
    <2> QED
        BY <2>2, <2>3, <2>4, <2>5
<1>4. ASSUME NEW e \in Entries, Fresh!Invalidate(e) PROVE FreshInv'
    <2> DEFINE new == [entry[e] EXCEPT !.status = "STALE"]
    <2>0. new \in Stamp
        BY <1>0 DEF FreshTypes, Stamp, Fresh!Statuses
    <2>1. entry' = [entry EXCEPT ![e] = new]
        BY <1>4 DEF Fresh!Invalidate
    <2>a. new.valid = entry[e].valid /\ new.status = "STALE" /\ new.timestamp = entry[e].timestamp
        BY <1>0 DEF FreshTypes, Stamp
    <2> HIDE DEF new
    <2>2. FreshTypes'
        BY <1>0, <1>4, <2>0, <2>1 DEF FreshTypes, Fresh!Invalidate
    <2>3. StampsAreRight'
        BY <1>0, <1>4, <2>0, <2>1, <2>a DEF FreshTypes, StampsAreRight, Fresh!Invalidate
    <2>4. ResultsStand'
        <3>1. result' = [result EXCEPT ![e] = "none"] /\ now' = now
            BY <1>4 DEF Fresh!Invalidate, Fresh!Forget
        <3>2. \A d \in Entries : d # e => entry'[d] = entry[d]
            BY <1>0, <2>1 DEF FreshTypes
        <3>3. ASSUME NEW d \in Entries, result'[d] # "none"
              PROVE  entry'[d].valid /\ result'[d] = Fresh!Told(d)'
            <4>1. d # e /\ result'[d] = result[d]
                BY <1>0, <3>1, <3>3 DEF ResultsStand
            <4> QED
                BY <1>0, <3>1, <3>2, <3>3, <4>1 DEF ResultsStand, Fresh!Told, Fresh!Age
        <3> QED
            BY <1>0, <3>1, <3>3 DEF ResultsStand
    <2>5. CountsStand'
        BY <1>4 DEF CountsStand, Fresh!Invalidate, Fresh!Forget
    <2> QED
        BY <2>2, <2>3, <2>4, <2>5
<1>5. ASSUME NEW e \in Entries, Fresh!Read(e) PROVE FreshInv'
    <2>1. FreshTypes' /\ StampsAreRight'
        BY <1>0, <1>5 DEF Fresh!Read, FreshTypes, StampsAreRight
    <2>2. Fresh!Told(e) \in Fresh!Statuses
        BY DEF Fresh!Told, Fresh!Statuses
    <2>3. \A d \in Entries : Fresh!Told(d)' = Fresh!Told(d)
        BY <1>5 DEF Fresh!Read, Fresh!Told, Fresh!Age
    <2>4. ResultsStand'
        BY <1>0, <1>5, <2>2, <2>3 DEF Fresh!Read, ResultsStand
    <2>5. CountsStand'
        BY <1>0, <1>5, <2>3 DEF Fresh!Read, CountsStand, WithData, ToldAs
    <2> QED
        BY <2>1, <2>4, <2>5
<1>6. CASE Fresh!GetStats
    <2>1. FreshTypes' /\ StampsAreRight'
        BY <1>0, <1>6 DEF Fresh!GetStats, FreshTypes, StampsAreRight
    <2>2. \A d \in Entries : Fresh!Told(d)' = Fresh!Told(d)
        BY <1>6 DEF Fresh!GetStats, Fresh!Told, Fresh!Age
    <2>3. ResultsStand'
        BY <1>0, <1>6, <2>2 DEF Fresh!GetStats, ResultsStand
    <2>4. \A S : Fresh!Cardinality(S) = Cardinality(S)
        BY DEF Fresh!Cardinality, Cardinality
    <2>5. WithData' = WithData /\ \A status : ToldAs(status)' = ToldAs(status)
        BY <1>6, <2>2 DEF Fresh!GetStats, WithData, ToldAs
    <2>6. \A status : Fresh!Count(status) = Cardinality(ToldAs(status))
        BY <2>4 DEF Fresh!Count, ToldAs, WithData
    <2>7. counts' = [valid |-> Cardinality(WithData), fresh |-> Cardinality(ToldAs("FRESH")),
                     stale |-> Cardinality(ToldAs("STALE"))]
        BY <1>6, <2>4, <2>6 DEF Fresh!GetStats, WithData
    <2>8. CountsStand'
        BY <2>5, <2>7 DEF CountsStand
    <2> QED
        BY <2>1, <2>3, <2>8
<1> QED
    BY <1>1, <1>2, <1>3, <1>4, <1>5, <1>6 DEF Fresh!Next

LEMMA FreshAnswers == FreshInv => AnswersInTime
<1> SUFFICES ASSUME FreshInv PROVE AnswersInTime
    OBVIOUS
<1>0. FreshTypes /\ StampsAreRight /\ ResultsStand /\ CountsStand
    BY DEF FreshInv
<1>1. ASSUME NEW e \in Entries, entry[e].valid
      PROVE  /\ entry[e].status # "INVALID"
             /\ Fresh!Age(e) <= now - written[e]
             /\ now - written[e] < AgeWord => Fresh!Age(e) = now - written[e]
    <2>1. /\ entry[e].timestamp = written[e] /\ written[e] <= now
          /\ entry[e].status # "INVALID" /\ written[e] \in Nat /\ now \in 0 .. MaxNow
        BY <1>0, <1>1 DEF FreshTypes, StampsAreRight
    <2> DEFINE age == now - written[e]
    <2>2. age \in Nat /\ AgeWord \in Nat \ {0} /\ Fresh!Age(e) = age % AgeWord
        BY <2>1, FreshConstants DEF Fresh!Age
    <2> HIDE DEF age
    <2>3. age < AgeWord => age % AgeWord = age
        BY <2>2
    <2>4. age % AgeWord \in 0 .. AgeWord - 1
        BY <2>2
    <2>5. age % AgeWord <= age
        BY <2>2, <2>3, <2>4
    <2> QED
        BY <2>1, <2>2, <2>3, <2>5 DEF age
<1>a. ASSUME NEW e \in Entries
      PROVE  /\ now - written[e] \in Int /\ entry[e].validity \in Int /\ AgeWord \in Int
             /\ Fresh!Age(e) \in Int
    BY <1>0, FreshConstants DEF FreshTypes, Stamp, Fresh!Age
<1>2. Fresh!FreshIsInTime
    <2>1. ASSUME NEW e \in Entries, result[e] = "FRESH"
          PROVE  /\ entry[e].valid
                 /\ now - written[e] < entry[e].validity \/ now - written[e] >= AgeWord
        <3>1. entry[e].valid /\ Fresh!Told(e) = "FRESH"
            BY <1>0, <2>1 DEF ResultsStand
        <3>2. Fresh!Age(e) < entry[e].validity
            BY <3>1 DEF Fresh!Told
        <3> QED
            BY <1>1, <1>a, <3>1, <3>2
    <2> QED
        BY <2>1 DEF Fresh!FreshIsInTime
<1>3. Fresh!StaleIsLate
    <2>1. ASSUME NEW e \in Entries, result[e] = "STALE" PROVE now - written[e] >= entry[e].validity
        <3>1. entry[e].valid /\ Fresh!Told(e) = "STALE"
            BY <1>0, <2>1 DEF ResultsStand
        <3>2. ~ (Fresh!Age(e) < entry[e].validity)
            BY <1>1, <3>1 DEF Fresh!Told
        <3> QED
            BY <1>1, <1>a, <3>1, <3>2
    <2> QED
        BY <2>1 DEF Fresh!StaleIsLate
<1>4. Fresh!StatsAgree
    <2> DEFINE fresh == ToldAs("FRESH")
               stale == ToldAs("STALE")
    <2>1. fresh \subseteq Entries /\ stale \subseteq Entries /\ fresh \cap stale = {}
        BY DEF ToldAs, WithData
    <2>2. WithData = fresh \cup stale
        BY <1>1 DEF ToldAs, WithData, Fresh!Told
    <2>3. IsFiniteSet(fresh) /\ IsFiniteSet(stale)
        BY <2>1, FreshConstants, FS_Subset
    <2>4. Cardinality(WithData) = Cardinality(fresh) + Cardinality(stale)
        <3>1. Cardinality(fresh \cap stale) = 0
            BY <2>1, FS_EmptySet
        <3>2. Cardinality(fresh) \in Nat /\ Cardinality(stale) \in Nat
            BY <2>3, FS_CardinalityType
        <3>3. Cardinality(fresh \cup stale) =
                 Cardinality(fresh) + Cardinality(stale) - Cardinality(fresh \cap stale)
            BY <2>3, FS_Union
        <3> HIDE DEF fresh, stale
        <3> QED
            BY <2>2, <3>1, <3>2, <3>3
    <2>5. counts.fresh + counts.stale = counts.valid
        BY <1>0, <2>4 DEF CountsStand
    <2>6. ASSUME {e \in Entries : result[e] # "none"} = Entries, counts.valid > 0
          PROVE  counts.fresh = Fresh!Cardinality({e \in Entries : result[e] = "FRESH"})
        <3>1. counts.fresh = Cardinality(fresh)
            BY <1>0, <2>6 DEF CountsStand
        <3>2. fresh = {e \in Entries : result[e] = "FRESH"}
            BY <1>0, <2>6 DEF ResultsStand, ToldAs, WithData
        <3>3. \A S : Fresh!Cardinality(S) = Cardinality(S)
            BY DEF Fresh!Cardinality, Cardinality
        <3> QED
            BY <3>1, <3>2, <3>3
    <2> QED
        BY <2>5, <2>6 DEF Fresh!StatsAgree
<1> QED
    BY <1>2, <1>3, <1>4 DEF AnswersInTime
-----------------------------------------------------------------------------
(* The locks of files: what an object says of its lock is kept with it.       *)
FlockPlaces == {"none", "idle", "wait", "try", "sleep"}

FlockInv ==
    /\ held \in [Lockers -> Flock!Types \cup {"none"}]
    /\ isLocked \in [Lockers -> BOOLEAN] /\ currentType \in [Lockers -> Flock!Types]
    /\ flockPc \in [Lockers -> FlockPlaces] /\ wish \in [Lockers -> Flock!Types]
    /\ timeout \in [Lockers -> Nat] /\ start \in [Lockers -> Nat] /\ clock \in Nat
    /\ Flock!LocksAreTrue

LEMMA FlockConstants ==
    /\ LockTimeouts \subseteq Nat \ {0} /\ MaxClock \in Nat
    /\ NsPerMs \in Nat \ {0} /\ MsPerSec \in Nat \ {0}
BY UserConstants DEF Flock!FlockAssumption

LEMMA InitFlock == Flock!Init => FlockInv
BY DEF Flock!Init, FlockInv, FlockPlaces, Flock!Types, Flock!LocksAreTrue

(* The kernel grants a lock only to who is in nobody's way.                     *)
LEMMA GrantKeeps ==
    ASSUME FlockInv, NEW p \in Lockers, NEW kind \in Flock!Types, Flock!Grant(p, kind)
    PROVE  /\ held' \in [Lockers -> Flock!Types \cup {"none"}]
           /\ isLocked' \in [Lockers -> BOOLEAN] /\ currentType' \in [Lockers -> Flock!Types]
           /\ Flock!LocksAreTrue'
<1>1. /\ held' = [held EXCEPT ![p] = kind] /\ isLocked' = [isLocked EXCEPT ![p] = TRUE]
      /\ currentType' = [currentType EXCEPT ![p] = kind]
    BY DEF Flock!Grant
<1>2. \A q \in Lockers : q # p =>
         held[q] # "exclusive" /\ (kind = "exclusive" => held[q] = "none")
    BY DEF Flock!Grant, Flock!Blockers
<1>3. /\ held' \in [Lockers -> Flock!Types \cup {"none"}]
      /\ isLocked' \in [Lockers -> BOOLEAN] /\ currentType' \in [Lockers -> Flock!Types]
    BY <1>1 DEF FlockInv
<1>4. \A q \in Lockers : held'[q] = IF isLocked'[q] THEN currentType'[q] ELSE "none"
    BY <1>1 DEF FlockInv, Flock!LocksAreTrue
<1>5. \A q, r \in Lockers :
         isLocked'[q] /\ currentType'[q] = "exclusive" /\ r # q => ~isLocked'[r]
    BY <1>1, <1>2 DEF FlockInv, Flock!LocksAreTrue, Flock!Types
<1> QED
    BY <1>3, <1>4, <1>5 DEF Flock!LocksAreTrue

(* A process that gives up its lock.                                         *)
LEMMA ReleaseKeeps ==
    ASSUME FlockInv, NEW p \in Lockers,
           held' = [held EXCEPT ![p] = "none"],
           isLocked' = [isLocked EXCEPT ![p] = FALSE],
           \/ UNCHANGED currentType
           \/ currentType' = [currentType EXCEPT ![p] = "shared"]
    PROVE  /\ held' \in [Lockers -> Flock!Types \cup {"none"}]
           /\ isLocked' \in [Lockers -> BOOLEAN] /\ currentType' \in [Lockers -> Flock!Types]
           /\ Flock!LocksAreTrue'
<1>1. /\ held' \in [Lockers -> Flock!Types \cup {"none"}]
      /\ isLocked' \in [Lockers -> BOOLEAN] /\ currentType' \in [Lockers -> Flock!Types]
    BY DEF FlockInv, Flock!Types
<1>2. \A q \in Lockers : q # p => currentType'[q] = currentType[q]
    BY DEF FlockInv
<1>3. Flock!LocksAreTrue'
    BY <1>2 DEF FlockInv, Flock!LocksAreTrue
<1> QED
    BY <1>1, <1>3

LEMMA StepFlock == FlockInv /\ [Flock!Next]_flockVars => FlockInv'
<1> SUFFICES ASSUME FlockInv, [Flock!Next]_flockVars PROVE FlockInv'
    OBVIOUS
<1> DEFINE Locks ==
        /\ held \in [Lockers -> Flock!Types \cup {"none"}]
        /\ isLocked \in [Lockers -> BOOLEAN] /\ currentType \in [Lockers -> Flock!Types]
        /\ Flock!LocksAreTrue
           Calls ==
        /\ flockPc \in [Lockers -> FlockPlaces] /\ wish \in [Lockers -> Flock!Types]
        /\ timeout \in [Lockers -> Nat] /\ start \in [Lockers -> Nat] /\ clock \in Nat
<1>0. Locks /\ Calls
    BY DEF FlockInv
<1>a. UNCHANGED <<held, isLocked, currentType>> => Locks'
    BY <1>0 DEF Flock!LocksAreTrue
<1> SUFFICES Locks' /\ Calls'
    BY DEF FlockInv
<1>1. CASE UNCHANGED flockVars
    BY <1>0, <1>1, <1>a DEF flockVars
<1>2. CASE Flock!Tick \/ Flock!Restart
    <2>1. UNCHANGED <<held, isLocked, currentType, flockPc, wish, timeout, start>>
        BY <1>2 DEF Flock!Tick, Flock!Restart, Flock!lockVars, Flock!timedVars
    <2>2. clock' \in Nat
        BY <1>0, <1>2 DEF Flock!Tick, Flock!Restart
    <2> QED
        BY <1>0, <1>a, <2>1, <2>2
<1>3. ASSUME NEW p \in Lockers, Flock!FlockCall(p) PROVE Locks' /\ Calls'
    <2>1. Locks'
        <3>1. CASE Flock!Unlock(p)
            BY <3>1, ReleaseKeeps DEF Flock!Unlock
        <3>2. CASE Flock!Destroy(p) \/ Flock!Die(p)
            BY <3>2, ReleaseKeeps DEF Flock!Destroy, Flock!Die
        <3>3. CASE Flock!TryLock(p)
            <4>1. PICK kind \in Flock!Types : 
                     Flock!Grant(p, kind) \/ UNCHANGED <<held, isLocked, currentType>>
                BY <3>3 DEF Flock!TryLock, Flock!lockVars
            <4> QED
                BY <1>a, <4>1, GrantKeeps
        <3>4. CASE Flock!LockGranted(p) \/ Flock!TimedGranted(p)
            <4>1. wish[p] \in Flock!Types
                BY <1>0
            <4> QED
                BY <3>4, <4>1, GrantKeeps DEF Flock!LockGranted, Flock!TimedGranted
        <3>5. CASE \/ Flock!Create(p) \/ Flock!Lock(p) \/ Flock!LockCircle(p)
                   \/ Flock!TimedLock(p) \/ Flock!TimedExpired(p) \/ Flock!TimedSleeps(p)
                   \/ Flock!TimedWakes(p)
            <4>1. UNCHANGED <<held, isLocked, currentType>>
                BY <3>5 DEF Flock!Create, Flock!Lock, Flock!LockCircle, Flock!TimedLock,
                            Flock!TimedExpired, Flock!TimedSleeps, Flock!TimedWakes,
                            Flock!lockVars
            <4> QED
                BY <1>a, <4>1
        <3> QED
            BY <1>3, <3>1, <3>2, <3>3, <3>4, <3>5 DEF Flock!FlockCall, Flock!InTimedLock
    <2>2. Calls'
        <3> USE <1>0 DEF FlockPlaces, Flock!Types
        <3>1. CASE Flock!Create(p) \/ Flock!Unlock(p) \/ Flock!Destroy(p) \/ Flock!Die(p)
                   \/ Flock!TryLock(p)
            BY <3>1 DEF Flock!Create, Flock!Unlock, Flock!Destroy, Flock!Die, Flock!TryLock,
                        Flock!Step, Flock!timedVars
        <3>2. CASE Flock!Lock(p) \/ Flock!LockGranted(p) \/ Flock!LockCircle(p)
            BY <3>2 DEF Flock!Lock, Flock!LockGranted, Flock!LockCircle, Flock!Step,
                        Flock!timedVars
        <3>3. CASE Flock!TimedLock(p)
            BY <3>3, FlockConstants DEF Flock!TimedLock, Flock!Step
        <3>4. CASE Flock!InTimedLock(p)
            BY <3>4 DEF Flock!InTimedLock, Flock!TimedGranted, Flock!TimedExpired,
                        Flock!TimedOver, Flock!TimedSleeps, Flock!TimedWakes, Flock!Step,
                        Flock!timedVars
        <3> QED
            BY <1>3, <3>1, <3>2, <3>3, <3>4 DEF Flock!FlockCall
    <2> QED
        BY <2>1, <2>2
<1> QED
    BY <1>1, <1>2, <1>3 DEF Flock!Next

(* The milliseconds elapsed are at most one more than the whole ones that passed. *)
LEMMA DivisionReaches ==
    ASSUME NEW n \in Int, NEW d \in Nat \ {0}, NEW k \in Int, Flock!Toward0(n, d) >= k
    PROVE  n > (k - 1) * d
<1>1. CASE n >= 0
    <2>1. n \div d >= k
        BY <1>1 DEF Flock!Toward0
    <2>2. n >= (n \div d) * d
        OBVIOUS
    <2>3. (n \div d) * d >= k * d
        BY <2>1
    <2>4. k * d = (k - 1) * d + d
        OBVIOUS
    <2> QED
        BY <2>2, <2>3, <2>4
<1>2. CASE ~ (n >= 0)
    <2> DEFINE q == (-n) \div d
    <2>1. -q >= k /\ q \in Int
        BY <1>2 DEF Flock!Toward0
    <2>2. -n < (q + 1) * d
        OBVIOUS
    <2> HIDE DEF q
    <2>3. (q + 1) * d <= (1 - k) * d
        BY <2>1
    <2>4. (1 - k) * d = -((k - 1) * d)
        OBVIOUS
    <2> QED
        BY <2>1, <2>2, <2>3, <2>4
<1> QED
    BY <1>1, <1>2

LEMMA ElapsedReaches ==
    ASSUME NEW from \in Nat, NEW to \in Nat, NEW ms \in Nat, Flock!Elapsed(from, to) >= ms
    PROVE  to - from > (ms - 1) * NsPerMs
<1> DEFINE second == NsPerMs * MsPerSec
           whole == (to \div second) - (from \div second)
           rest == (to % second) - (from % second)
<1>1. NsPerMs \in Nat \ {0} /\ MsPerSec \in Nat \ {0} /\ second \in Nat \ {0}
    <2>1. NsPerMs \in Nat \ {0} /\ MsPerSec \in Nat \ {0}
        BY FlockConstants
    <2>2. \A m, n \in Nat \ {0} : m * n \in Nat \ {0}
        OBVIOUS
    <2> QED
        BY <2>1, <2>2
<1>2. Flock!Elapsed(from, to) = whole * MsPerSec + Flock!Toward0(rest, NsPerMs)
    BY DEF Flock!Elapsed, Flock!NsPerSec
<1> HIDE DEF second
<1>3. to = (to \div second) * second + (to % second)
      /\ from = (from \div second) * second + (from % second)
      /\ {to \div second, from \div second, to % second, from % second} \subseteq Int
    BY <1>1
<1>4. whole \in Int /\ rest \in Int
    BY <1>3
<1>5. to - from = whole * second + rest
    <2> DEFINE a == to \div second
               b == from \div second
               c == to % second
               d == from % second
    <2>1. a \in Int /\ b \in Int /\ c \in Int /\ d \in Int
        BY <1>3
    <2>2. to = a * second + c /\ from = b * second + d
        BY <1>3
    <2> HIDE DEF a, b, c, d
    <2>3. (a - b) * second = a * second - b * second
        BY <1>1, <2>1
    <2>4. a * second \in Int /\ b * second \in Int
        BY <1>1, <2>1
    <2>5. to - from = (a - b) * second + (c - d)
        BY <2>1, <2>2, <2>3, <2>4
    <2> QED
        BY <2>5 DEF a, b, c, d
<1> HIDE DEF whole, rest
<1> DEFINE k == ms - whole * MsPerSec
<1>6. k \in Int /\ Flock!Toward0(rest, NsPerMs) \in Int
    BY <1>1, <1>4 DEF Flock!Toward0
<1>7. Flock!Toward0(rest, NsPerMs) >= k
    <2>1. whole * MsPerSec \in Int
        BY <1>1, <1>4
    <2> QED
        BY <1>2, <1>6, <2>1
<1>8. rest > (k - 1) * NsPerMs
    BY <1>1, <1>4, <1>6, <1>7, DivisionReaches
<1>9. (k - 1) * NsPerMs = (ms - 1) * NsPerMs - whole * second
    <2> DEFINE w == whole * MsPerSec
    <2>1. w \in Int /\ w * NsPerMs = whole * second
        BY <1>1, <1>4 DEF second
    <2>2. k = ms - w
        OBVIOUS
    <2> HIDE DEF w, k
    <2>3. (ms - w - 1) * NsPerMs = (ms - 1) * NsPerMs - w * NsPerMs
        BY <1>1, <2>1
    <2> QED
        BY <2>1, <2>2, <2>3
<1> HIDE DEF k
<1>10. whole * second \in Int /\ (ms - 1) * NsPerMs \in Int
    BY <1>1, <1>4
<1> QED
    BY <1>4, <1>5, <1>8, <1>9, <1>10

LEMMA LockGivesUpLate ==
    ASSUME FlockInv, [Flock!Next]_flockVars, NEW p \in Lockers, Flock!GivesUp(p)
    PROVE  /\ clock - start[p] > (timeout[p] - 1) * NsPerMs
           /\ Flock!Blockers(p, wish[p]) # {}
<1>0. /\ flockPc \in [Lockers -> FlockPlaces] /\ flockPc[p] = "try" /\ flockPc'[p] = "idle"
      /\ ~ (isLocked'[p] /\ currentType'[p] = wish[p])
      /\ isLocked \in [Lockers -> BOOLEAN] /\ currentType \in [Lockers -> Flock!Types]
    BY DEF FlockInv, Flock!GivesUp
<1>1. ~ UNCHANGED flockVars
    BY <1>0 DEF flockVars
<1>2. ~ (Flock!Tick \/ Flock!Restart)
    BY <1>0 DEF Flock!Tick, Flock!Restart
<1>3. ASSUME NEW q \in Lockers, Flock!FlockCall(q), ~ Flock!TimedExpired(q) \/ q # p PROVE FALSE
    <2>1. ~ (Flock!Unlock(q) \/ Flock!TryLock(q))
        BY <1>0 DEF Flock!Unlock, Flock!TryLock
    <2>2. ~ (Flock!Create(q) \/ Flock!Destroy(q) \/ Flock!Die(q))
        BY <1>0 DEF Flock!Create, Flock!Destroy, Flock!Die, Flock!Step
    <2>3. ~ (Flock!Lock(q) \/ Flock!LockGranted(q) \/ Flock!LockCircle(q) \/ Flock!TimedLock(q))
        BY <1>0 DEF Flock!Lock, Flock!LockGranted, Flock!LockCircle, Flock!TimedLock, Flock!Step
    <2>4. ~ (Flock!TimedSleeps(q) \/ Flock!TimedWakes(q))
        BY <1>0 DEF Flock!TimedSleeps, Flock!TimedWakes, Flock!Step
    <2>5. ~ Flock!TimedGranted(q)
        BY <1>0 DEF Flock!TimedGranted, Flock!TimedOver, Flock!Grant, Flock!Step
    <2>6. Flock!TimedExpired(q) /\ q # p => FALSE
        BY <1>0 DEF Flock!TimedExpired, Flock!TimedOver, Flock!Step
    <2> QED
        BY <1>3, <2>1, <2>2, <2>3, <2>4, <2>5, <2>6 DEF Flock!FlockCall, Flock!InTimedLock
<1>4. Flock!TimedExpired(p)
    BY <1>1, <1>2, <1>3 DEF Flock!Next
<1>5. Flock!Elapsed(start[p], clock) >= timeout[p] /\ Flock!Blockers(p, wish[p]) # {}
    BY <1>4 DEF Flock!TimedExpired
<1>6. start[p] \in Nat /\ clock \in Nat /\ timeout[p] \in Nat
    BY DEF FlockInv
<1> QED
    BY <1>5, <1>6, ElapsedReaches
-----------------------------------------------------------------------------
(* The waits.  While nobody sets the time of day, a deadline is the time a call  *)
(* should end, in seconds and nanoseconds; and who waits is where it may.        *)
WaitPlaces == {"out", "in", "lock", "cond", "relock", "sem"}
Second == Wait!NsPerSec
TimesOfDay == [sec : Nat, nsec : 0 .. Second - 1]

DeadlineStands(t) ==
    ts[t] # NoOne =>
       /\ ts[t] \in TimesOfDay /\ ts[t].sec * Second + ts[t].nsec = due[t]
       /\ \/ waitPc[t] \in {"lock", "cond", "sem"}
          \/ waitPc[t] = "relock" /\ said[t] # "timeout"

WaitInv ==
    /\ time \in Nat /\ set = 0 /\ owner \in Threads \cup {NoOne}
    /\ waitPc \in [Threads -> WaitPlaces]
    /\ DOMAIN ts = Threads /\ ts = [t \in Threads |-> ts[t]]
    /\ due \in [Threads -> Nat] /\ said = [t \in Threads |-> said[t]]
    /\ Wait!WaitHasMutex
    /\ \A t \in Threads : DeadlineStands(t)

LEMMA WaitConstants ==
    /\ NoOne \notin Threads /\ WaitTimeouts \subseteq Nat
    /\ MsPerSec \in Nat \ {0} /\ NsPerMs \in Nat \ {0} /\ Second \in Nat \ {0}
<1>1. NoOne \notin Threads /\ WaitTimeouts \subseteq Nat
      /\ MsPerSec \in Nat \ {0} /\ NsPerMs \in Nat \ {0}
    BY UserConstants DEF Wait!WaitAssumption
<1>2. \A m, n \in Nat \ {0} : m * n \in Nat \ {0}
    OBVIOUS
<1> QED
    BY <1>1, <1>2 DEF Second, Wait!NsPerSec

LEMMA InitWait == Wait!Init => WaitInv
<1> SUFFICES ASSUME Wait!Init PROVE WaitInv
    OBVIOUS
<1>1. \A t \in Threads : DeadlineStands(t)
    BY DEF Wait!Init, DeadlineStands
<1>2. Wait!WaitHasMutex
    BY WaitConstants DEF Wait!Init, Wait!WaitHasMutex
<1> QED
    BY <1>1, <1>2 DEF Wait!Init, WaitInv, WaitPlaces

(* What the three functions add up is the time of day the wait should end, with  *)
(* a second's nanoseconds carried.                                           *)
LEMMA DeadlineIsDue ==
    ASSUME time \in Nat, set = 0, NEW ms \in Nat
    PROVE  /\ Wait!Deadline(ms) \in TimesOfDay
           /\ Wait!Deadline(ms).sec * Second + Wait!Deadline(ms).nsec = time + ms * NsPerMs
<1> DEFINE d == time \div Second
           n == time % Second
           s == ms \div MsPerSec
           m == ms % MsPerSec
           nsec == n + m * NsPerMs
           carry == IF nsec >= Second THEN 1 ELSE 0
<1>0. MsPerSec \in Nat \ {0} /\ NsPerMs \in Nat \ {0} /\ Second \in Nat \ {0}
      /\ Second = MsPerSec * NsPerMs
    BY WaitConstants DEF Second, Wait!NsPerSec
<1>1. d \in Nat /\ n \in 0 .. Second - 1 /\ time = d * Second + n
    <2>1. Second \in Nat \ {0}
        BY <1>0
    <2> QED
        BY <2>1
<1>2. s \in Nat /\ m \in 0 .. MsPerSec - 1 /\ ms = s * MsPerSec + m
    <2>1. MsPerSec \in Nat \ {0}
        BY <1>0
    <2> QED
        BY <2>1
<1>3. Wait!Deadline(ms) = [sec |-> d + s + carry, nsec |-> nsec - carry * Second]
    <2>1. Wait!TimeOfDay = [sec |-> d, nsec |-> n]
        BY DEF Wait!TimeOfDay, Second
    <2> QED
        BY <2>1 DEF Wait!Deadline, Second
<1> HIDE DEF d, n, s, m
<1>4. m * NsPerMs \in Nat /\ m * NsPerMs <= Second - NsPerMs
    <2>1. m * NsPerMs <= (MsPerSec - 1) * NsPerMs
        BY <1>0, <1>2
    <2>2. (MsPerSec - 1) * NsPerMs = Second - NsPerMs
        BY <1>0
    <2> QED
        BY <1>0, <1>2, <2>1, <2>2
<1>5. ms * NsPerMs = s * Second + m * NsPerMs
    BY <1>0, <1>2
<1>6. nsec \in Nat /\ nsec < 2 * Second
    BY <1>0, <1>1, <1>4
<1> DEFINE e == nsec - carry * Second
<1>7. carry \in {0, 1} /\ carry * Second \in Nat /\ e \in 0 .. Second - 1
    BY <1>0, <1>6
<1>8. d + s + carry \in Nat
    BY <1>1, <1>2, <1>7
<1>9. (d + s + carry) * Second = d * Second + s * Second + carry * Second
    BY <1>0, <1>1, <1>2, <1>7
<1>10. d * Second \in Nat /\ s * Second \in Nat
    BY <1>0, <1>1, <1>2
<1> DEFINE p == m * NsPerMs
<1>11. nsec = n + p /\ p \in Nat
    BY <1>4
<1> HIDE DEF carry, nsec
<1>12. (d + s + carry) * Second + e = d * Second + n + s * Second + p
    <2> DEFINE a == d * Second
               b == s * Second
               c == carry * Second
    <2>1. a \in Nat /\ b \in Nat /\ c \in Nat /\ nsec \in Nat /\ n \in Nat
        BY <1>1, <1>6, <1>7, <1>10
    <2>2. (d + s + carry) * Second = a + b + c /\ e = nsec - c
        BY <1>9
    <2> HIDE DEF a, b, c, e, p
    <2>3. (d + s + carry) * Second + e = a + n + b + p
        BY <1>11, <2>1, <2>2
    <2> QED
        BY <2>3 DEF a, b
<1> HIDE DEF e
<1>13. Wait!Deadline(ms).sec = d + s + carry /\ Wait!Deadline(ms).nsec = e
    BY <1>3 DEF e
<1>14. time + ms * NsPerMs = d * Second + n + s * Second + p
    BY <1>1, <1>5, <1>10, <1>11 DEF p
<1>15. Wait!Deadline(ms) \in TimesOfDay
    BY <1>3, <1>7, <1>8 DEF e, TimesOfDay
<1> QED
    BY <1>12, <1>13, <1>14, <1>15

(* A step of one thread leaves the deadlines of the others as they are.         *)
LEMMA OthersStand ==
    ASSUME NEW t \in Threads, NEW u \in Threads, WaitInv,
           ts'[u] = ts[u], due'[u] = due[u], waitPc'[u] = waitPc[u], said'[u] = said[u]
    PROVE  DeadlineStands(u)'
BY DEF WaitInv, DeadlineStands

(* What a call does to the limit of its thread: none, or a new one.             *)
LEMMA LimitMoves ==
    ASSUME WaitInv, NEW t \in Threads,
           Wait!NoLimit(t) \/ \E ms \in WaitTimeouts : Wait!Limits(t, ms)
    PROVE  /\ DOMAIN ts' = Threads /\ ts' = [u \in Threads |-> ts'[u]]
           /\ due' \in [Threads -> Nat]
           /\ \A u \in Threads : u # t => ts'[u] = ts[u] /\ due'[u] = due[u]
           /\ ts'[t] # NoOne =>
                 ts'[t] \in TimesOfDay /\ ts'[t].sec * Second + ts'[t].nsec = due'[t]
<1>0. DOMAIN ts = Threads /\ ts = [u \in Threads |-> ts[u]] /\ due \in [Threads -> Nat]
    BY DEF WaitInv
<1>1. CASE Wait!NoLimit(t)
    BY <1>0, <1>1 DEF Wait!NoLimit
<1>2. ASSUME NEW ms \in WaitTimeouts, Wait!Limits(t, ms)
      PROVE  /\ DOMAIN ts' = Threads /\ ts' = [u \in Threads |-> ts'[u]]
             /\ due' \in [Threads -> Nat]
             /\ \A u \in Threads : u # t => ts'[u] = ts[u] /\ due'[u] = due[u]
             /\ ts'[t] \in TimesOfDay /\ ts'[t].sec * Second + ts'[t].nsec = due'[t]
    <2>0. ms \in Nat /\ time \in Nat /\ set = 0
        BY WaitConstants DEF WaitInv
    <2> DEFINE deadline == Wait!Deadline(ms)
               end == time + ms * NsPerMs
    <2>1. deadline \in TimesOfDay /\ deadline.sec * Second + deadline.nsec = end
        BY <2>0, DeadlineIsDue
    <2>2. end \in Nat
        BY <2>0, WaitConstants
    <2>3. ts' = [ts EXCEPT ![t] = deadline] /\ due' = [due EXCEPT ![t] = end]
        BY <1>2 DEF Wait!Limits
    <2> HIDE DEF deadline, end
    <2> QED
        BY <1>0, <2>1, <2>2, <2>3
<1> QED
    BY <1>1, <1>2

LEMMA StepWait == WaitInv /\ [Wait!Next]_waitVars => WaitInv'
<1> SUFFICES ASSUME WaitInv, [Wait!Next]_waitVars PROVE WaitInv'
    OBVIOUS
<1>0. /\ time \in Nat /\ set = 0 /\ owner \in Threads \cup {NoOne}
      /\ waitPc \in [Threads -> WaitPlaces]
      /\ DOMAIN ts = Threads /\ ts = [t \in Threads |-> ts[t]]
      /\ due \in [Threads -> Nat] /\ said = [t \in Threads |-> said[t]]
      /\ \A t \in Threads : waitPc[t] = "in" <=> owner = t
      /\ \A t \in Threads : DeadlineStands(t)
    BY DEF WaitInv, Wait!WaitHasMutex
<1>1. CASE UNCHANGED waitVars
    BY <1>0, <1>1 DEF waitVars, WaitInv, Wait!WaitHasMutex, DeadlineStands
<1>2. CASE Wait!Clock
    <2>1. time' \in Nat /\ UNCHANGED <<set, owner, waitPc, ts, due, said>>
        BY <1>0, <1>2 DEF Wait!Clock
    <2> QED
        BY <1>0, <2>1 DEF WaitInv, Wait!WaitHasMutex, DeadlineStands
<1>3. ~ Wait!SetTime
    BY DEF Wait!SetTime
(* The steps of a thread that set a limit or take it away.                      *)
<1>4. ASSUME NEW t \in Threads, UNCHANGED <<time, set>>,
             Wait!NoLimit(t) \/ \E ms \in WaitTimeouts : Wait!Limits(t, ms),
             NEW place \in WaitPlaces, waitPc' = [waitPc EXCEPT ![t] = place],
             owner' \in Threads \cup {NoOne},
             owner' = (IF place = "in" THEN t ELSE IF waitPc[t] = "in" THEN NoOne ELSE owner),
             place = "in" => owner = NoOne,
             UNCHANGED said \/ \E what : said' = [said EXCEPT ![t] = what],
             ts'[t] # NoOne => place \in {"lock", "cond", "sem"}
      PROVE  WaitInv'
    <2>1. /\ DOMAIN ts' = Threads /\ ts' = [u \in Threads |-> ts'[u]]
          /\ due' \in [Threads -> Nat]
          /\ \A u \in Threads : u # t => ts'[u] = ts[u] /\ due'[u] = due[u]
          /\ ts'[t] # NoOne =>
                ts'[t] \in TimesOfDay /\ ts'[t].sec * Second + ts'[t].nsec = due'[t]
        BY <1>4, LimitMoves
    <2>2. /\ said' = [u \in Threads |-> said'[u]] /\ waitPc' \in [Threads -> WaitPlaces]
          /\ \A u \in Threads : u # t => said'[u] = said[u] /\ waitPc'[u] = waitPc[u]
          /\ waitPc'[t] = place
        BY <1>0, <1>4
    <2>3. ASSUME NEW u \in Threads PROVE DeadlineStands(u)'
        <3>1. CASE u = t
            BY <1>4, <2>1, <2>2, <3>1 DEF DeadlineStands
        <3>2. CASE u # t
            BY <2>1, <2>2, <3>2, OthersStand
        <3> QED
            BY <3>1, <3>2
    <2>4. Wait!WaitHasMutex'
        BY <1>0, <1>4, <2>2, WaitConstants DEF Wait!WaitHasMutex
    <2>5. time' \in Nat /\ set' = 0
        BY <1>0, <1>4
    <2> QED
        BY <1>4, <2>1, <2>2, <2>3, <2>4, <2>5 DEF WaitInv
<1>5. ASSUME NEW t \in Threads, Wait!Lock(t) \/ Wait!CondWait(t) \/ Wait!SemWait(t)
      PROVE  WaitInv'
    <2> DEFINE place == CASE Wait!Lock(t) -> "lock" [] Wait!CondWait(t) -> "cond"
                          [] OTHER -> "sem"
    <2>1. /\ UNCHANGED <<time, set, said>>
          /\ Wait!NoLimit(t) \/ \E ms \in WaitTimeouts : Wait!Limits(t, ms)
        BY <1>5 DEF Wait!Lock, Wait!CondWait, Wait!SemWait
    <2>2. place \in {"lock", "cond", "sem"} /\ waitPc' = [waitPc EXCEPT ![t] = place]
        BY <1>5 DEF Wait!Lock, Wait!CondWait, Wait!SemWait, Wait!Goto
    <2>3. owner' = IF waitPc[t] = "in" THEN NoOne ELSE owner
        BY <1>0, <1>5 DEF Wait!Lock, Wait!CondWait, Wait!SemWait
    <2> HIDE DEF place
    <2> QED
        BY <1>0, <1>4, <2>1, <2>2, <2>3 DEF WaitPlaces
<1>6. ASSUME NEW t \in Threads, Wait!Acquire(t) \/ Wait!CondEnds(t)
      PROVE  WaitInv'
    <2>1. /\ UNCHANGED <<time, set>> /\ Wait!NoLimit(t) /\ owner = NoOne /\ owner' = t
          /\ waitPc' = [waitPc EXCEPT ![t] = "in"]
          /\ UNCHANGED said \/ \E what : said' = [said EXCEPT ![t] = what]
        BY <1>6 DEF Wait!Acquire, Wait!CondEnds, Wait!Goto, Wait!Says
    <2>2. ts'[t] = NoOne
        BY <1>0, <2>1 DEF Wait!NoLimit
    <2> QED
        BY <1>4, <2>1, <2>2 DEF WaitPlaces
<1>7. ASSUME NEW t \in Threads, Wait!SemTake(t) \/ Wait!Expire(t)
      PROVE  WaitInv'
    <2> DEFINE place == IF waitPc[t] = "cond" THEN "relock" ELSE "out"
    <2>1. /\ UNCHANGED <<time, set, owner>> /\ Wait!NoLimit(t)
          /\ waitPc[t] # "in" /\ waitPc' = [waitPc EXCEPT ![t] = place]
          /\ \E what : said' = [said EXCEPT ![t] = what]
        BY <1>7 DEF Wait!SemTake, Wait!Expire, Wait!Goto, Wait!Says
    <2>2. ts'[t] = NoOne
        BY <1>0, <2>1 DEF Wait!NoLimit
    <2>3. place \in WaitPlaces /\ place # "in"
        BY DEF WaitPlaces
    <2> HIDE DEF place
    <2> QED
        BY <1>0, <1>4, <2>1, <2>2, <2>3
<1>8. ASSUME NEW t \in Threads, Wait!TryLock(t) \/ Wait!Unlock(t)
      PROVE  WaitInv'
    <2>1. /\ UNCHANGED <<time, set, ts, due>>
          /\ UNCHANGED said \/ \E what : said' = [said EXCEPT ![t] = what]
          /\ \/ waitPc[t] = "out" /\ owner = NoOne /\ owner' = t
                /\ waitPc' = [waitPc EXCEPT ![t] = "in"]
             \/ waitPc[t] = "in" /\ owner' = NoOne /\ waitPc' = [waitPc EXCEPT ![t] = "out"]
        BY <1>8 DEF Wait!TryLock, Wait!Unlock, Wait!Goto, Wait!Says
    <2>2. ts[t] = NoOne
        BY <1>0, <2>1 DEF DeadlineStands
    <2>3. \A u \in Threads : DeadlineStands(u)'
        BY <1>0, <2>1, <2>2 DEF DeadlineStands
    <2>4. Wait!WaitHasMutex'
        BY <1>0, <2>1, WaitConstants DEF Wait!WaitHasMutex
    <2>5. /\ waitPc' \in [Threads -> WaitPlaces] /\ owner' \in Threads \cup {NoOne}
          /\ said' = [u \in Threads |-> said'[u]]
        BY <1>0, <2>1 DEF WaitPlaces
    <2> QED
        BY <1>0, <2>1, <2>3, <2>4, <2>5 DEF WaitInv
<1>9. ASSUME NEW t \in Threads, Wait!Signal(t) PROVE WaitInv'
    <2>1. PICK woken \in SUBSET {u \in Threads : waitPc[u] = "cond"} : Wait!Wakes(woken)
        BY <1>9 DEF Wait!Signal
    <2>2. UNCHANGED <<time, set, owner, ts, due>>
        BY <1>9 DEF Wait!Signal
    <2>3. /\ waitPc' = [u \in Threads |-> IF u \in woken THEN "relock" ELSE waitPc[u]]
          /\ said' = [u \in Threads |-> IF u \in woken THEN "success" ELSE said[u]]
        BY <2>1 DEF Wait!Wakes
    <2>4. \A u \in Threads : DeadlineStands(u)'
        BY <1>0, <2>1, <2>2, <2>3 DEF DeadlineStands
    <2>5. Wait!WaitHasMutex' /\ waitPc' \in [Threads -> WaitPlaces]
        BY <1>0, <2>1, <2>2, <2>3 DEF Wait!WaitHasMutex, WaitPlaces
    <2> QED
        BY <1>0, <2>2, <2>3, <2>4, <2>5 DEF WaitInv
<1>10. ASSUME NEW t \in Threads, Wait!SemTryWait(t) \/ Wait!SemPost(t) PROVE WaitInv'
    <2>1. /\ UNCHANGED <<time, set, owner, waitPc, ts, due>>
          /\ \/ UNCHANGED said
             \/ waitPc[t] = "out" /\ \E what : said' = [said EXCEPT ![t] = what]
        <3>1. CASE Wait!SemTryWait(t)
            <4>1. /\ UNCHANGED <<time, set, owner, waitPc, ts, due>> /\ waitPc[t] = "out"
                  /\ Wait!Says(t, "success") \/ Wait!Says(t, "again")
                BY <3>1 DEF Wait!SemTryWait
            <4> QED
                BY <4>1 DEF Wait!Says
        <3>2. CASE Wait!SemPost(t)
            BY <3>2 DEF Wait!SemPost
        <3> QED
            BY <1>10, <3>1, <3>2
    <2>2. \A u \in Threads : DeadlineStands(u)'
        BY <1>0, <2>1 DEF DeadlineStands
    <2>3. said' = [u \in Threads |-> said'[u]]
        BY <1>0, <2>1
    <2> QED
        BY <1>0, <2>1, <2>2, <2>3 DEF WaitInv, Wait!WaitHasMutex
<1> QED
    BY <1>1, <1>2, <1>3, <1>5, <1>6, <1>7, <1>8, <1>9, <1>10
    DEF Wait!Next, Wait!Call, Wait!Return

(* Later on the clock is later in the pairs of seconds and nanoseconds.         *)
LEMMA OverIsLater ==
    ASSUME time \in Nat, set = 0, NEW d \in TimesOfDay, Wait!IsOver(d)
    PROVE  time >= d.sec * Second + d.nsec
<1> DEFINE s == time \div Second
           n == time % Second
<1>0. Second \in Nat \ {0}
    BY WaitConstants
<1>1. s \in Nat /\ n \in 0 .. Second - 1 /\ time = s * Second + n
    BY <1>0
<1>2. d.sec \in Nat /\ d.nsec \in 0 .. Second - 1
    BY DEF TimesOfDay
<1>3. s > d.sec \/ (s = d.sec /\ n >= d.nsec)
    <2>1. Wait!TimeOfDay.sec = s /\ Wait!TimeOfDay.nsec = n
        BY DEF Wait!TimeOfDay, Second
    <2> QED
        BY <1>1, <1>2, <2>1 DEF Wait!IsOver
<1> HIDE DEF s, n
<1>4. CASE s > d.sec
    <2>1. s * Second >= (d.sec + 1) * Second
        BY <1>0, <1>1, <1>2, <1>4
    <2>2. (d.sec + 1) * Second = d.sec * Second + Second
        BY <1>0, <1>2
    <2>3. s * Second \in Nat /\ d.sec * Second \in Nat
        BY <1>0, <1>1, <1>2
    <2> QED
        BY <1>0, <1>1, <1>2, <2>1, <2>2, <2>3
<1>5. CASE s = d.sec /\ n >= d.nsec
    <2>1. s * Second \in Nat
        BY <1>0, <1>1
    <2> QED
        BY <1>1, <1>2, <1>5, <2>1
<1> QED
    BY <1>3, <1>4, <1>5

LEMMA WaitGivesUpLate ==
    ASSUME WaitInv, [Wait!Next]_waitVars, NEW t \in Threads,
           ts[t] # NoOne, ts'[t] = NoOne, said'[t] = "timeout"
    PROVE  time >= due[t]
<1>0. /\ time \in Nat /\ set = 0 /\ waitPc \in [Threads -> WaitPlaces]
      /\ DOMAIN ts = Threads /\ ts = [u \in Threads |-> ts[u]]
      /\ said = [u \in Threads |-> said[u]] /\ DeadlineStands(t)
    BY DEF WaitInv
<1>1. ts[t] \in TimesOfDay /\ ts[t].sec * Second + ts[t].nsec = due[t]
      /\ (waitPc[t] \in {"lock", "cond", "sem"} \/ (waitPc[t] = "relock" /\ said[t] # "timeout"))
    BY <1>0 DEF DeadlineStands
<1>2. \A u \in Threads : u # t => ~ Wait!NoLimit(u) /\ \A ms \in WaitTimeouts : ~ Wait!Limits(u, ms)
    BY <1>0 DEF Wait!NoLimit, Wait!Limits
<1>3. ts' # ts
    OBVIOUS
<1>4. ASSUME NEW u \in Threads, Wait!Call(u) PROVE FALSE
    <2>1. ~ (Wait!TryLock(u) \/ Wait!Unlock(u) \/ Wait!Signal(u) \/ Wait!SemTryWait(u)
                 \/ Wait!SemPost(u))
        BY <1>3 DEF Wait!TryLock, Wait!Unlock, Wait!Signal, Wait!SemTryWait, Wait!SemPost
    <2>2. ~ (Wait!Lock(u) \/ Wait!CondWait(u) \/ Wait!SemWait(u))
        BY <1>0, <1>1, <1>2 DEF Wait!Lock, Wait!CondWait, Wait!SemWait
    <2> QED
        BY <1>4, <2>1, <2>2 DEF Wait!Call
<1>5. ASSUME NEW u \in Threads, Wait!Acquire(u) \/ Wait!CondEnds(u) \/ Wait!SemTake(u) PROVE FALSE
    <2>1. Wait!NoLimit(u) /\ u = t
        BY <1>2, <1>5 DEF Wait!Acquire, Wait!CondEnds, Wait!SemTake
    <2>2. CASE Wait!Acquire(u) \/ Wait!SemTake(u)
        BY <1>0, <2>1, <2>2 DEF Wait!Acquire, Wait!SemTake, Wait!Says
    <2>3. CASE Wait!CondEnds(u)
        BY <1>1, <2>1, <2>3 DEF Wait!CondEnds
    <2> QED
        BY <1>5, <2>2, <2>3
<1>6. ~ (Wait!Clock \/ Wait!SetTime)
    BY <1>3 DEF Wait!Clock, Wait!SetTime
<1>7. ~ UNCHANGED waitVars
    BY <1>3 DEF waitVars
<1>8. PICK u \in Threads : Wait!Expire(u)
    BY <1>4, <1>5, <1>6, <1>7 DEF Wait!Next, Wait!Return
<1>9. u = t
    BY <1>2, <1>8 DEF Wait!Expire
<1>10. Wait!IsOver(ts[t])
    BY <1>8, <1>9 DEF Wait!Expire, Wait!Expired
<1> QED
    BY <1>0, <1>1, <1>10, OverIsLater

LEMMA WaitsAreTrue == WaitInv => Wait!WaitHasMutex /\ Wait!DeadlinesAreTimes
<1> SUFFICES ASSUME WaitInv PROVE Wait!WaitHasMutex /\ Wait!DeadlinesAreTimes
    OBVIOUS
<1>1. ASSUME NEW t \in Threads, ts[t] # NoOne PROVE ~ (ts[t].nsec >= Second)
    <2>1. ts[t].nsec \in 0 .. Second - 1
        BY <1>1 DEF WaitInv, DeadlineStands, TimesOfDay
    <2> QED
        BY <2>1, WaitConstants
<1> QED
    BY <1>1 DEF WaitInv, Wait!DeadlinesAreTimes, Wait!Refused, Second
-----------------------------------------------------------------------------
(* The clients of devices.  A number is one device's of its type, a descriptor   *)
(* one context's or one call's; and an open by name that is not disturbed knows  *)
(* the number of the device it was asked for.                                 *)
ClientPlaces == {"idle", "query", "close", "node"} \cup Client!Results

ClientTypes ==
    /\ index \in [Devices -> Ids \cup {-1}] /\ nodes \subseteq Devices
    /\ files \in [PdiFds -> Devices \cup {"ctl", NoOne}]
    /\ fd \in [Contexts -> PdiFds \cup {-1}] /\ ctlFd \in [Contexts -> PdiFds \cup {-1}]
    /\ callPc \in [Contexts -> ClientPlaces]
    /\ wanted \in [Contexts -> Devices \cup {NoOne}]
    /\ info \in [Contexts -> Devices \cup {NoOne}]
    /\ node \in [Contexts -> Ids \cup {-1}] /\ calm \in [Contexts -> BOOLEAN]

NumbersDiffer ==
    /\ \A d \in nodes : index[d] # -1
    /\ \A d, e \in Devices :
          TypeOf[d] = TypeOf[e] /\ index[d] = index[e] /\ index[d] # -1 => d = e

FilesAreOwned ==
    /\ \A c \in Contexts :
          /\ fd[c] # -1 => /\ callPc[c] \in {"idle", "opened"}
                           /\ files[fd[c]] \in Devices /\ TypeOf[files[fd[c]]] = KindOf[c]
          /\ ctlFd[c] # -1 <=> callPc[c] \in {"query", "close"}
          /\ ctlFd[c] # -1 => files[ctlFd[c]] = "ctl"
    /\ \A b, c \in Contexts : b # c =>
          /\ fd[b] # -1 => fd[b] # fd[c]
          /\ ctlFd[b] # -1 => ctlFd[b] # ctlFd[c]
    /\ \A f \in PdiFds : files[f] # NoOne => \E c \in Contexts : fd[c] = f \/ ctlFd[c] = f

CalmStands ==
    \A c \in Contexts :
       /\ callPc[c] \in {"query", "close"} => wanted[c] \in Devices
       /\ calm[c] =>
             /\ wanted[c] \in nodes
             /\ callPc[c] \notin {"idle", "ENOENT"}
             /\ callPc[c] = "close" => info[c] = wanted[c] /\ node[c] = index[wanted[c]]
             /\ callPc[c] = "node" =>
                   node[c] = index[wanted[c]] /\ TypeOf[wanted[c]] = KindOf[c]
             /\ callPc[c] = "opened" => fd[c] # -1 /\ files[fd[c]] = wanted[c]
             /\ callPc[c] = "ENODEV" => TypeOf[wanted[c]] # KindOf[c]

ClientInv == ClientTypes /\ NumbersDiffer /\ FilesAreOwned /\ CalmStands

LEMMA ClientConstants ==
    /\ TypeOf \in [Devices -> {"MCU", "LED"}] /\ KindOf \in [Contexts -> {"MCU", "LED"}]
    /\ 0 \in Ids /\ Ids \subseteq Nat /\ PdiFds \subseteq Nat
    /\ "ctl" \notin Devices /\ NoOne \notin Devices /\ NoOne # "ctl"
BY UserConstants DEF Client!PdiAssumption

LEMMA InitClient == Client!Init => ClientInv
BY ClientConstants DEF Client!Init, ClientInv, ClientTypes, ClientPlaces, NumbersDiffer,
    FilesAreOwned, CalmStands, Client!Results

(* A set of numbers that is not empty has a lowest one.                         *)
LEMMA HasLowest ==
    ASSUME NEW S \in SUBSET Nat, S # {}
    PROVE  \E f \in S : \A g \in S : f <= g
<1> DEFINE R == OpToRel(<, Nat)
<1>1. IsWellFoundedOn(R, Nat)
    BY NatLessThanWellFounded
<1> HIDE DEF R
<1>2. PICK f \in S : \A g \in S : ~ (<<g, f>> \in R)
    BY <1>1, WFMin
<1>3. ASSUME NEW g \in S PROVE f <= g
    <2>1. g \in Nat /\ f \in Nat
        OBVIOUS
    <2>2. g < f => <<g, f>> \in R
        BY <2>1 DEF R, OpToRel
    <2> QED
        BY <1>2, <2>1, <2>2
<1> QED
    BY <1>3

LEMMA LowestIsFree ==
    ASSUME Client!Free # {}
    PROVE  /\ Client!Lowest(Client!Free) \in PdiFds
           /\ files[Client!Lowest(Client!Free)] = NoOne
<1>1. Client!Free \in SUBSET Nat
    BY ClientConstants DEF Client!Free
<1>2. \E f \in Client!Free : \A g \in Client!Free : f <= g
    BY <1>1, HasLowest
<1>3. Client!Lowest(Client!Free) \in Client!Free
    BY <1>2 DEF Client!Lowest
<1> QED
    BY <1>3 DEF Client!Free

(* Devices come and go: the files stay, and a device that a calm call waits for   *)
(* keeps its node and with it its number.                                     *)
LEMMA DeviceMoves ==
    ASSUME ClientInv, NEW d \in Devices, Client!DeviceStep(d) PROVE ClientInv'
<1>0. ClientTypes /\ NumbersDiffer /\ FilesAreOwned /\ CalmStands
    BY DEF ClientInv
<1>1. UNCHANGED <<files, fd, ctlFd, callPc, wanted, info, node>>
    BY DEF Client!DeviceStep, Client!Numbered, Client!NodeMade, Client!NodeGone,
           Client!Unnumbered, Client!callVars
<1>2. FilesAreOwned'
    BY <1>0, <1>1 DEF FilesAreOwned
<1>3. ClientTypes' /\ NumbersDiffer'
    <2>1. CASE Client!Numbered(d)
        BY <1>0, <1>1, <2>1, ClientConstants DEF Client!Numbered, ClientTypes, NumbersDiffer
    <2>2. CASE Client!NodeMade(d)
        BY <1>0, <1>1, <2>2 DEF Client!NodeMade, ClientTypes, NumbersDiffer
    <2>3. CASE Client!NodeGone(d)
        BY <1>0, <1>1, <2>3 DEF Client!NodeGone, Client!Disturb, ClientTypes, NumbersDiffer
    <2>4. CASE Client!Unnumbered(d)
        BY <1>0, <1>1, <2>4 DEF Client!Unnumbered, ClientTypes, NumbersDiffer
    <2> QED
        BY <2>1, <2>2, <2>3, <2>4 DEF Client!DeviceStep
<1>4. ASSUME NEW c \in Contexts, calm'[c]
      PROVE  calm[c] /\ wanted[c] \in nodes' /\ index'[wanted[c]] = index[wanted[c]]
    <2>0. calm[c] => wanted[c] \in nodes /\ index[wanted[c]] # -1 /\ wanted[c] \in Devices
        BY <1>0 DEF ClientTypes, NumbersDiffer, CalmStands
    <2>1. CASE Client!Numbered(d) \/ Client!Unnumbered(d)
        BY <1>0, <1>4, <2>0, <2>1 DEF Client!Numbered, Client!Unnumbered, ClientTypes
    <2>2. CASE Client!NodeMade(d)
        BY <1>4, <2>0, <2>2 DEF Client!NodeMade
    <2>3. CASE Client!NodeGone(d)
        BY <1>4, <2>0, <2>3 DEF Client!NodeGone, Client!Disturb
    <2> QED
        BY <2>1, <2>2, <2>3 DEF Client!DeviceStep
<1>5. CalmStands'
    BY <1>0, <1>1, <1>4 DEF CalmStands
<1> QED
    BY <1>2, <1>3, <1>5 DEF ClientInv

(* A call of one context leaves the places of the others as they are; a descriptor *)
(* it opens was free and one it closes was its own.                            *)
LEMMA CallMoves ==
    ASSUME ClientInv, NEW c \in Contexts, Client!Call(c) PROVE ClientInv'
<1>0. ClientTypes /\ NumbersDiffer /\ FilesAreOwned /\ CalmStands
    BY DEF ClientInv
<1>1. NumbersDiffer' /\ index' = index /\ nodes' = nodes
    <2>1. UNCHANGED <<index, nodes>>
        BY DEF Client!Call, Client!OpenByName, Client!OpenByNameFails, Client!GetDeviceByName,
               Client!CtlClose, Client!OpenDefault, Client!OpenNode, Client!OpenNodeFails,
               Client!Return, Client!Close, Client!deviceVars
    <2> QED
        BY <1>0, <2>1 DEF NumbersDiffer
<1> DEFINE low == Client!Lowest(Client!Free)
<1>2. CASE Client!OpenByName(c)
    <2>0. /\ fd[c] = -1 /\ callPc[c] = "idle" /\ callPc' = [callPc EXCEPT ![c] = "query"]
          /\ files' = [files EXCEPT ![low] = "ctl"] /\ ctlFd' = [ctlFd EXCEPT ![c] = low]
          /\ low \in PdiFds /\ files[low] = NoOne /\ low # -1
          /\ UNCHANGED <<fd, info, node>>
        BY <1>2, LowestIsFree, ClientConstants
        DEF Client!OpenByName, Client!Step
    <2>1. PICK d \in Devices : Client!Named(c, d)
        BY <1>2 DEF Client!OpenByName
    <2> HIDE DEF low
    <2>2. ClientTypes'
        BY <1>0, <1>1, <2>0, <2>1 DEF ClientTypes, ClientPlaces, Client!Named
    <2>3. FilesAreOwned'
        BY <1>0, <2>0, ClientConstants DEF ClientTypes, FilesAreOwned
    <2>4. CalmStands'
        BY <1>0, <1>1, <2>0, <2>1, ClientConstants DEF ClientTypes, CalmStands, FilesAreOwned, Client!Named
    <2> QED
        BY <1>1, <2>2, <2>3, <2>4 DEF ClientInv
<1>3. CASE Client!OpenByNameFails(c)
    <2>0. /\ callPc[c] = "idle" /\ callPc' = [callPc EXCEPT ![c] = "EMFILE"]
          /\ UNCHANGED <<files, ctlFd, fd, info, node>> /\ fd[c] = -1
        BY <1>3 DEF Client!OpenByNameFails, Client!Step
    <2>1. PICK d \in Devices : Client!Named(c, d)
        BY <1>3 DEF Client!OpenByNameFails
    <2>2. ClientTypes'
        BY <1>0, <1>1, <2>0, <2>1 DEF ClientTypes, ClientPlaces, Client!Named, Client!Results
    <2>3. FilesAreOwned'
        BY <1>0, <2>0 DEF ClientTypes, FilesAreOwned
    <2>4. CalmStands'
        BY <1>0, <1>1, <2>0, <2>1 DEF ClientTypes, CalmStands, Client!Named
    <2> QED
        BY <1>1, <2>2, <2>3, <2>4 DEF ClientInv
<1>4. CASE Client!GetDeviceByName(c)
    <2>0. /\ callPc[c] = "query" /\ callPc' = [callPc EXCEPT ![c] = "close"]
          /\ info' = [info EXCEPT ![c] = IF index[wanted[c]] = -1 THEN NoOne ELSE wanted[c]]
          /\ node' = [node EXCEPT ![c] = index[wanted[c]]]
          /\ UNCHANGED <<files, ctlFd, fd, wanted, calm>> /\ wanted[c] \in Devices
        BY <1>0, <1>4 DEF Client!GetDeviceByName, Client!Step, CalmStands
    <2>2. ClientTypes'
        BY <1>0, <1>1, <2>0 DEF ClientTypes, ClientPlaces
    <2>3. FilesAreOwned'
        BY <1>0, <2>0 DEF ClientTypes, FilesAreOwned
    <2>4. CalmStands'
        BY <1>0, <1>1, <2>0 DEF ClientTypes, CalmStands, NumbersDiffer
    <2> QED
        BY <1>1, <2>2, <2>3, <2>4 DEF ClientInv
<1>5. CASE Client!CtlClose(c)
    <2>0. /\ callPc[c] = "close" /\ UNCHANGED <<fd, wanted, info, node, calm>>
          /\ callPc' = [callPc EXCEPT ![c] =
                IF info[c] # NoOne /\ TypeOf[wanted[c]] = KindOf[c] THEN "node" ELSE "ENODEV"]
          /\ files' = [files EXCEPT ![ctlFd[c]] = NoOne]
          /\ ctlFd' = [ctlFd EXCEPT ![c] = -1] /\ ctlFd[c] \in PdiFds
        BY <1>0, <1>5 DEF Client!CtlClose, Client!Step, Client!callVars, FilesAreOwned,
                          ClientTypes
    <2>2. ClientTypes'
        BY <1>0, <1>1, <2>0 DEF ClientTypes, ClientPlaces, Client!Results
    <2>3. FilesAreOwned'
        BY <1>0, <2>0, ClientConstants DEF ClientTypes, FilesAreOwned
    <2>4. CalmStands'
        BY <1>0, <1>1, <2>0, ClientConstants DEF ClientTypes, CalmStands, FilesAreOwned
    <2> QED
        BY <1>1, <2>2, <2>3, <2>4 DEF ClientInv
<1>6. CASE Client!OpenDefault(c)
    <2>0. /\ callPc[c] = "idle" /\ callPc' = [callPc EXCEPT ![c] = "node"] /\ fd[c] = -1
          /\ node' = [node EXCEPT ![c] = 0]
          /\ UNCHANGED <<files, ctlFd, fd, wanted, info, calm>>
        BY <1>6 DEF Client!OpenDefault, Client!Step
    <2>2. ClientTypes'
        BY <1>0, <1>1, <2>0, ClientConstants DEF ClientTypes, ClientPlaces
    <2>3. FilesAreOwned'
        BY <1>0, <2>0 DEF ClientTypes, FilesAreOwned
    <2>4. CalmStands'
        BY <1>0, <1>1, <2>0 DEF ClientTypes, CalmStands
    <2> QED
        BY <1>1, <2>2, <2>3, <2>4 DEF ClientInv
<1>7. CASE Client!OpenNode(c)
    <2>0. /\ callPc[c] = "node" /\ callPc' = [callPc EXCEPT ![c] = "opened"]
          /\ fd' = [fd EXCEPT ![c] = low]
          /\ low \in PdiFds /\ files[low] = NoOne /\ low # -1
          /\ UNCHANGED <<ctlFd, wanted, info, node, calm>>
        BY <1>7, LowestIsFree, ClientConstants
        DEF Client!OpenNode, Client!Step, Client!callVars
    <2>1. PICK d \in nodes : /\ files' = [files EXCEPT ![low] = d]
                             /\ TypeOf[d] = KindOf[c] /\ index[d] = node[c]
        BY <1>7 DEF Client!OpenNode, Client!NodeOf
    <2> HIDE DEF low
    <2>2. d \in Devices /\ fd[c] = -1
        BY <1>0, <2>0 DEF ClientTypes, FilesAreOwned
    <2>3. ClientTypes'
        BY <1>0, <1>1, <2>0, <2>1, <2>2 DEF ClientTypes, ClientPlaces, Client!Results
    <2>4. FilesAreOwned'
        BY <1>0, <2>0, <2>1, <2>2, ClientConstants DEF ClientTypes, FilesAreOwned
    <2>5. calm[c] => d = wanted[c]
        BY <1>0, <2>0, <2>1 DEF ClientTypes, NumbersDiffer, CalmStands
    <2>6. CalmStands'
        BY <1>0, <1>1, <2>0, <2>1, <2>5, ClientConstants
        DEF ClientTypes, CalmStands, FilesAreOwned
    <2> QED
        BY <1>1, <2>3, <2>4, <2>6 DEF ClientInv
<1>8. CASE Client!OpenNodeFails(c)
    <2>0. /\ callPc[c] = "node" /\ UNCHANGED <<files, fd, ctlFd, wanted, info, node, calm>>
          /\ \/ callPc' = [callPc EXCEPT ![c] = "EMFILE"]
             \/ /\ callPc' = [callPc EXCEPT ![c] = "ENOENT"]
                /\ Client!NodeOf(KindOf[c], node[c]) = {}
        BY <1>8 DEF Client!OpenNodeFails, Client!Step, Client!callVars
    <2>1. calm[c] => wanted[c] \in Client!NodeOf(KindOf[c], node[c])
        BY <1>0, <2>0 DEF CalmStands, Client!NodeOf
    <2>2. ClientTypes'
        BY <1>0, <1>1, <2>0 DEF ClientTypes, ClientPlaces, Client!Results
    <2>3. FilesAreOwned'
        BY <1>0, <2>0 DEF ClientTypes, FilesAreOwned
    <2>4. CalmStands'
        BY <1>0, <1>1, <2>0, <2>1 DEF ClientTypes, CalmStands
    <2> QED
        BY <1>1, <2>2, <2>3, <2>4 DEF ClientInv
<1>9. CASE Client!Return(c)
    <2>0. /\ callPc[c] \in Client!Results /\ callPc' = [callPc EXCEPT ![c] = "idle"]
          /\ wanted' = [wanted EXCEPT ![c] = NoOne] /\ info' = [info EXCEPT ![c] = NoOne]
          /\ node' = [node EXCEPT ![c] = -1] /\ calm' = [calm EXCEPT ![c] = FALSE]
          /\ UNCHANGED <<files, fd, ctlFd>>
        BY <1>9 DEF Client!Return
    <2>2. ClientTypes'
        BY <1>0, <1>1, <2>0 DEF ClientTypes, ClientPlaces
    <2>3. FilesAreOwned'
        BY <1>0, <2>0 DEF ClientTypes, FilesAreOwned, Client!Results
    <2>4. CalmStands'
        BY <1>0, <1>1, <2>0 DEF ClientTypes, CalmStands
    <2> QED
        BY <1>1, <2>2, <2>3, <2>4 DEF ClientInv
<1>10. CASE Client!Close(c)
    <2>0. /\ callPc[c] = "idle" /\ fd[c] \in PdiFds /\ fd[c] # -1
          /\ files' = [files EXCEPT ![fd[c]] = NoOne] /\ fd' = [fd EXCEPT ![c] = -1]
          /\ UNCHANGED <<ctlFd, callPc, wanted, info, node, calm>>
        BY <1>0, <1>10 DEF Client!Close, Client!callVars, ClientTypes
    <2>2. ClientTypes'
        BY <1>0, <1>1, <2>0 DEF ClientTypes
    <2>3. FilesAreOwned'
        BY <1>0, <2>0, ClientConstants DEF ClientTypes, FilesAreOwned
    <2>4. CalmStands'
        BY <1>0, <1>1, <2>0 DEF ClientTypes, CalmStands, FilesAreOwned
    <2> QED
        BY <1>1, <2>2, <2>3, <2>4 DEF ClientInv
<1> QED
    BY <1>2, <1>3, <1>4, <1>5, <1>6, <1>7, <1>8, <1>9, <1>10 DEF Client!Call

LEMMA StepClient == ClientInv /\ [Client!Next]_(Client!pdiVars) => ClientInv'
<1> SUFFICES ASSUME ClientInv, [Client!Next]_(Client!pdiVars) PROVE ClientInv'
    OBVIOUS
<1>1. CASE UNCHANGED Client!pdiVars
    BY <1>1 DEF Client!pdiVars, Client!deviceVars, Client!callVars, ClientInv, ClientTypes,
                NumbersDiffer, FilesAreOwned, CalmStands
<1>2. CASE Client!Next
    BY <1>2, DeviceMoves, CallMoves DEF Client!Next
<1> QED
    BY <1>1, <1>2

(* A descriptor that one context or call has, each at most one, is counted once.  *)
LEMMA ClientCounts == ClientInv => Client!DescriptorsExact /\ Client!CalmOpenIsRight
<1> SUFFICES ASSUME ClientInv PROVE Client!DescriptorsExact /\ Client!CalmOpenIsRight
    OBVIOUS
<1>0. ClientTypes /\ FilesAreOwned /\ CalmStands
    BY DEF ClientInv
<1>1. \A S : Client!Cardinality(S) = Cardinality(S)
    BY DEF Client!Cardinality, Cardinality
<1>2. ASSUME NEW f \in PdiFds
      PROVE  Cardinality({c \in Contexts : fd[c] = f}) + Cardinality({c \in Contexts : ctlFd[c] = f})
               = IF files[f] = NoOne THEN 0 ELSE 1
    <2> DEFINE A == {c \in Contexts : fd[c] = f}
               B == {c \in Contexts : ctlFd[c] = f}
    <2>0. f # -1
        BY ClientConstants
    <2>1. CASE files[f] = NoOne
        <3>1. A = {} /\ B = {}
            BY <1>0, <2>0, <2>1, ClientConstants DEF FilesAreOwned
        <3> QED
            BY <2>1, <3>1, FS_EmptySet
    <2>2. CASE files[f] = "ctl"
        <3>1. A = {}
            BY <1>0, <2>0, <2>2, ClientConstants DEF FilesAreOwned
        <3>2. PICK c \in Contexts : ctlFd[c] = f
            BY <1>0, <2>2, <3>1, ClientConstants DEF FilesAreOwned
        <3>3. B = {c}
            BY <1>0, <2>0, <3>2 DEF FilesAreOwned
        <3>4. Cardinality(A) = 0 /\ Cardinality(B) = 1
            BY <3>1, <3>3, FS_EmptySet, FS_Singleton
        <3> QED
            BY <2>2, <3>4, ClientConstants
    <2>3. CASE files[f] \in Devices
        <3>1. B = {}
            BY <1>0, <2>0, <2>3, ClientConstants DEF FilesAreOwned
        <3>2. PICK c \in Contexts : fd[c] = f
            BY <1>0, <2>3, <3>1, ClientConstants DEF FilesAreOwned
        <3>3. A = {c}
            BY <1>0, <2>0, <3>2 DEF FilesAreOwned
        <3>4. Cardinality(A) = 1 /\ Cardinality(B) = 0
            BY <3>1, <3>3, FS_EmptySet, FS_Singleton
        <3> QED
            BY <2>3, <3>4, ClientConstants
    <2> QED
        BY <1>0, <2>1, <2>2, <2>3 DEF ClientTypes
<1>3. Client!DescriptorsExact
    BY <1>0, <1>1, <1>2 DEF Client!DescriptorsExact, FilesAreOwned
<1>4. Client!CalmOpenIsRight
    BY <1>0 DEF Client!CalmOpenIsRight, CalmStands
<1> QED
    BY <1>3, <1>4
-----------------------------------------------------------------------------
(* The tables of shared memory, for a thread in each process.  What a thread has  *)
(* under way: a descriptor that has no handle yet, and an entry of the table.    *)
OneThreadEach == \A t, u \in Threads : ProcessOf[t] = ProcessOf[u] => t = u

TablePlaces == {"idle", "alloc", "write", "full", "free"}
Slot == [fd : TableFds \cup {-1}, size : Nat]
Owned == [handle : Table!Handles, object : Objects]

TableTypes ==
    /\ shm_table \in [Table!Procs -> [Table!Handles -> Slot]]
    /\ shm_table_initialized \in [Table!Procs -> BOOLEAN]
    /\ shmOpen \in [Table!Procs -> [TableFds -> Objects \cup {NoOne, "stdin"}]]
    /\ named \in [ShmNames -> Objects \cup {NoOne}]
    /\ owned \in [Table!Procs -> SUBSET Owned]
    /\ tablePc \in [Threads -> TablePlaces]
    /\ got \in [Threads -> TableFds \cup {-1}]
    /\ found \in [Threads -> Table!Handles \cup {-1}]
    /\ asks \in [Threads -> Nat]

(* A handle that a process has got leads to its object, by an entry and a         *)
(* descriptor that are no other's.                                           *)
HomeStays(p) == shmOpen[p][0] = "stdin"

HandlesLead(p) ==
    /\ owned[p] # {} => shm_table_initialized[p]
    /\ \A o \in owned[p] :
          LET d == shm_table[p][o.handle].fd IN
          d # -1 /\ d # 0 /\ shmOpen[p][d] = o.object

HandlesDiffer(p) ==
    \A o, q \in owned[p] : o # q =>
       o.handle # q.handle /\ shm_table[p][o.handle].fd # shm_table[p][q.handle].fd

HandlesAreGood(p) == HomeStays(p) /\ HandlesLead(p) /\ HandlesDiffer(p)

(* A thread that has a descriptor under way is the only one to know of it, the    *)
(* entry it has found stays as it was found, and no descriptor is forgotten.     *)
CallHasFd(t, p) ==
    /\ got[t] # -1 <=> tablePc[t] \in {"alloc", "write", "full"}
    /\ got[t] # -1 => got[t] # 0 /\ shmOpen[p][got[t]] \in Objects
    /\ got[t] # -1 => \A o \in owned[p] : shm_table[p][o.handle].fd # got[t]

CallHasEntry(t, p) ==
    /\ tablePc[t] = "write" =>
          shm_table_initialized[p] /\ found[t] # -1 /\ shm_table[p][found[t]].fd = -1
    /\ tablePc[t] = "free" =>
          found[t] # -1 /\ \A o \in owned[p] : o.handle # found[t]

NoneIsLost(t, p) ==
    \A d \in TableFds \ {0} : shmOpen[p][d] # NoOne =>
       d = got[t] \/ \E o \in owned[p] : shm_table[p][o.handle].fd = d

CallsAreGood(t, p) == CallHasFd(t, p) /\ CallHasEntry(t, p) /\ NoneIsLost(t, p)

TablesAreGood ==
    \A t \in Threads : HandlesAreGood(ProcessOf[t]) /\ CallsAreGood(t, ProcessOf[t])

TableInv == TableTypes /\ TablesAreGood

LEMMA TableConstants ==
    /\ Sizes \subseteq Nat \ {0} /\ Slots \in Nat \ {0}
    /\ 0 \in TableFds /\ TableFds \subseteq Nat
    /\ NoOne \notin Objects /\ NoOne # "stdin"
    /\ Table!Handles \subseteq Nat /\ 0 \in Table!Handles
    /\ \A t \in Threads : ProcessOf[t] \in Table!Procs
BY UserConstants DEF Table!TableAssumption, Table!Handles, Table!Procs

LEMMA InitTable == Table!Init => TableInv
<1> SUFFICES ASSUME Table!Init PROVE TableInv
    OBVIOUS
<1>1. TableTypes
    BY TableConstants DEF Table!Init, TableTypes, TablePlaces, Slot, Owned
<1>2. TablesAreGood
    BY TableConstants DEF Table!Init, TablesAreGood, HandlesAreGood, CallsAreGood,
        HomeStays, HandlesLead, HandlesDiffer, CallHasFd,
        CallHasEntry, NoneIsLost
<1> QED
    BY <1>1, <1>2 DEF TableInv

(* A step of one thread leaves the process of every other as it is.             *)
LEMMA OthersTablesStand ==
    ASSUME OneThreadEach, TableInv, TableTypes', NEW t \in Threads,
           \A p \in Table!Procs : p # ProcessOf[t] =>
              /\ shm_table'[p] = shm_table[p] /\ shmOpen'[p] = shmOpen[p]
              /\ shm_table_initialized'[p] = shm_table_initialized[p]
              /\ owned'[p] = owned[p],
           \A u \in Threads : u # t =>
              got'[u] = got[u] /\ found'[u] = found[u] /\ tablePc'[u] = tablePc[u],
           HandlesAreGood(ProcessOf[t])', CallsAreGood(t, ProcessOf[t])'
    PROVE  TableInv'
<1>1. ASSUME NEW u \in Threads, u # t
      PROVE  HandlesAreGood(ProcessOf[u])' /\ CallsAreGood(u, ProcessOf[u])'
    <2>1. ProcessOf[u] # ProcessOf[t] /\ ProcessOf[u] \in Table!Procs
        BY <1>1, TableConstants DEF OneThreadEach
    <2>2. HandlesAreGood(ProcessOf[u]) /\ CallsAreGood(u, ProcessOf[u])
        BY DEF TableInv, TablesAreGood
    <2>3. /\ shm_table'[ProcessOf[u]] = shm_table[ProcessOf[u]]
          /\ shmOpen'[ProcessOf[u]] = shmOpen[ProcessOf[u]]
          /\ shm_table_initialized'[ProcessOf[u]] = shm_table_initialized[ProcessOf[u]]
          /\ owned'[ProcessOf[u]] = owned[ProcessOf[u]]
          /\ got'[u] = got[u] /\ found'[u] = found[u] /\ tablePc'[u] = tablePc[u]
        BY <1>1, <2>1
    <2> QED
        <3>0. HomeStays(ProcessOf[u])'
            BY <2>2, <2>3 DEF HandlesAreGood, HomeStays
        <3>1. HandlesLead(ProcessOf[u])'
            <4>0. HandlesLead(ProcessOf[u])
                BY <2>2 DEF HandlesAreGood
            <4>1. owned'[ProcessOf[u]] # {} => shm_table_initialized'[ProcessOf[u]]
                BY <2>3, <4>0 DEF HandlesLead
            <4>2. ASSUME NEW o \in owned'[ProcessOf[u]]
                  PROVE  LET d == shm_table'[ProcessOf[u]][o.handle].fd IN
                         d # -1 /\ d # 0 /\ shmOpen'[ProcessOf[u]][d] = o.object
                <5>1. o \in owned[ProcessOf[u]]
                    BY <2>3
                <5>2. LET d == shm_table[ProcessOf[u]][o.handle].fd IN
                      d # -1 /\ d # 0 /\ shmOpen[ProcessOf[u]][d] = o.object
                    BY <4>0, <5>1 DEF HandlesLead
                <5> QED
                    BY <2>3, <5>2
            <4> QED
                BY <4>1, <4>2 DEF HandlesLead
        <3>2. HandlesDiffer(ProcessOf[u])'
            BY <2>2, <2>3 DEF HandlesAreGood, HandlesDiffer
        <3>3. CallHasFd(u, ProcessOf[u])'
            BY <2>2, <2>3 DEF CallsAreGood, CallHasFd
        <3>4. CallHasEntry(u, ProcessOf[u])'
            BY <2>2, <2>3 DEF CallsAreGood, CallHasEntry
        <3>5. NoneIsLost(u, ProcessOf[u])'
            BY <2>2, <2>3 DEF CallsAreGood, NoneIsLost
        <3> QED
            BY <3>0, <3>1, <3>2, <3>3, <3>4, <3>5 DEF HandlesAreGood, CallsAreGood
<1>2. TablesAreGood'
    BY <1>1 DEF TablesAreGood
<1> QED
    BY <1>2 DEF TableInv

(* osal_shm_create takes a descriptor that is free.                            *)
LEMMA NewFdIsFree ==
    ASSUME NEW p, \E d \in TableFds : shmOpen[p][d] = NoOne
    PROVE  Table!NewFd(p) \in TableFds /\ shmOpen[p][Table!NewFd(p)] = NoOne
<1> DEFINE S == {d \in TableFds : shmOpen[p][d] = NoOne}
<1>1. S \in SUBSET Nat /\ S # {}
    BY TableConstants
<1>2. \E d \in S : \A e \in S : d <= e
    BY <1>1, HasLowest
<1>3. \E d \in TableFds :
         shmOpen[p][d] = NoOne /\ \A e \in TableFds : shmOpen[p][e] = NoOne => d <= e
    BY <1>2
<1> QED
    BY <1>3 DEF Table!NewFd

LEMMA CreateMoves ==
    ASSUME OneThreadEach, TableInv, NEW t \in Threads, Table!Create(t) PROVE TableInv'
<1>p. PICK p \in Table!Procs : p = ProcessOf[t]
    BY TableConstants
<1> DEFINE d == Table!NewFd(p)
<1>0. /\ TableTypes /\ HandlesAreGood(p) /\ CallsAreGood(t, p)
      /\ d \in TableFds /\ shmOpen[p][d] = NoOne
      /\ UNCHANGED <<shm_table, shm_table_initialized, owned, found>>
      /\ tablePc[t] = "idle"
    BY <1>p, TableConstants, NewFdIsFree DEF TableInv, TablesAreGood, Table!Create, Table!tableVars
<1>h. /\ HomeStays(p) /\ HandlesLead(p) /\ HandlesDiffer(p)
      /\ CallHasFd(t, p) /\ CallHasEntry(t, p) /\ NoneIsLost(t, p)
    BY <1>0 DEF HandlesAreGood, CallsAreGood
<1>1. PICK n \in ShmNames, size \in Sizes, o \in Objects :
         /\ named' = [named EXCEPT ![n] = o]
         /\ \/ UNCHANGED <<shmOpen, got, asks, tablePc>>
            \/ /\ tablePc' = [tablePc EXCEPT ![t] = "alloc"]
               /\ shmOpen' = [shmOpen EXCEPT ![p][d] = o]
               /\ got' = [got EXCEPT ![t] = d]
               /\ asks' = [asks EXCEPT ![t] = size]
    <2>1. PICK n \in ShmNames, size \in Sizes, create \in BOOLEAN, readOnly \in BOOLEAN :
             /\ named[n] = NoOne => create /\ Objects \ Table!Reached # {}
             /\ LET fresh == named[n] = NoOne
                    o == IF fresh THEN CHOOSE o \in Objects \ Table!Reached : TRUE
                         ELSE named[n]
                    fails == create /\ readOnly
                IN /\ named' = [named EXCEPT ![n] = o]
                   /\ length' = [length EXCEPT ![o] =
                        IF create /\ ~fails THEN size ELSE IF fresh THEN 0 ELSE @]
                   /\ IF fails
                      THEN UNCHANGED <<shmOpen, got, asks, tablePc>>
                      ELSE /\ Table!Goto(t, "idle", "alloc")
                           /\ shmOpen' = [shmOpen EXCEPT
                                 ![ProcessOf[t]][Table!NewFd(ProcessOf[t])] = o]
                           /\ got' = [got EXCEPT ![t] = Table!NewFd(ProcessOf[t])]
                           /\ asks' = [asks EXCEPT ![t] = size]
        BY DEF Table!Create
    <2> DEFINE o == IF named[n] = NoOne THEN CHOOSE o \in Objects \ Table!Reached : TRUE
                    ELSE named[n]
    <2>2. o \in Objects
        BY <1>0, <2>1 DEF TableTypes
    <2>3. /\ named' = [named EXCEPT ![n] = o]
          /\ \/ UNCHANGED <<shmOpen, got, asks, tablePc>>
             \/ /\ tablePc' = [tablePc EXCEPT ![t] = "alloc"]
                /\ shmOpen' = [shmOpen EXCEPT ![p][d] = o]
                /\ got' = [got EXCEPT ![t] = d]
                /\ asks' = [asks EXCEPT ![t] = size]
        BY <1>p, <2>1 DEF Table!Goto
    <2> HIDE DEF o, d
    <2> QED
        BY <2>2, <2>3
<1> HIDE DEF d
<1>2. TableTypes'
    <2>1. named' \in [ShmNames -> Objects \cup {NoOne}]
        BY <1>0, <1>1 DEF TableTypes
    <2>2. size \in Nat
        BY TableConstants
    <2>3. asks' \in [Threads -> Nat] /\ got' \in [Threads -> TableFds \cup {-1}]
        <3>1. asks \in [Threads -> Nat] /\ got \in [Threads -> TableFds \cup {-1}]
            BY <1>0 DEF TableTypes
        <3>2. asks' \in [Threads -> Nat]
            BY <1>1, <2>2, <3>1
        <3>3. got' \in [Threads -> TableFds \cup {-1}]
            BY <1>0, <1>1, <3>1
        <3> QED
            BY <3>2, <3>3
    <2>4. shmOpen' \in [Table!Procs -> [TableFds -> Objects \cup {NoOne, "stdin"}]]
        <3>1. shmOpen \in [Table!Procs -> [TableFds -> Objects \cup {NoOne, "stdin"}]]
            BY <1>0 DEF TableTypes
        <3>2. p \in Table!Procs /\ d \in TableFds
            BY <1>0
        <3>3. [shmOpen EXCEPT ![p][d] = o] \in
                 [Table!Procs -> [TableFds -> Objects \cup {NoOne, "stdin"}]]
            BY <3>1, <3>2
        <3> QED
            BY <1>1, <3>1, <3>3
    <2>5. tablePc' \in [Threads -> TablePlaces]
        BY <1>0, <1>1 DEF TableTypes, TablePlaces
    <2> QED
        BY <1>0, <2>1, <2>3, <2>4, <2>5 DEF TableTypes
<1>3. CASE UNCHANGED <<shmOpen, got, asks, tablePc>>
    <2>1. HandlesAreGood(p)' /\ CallsAreGood(t, p)'
        <3>1. HomeStays(p)'
            BY <1>0, <1>h, <1>3 DEF HomeStays
        <3>2. HandlesLead(p)'
            BY <1>0, <1>h, <1>3 DEF HandlesLead
        <3>3. HandlesDiffer(p)'
            BY <1>0, <1>h, <1>3 DEF HandlesDiffer
        <3>4. CallHasFd(t, p)'
            BY <1>0, <1>h, <1>3 DEF CallHasFd
        <3>5. CallHasEntry(t, p)'
            BY <1>0, <1>h, <1>3 DEF CallHasEntry
        <3>6. NoneIsLost(t, p)'
            BY <1>0, <1>h, <1>3 DEF NoneIsLost
        <3> QED
            BY <3>1, <3>2, <3>3, <3>4, <3>5, <3>6 DEF HandlesAreGood, CallsAreGood
    <2> QED
        BY <1>0, <1>2, <1>3, <2>1, <1>p, OthersTablesStand
<1>4. CASE /\ tablePc' = [tablePc EXCEPT ![t] = "alloc"]
           /\ shmOpen' = [shmOpen EXCEPT ![p][d] = o]
           /\ got' = [got EXCEPT ![t] = d]
    <2>1. d # 0 /\ d # -1 /\ got[t] = -1 /\ \A q \in owned[p] : shm_table[p][q.handle].fd # d
        BY <1>0, <1>h, TableConstants DEF HomeStays, HandlesLead, CallHasFd, TableTypes, Owned
    <2>2. /\ shmOpen'[p][d] = o /\ \A e \in TableFds : e # d => shmOpen'[p][e] = shmOpen[p][e]
          /\ got'[t] = d /\ tablePc'[t] = "alloc"
        BY <1>0, <1>4 DEF TableTypes
    <2>3. \A q \in owned[p] : shm_table[p][q.handle].fd \in TableFds \cup {-1}
        BY <1>0 DEF TableTypes, Owned, Slot
    <2>4. HandlesAreGood(p)'
        <3>1. HomeStays(p)'
            BY <1>0, <1>h, <2>1, <2>2, <2>3, TableConstants DEF HomeStays
        <3>2. HandlesLead(p)'
            BY <1>0, <1>h, <2>1, <2>2, <2>3, TableConstants DEF HandlesLead
        <3>3. HandlesDiffer(p)'
            BY <1>0, <1>h, <2>1, <2>2, <2>3, TableConstants DEF HandlesDiffer
        <3> QED
            BY <3>1, <3>2, <3>3 DEF HandlesAreGood
    <2>5. CallsAreGood(t, p)'
        <3>1. CallHasFd(t, p)'
            BY <1>0, <1>h, <2>1, <2>2, <2>3, TableConstants DEF CallHasFd
        <3>2. CallHasEntry(t, p)'
            BY <1>0, <1>h, <2>1, <2>2, <2>3, TableConstants DEF CallHasEntry
        <3>3. NoneIsLost(t, p)'
            BY <1>0, <1>h, <2>1, <2>2, <2>3, TableConstants DEF NoneIsLost
        <3> QED
            BY <3>1, <3>2, <3>3 DEF CallsAreGood
    <2>6. /\ \A q \in Table!Procs : q # p => shmOpen'[q] = shmOpen[q]
          /\ \A u \in Threads : u # t => got'[u] = got[u] /\ tablePc'[u] = tablePc[u]
        BY <1>0, <1>4 DEF TableTypes
    <2> QED
        BY <1>0, <1>2, <2>4, <2>5, <2>6, <1>p, OthersTablesStand
<1> QED
    BY <1>1, <1>3, <1>4

LEMMA AllocMoves ==
    ASSUME OneThreadEach, TableInv, NEW t \in Threads, Table!Alloc(t) PROVE TableInv'
<1>p. PICK p \in Table!Procs : p = ProcessOf[t]
    BY TableConstants
<1> DEFINE table == IF shm_table_initialized[p] THEN shm_table[p]
                    ELSE [h \in Table!Handles |-> Table!Free]
           free == {h \in Table!Handles : table[h].fd = -1}
<1>0. /\ TableTypes /\ HandlesAreGood(p) /\ CallsAreGood(t, p)
      /\ UNCHANGED <<shmOpen, named, owned, got, asks>> /\ tablePc[t] = "alloc"
      /\ shm_table_initialized' = [shm_table_initialized EXCEPT ![p] = TRUE]
      /\ shm_table' = [shm_table EXCEPT ![p] = table]
    BY <1>p, TableConstants
    DEF TableInv, TablesAreGood, Table!Alloc, Table!systemVars, Table!Goto
<1>h. /\ HomeStays(p) /\ HandlesLead(p) /\ HandlesDiffer(p)
      /\ CallHasFd(t, p) /\ CallHasEntry(t, p) /\ NoneIsLost(t, p)
    BY <1>0 DEF HandlesAreGood, CallsAreGood
<1>1. table \in [Table!Handles -> Slot]
    BY <1>0 DEF TableTypes, Table!Free, Slot
<1>2. \/ tablePc' = [tablePc EXCEPT ![t] = "full"] /\ found' = found
      \/ /\ tablePc' = [tablePc EXCEPT ![t] = "write"]
         /\ \E h \in free : found' = [found EXCEPT ![t] = h]
    <2>1. CASE free = {}
        BY <1>p, <2>1 DEF Table!Alloc, Table!Goto
    <2>2. CASE free # {}
        <3>1. free \in SUBSET Nat
            BY TableConstants
        <3>2. \E h \in free : \A i \in free : h <= i
            BY <2>2, <3>1, HasLowest
        <3> DEFINE h == CHOOSE h \in free : \A i \in free : h <= i
        <3>3. h \in free
            BY <3>2
        <3>4. tablePc' = [tablePc EXCEPT ![t] = "write"] /\ found' = [found EXCEPT ![t] = h]
            BY <1>p, <2>2 DEF Table!Alloc, Table!Goto
        <3> HIDE DEF h
        <3> QED
            BY <3>3, <3>4
    <2> QED
        BY <2>1, <2>2
<1>3. owned[p] # {} => table = shm_table[p]
    BY <1>0, <1>h DEF HandlesLead
<1> HIDE DEF table
<1>4. TableTypes'
    <2>1. found' \in [Threads -> Table!Handles \cup {-1}]
        BY <1>0, <1>2 DEF TableTypes
    <2>2. tablePc' \in [Threads -> TablePlaces]
        BY <1>0, <1>2 DEF TableTypes, TablePlaces
    <2>3. /\ shm_table' \in [Table!Procs -> [Table!Handles -> Slot]]
          /\ shm_table_initialized' \in [Table!Procs -> BOOLEAN]
        BY <1>0, <1>1 DEF TableTypes
    <2> QED
        BY <1>0, <2>1, <2>2, <2>3 DEF TableTypes
<1>5. shm_table'[p] = table /\ shm_table_initialized'[p] = TRUE /\ owned[p] \subseteq Owned
    BY <1>0 DEF TableTypes
<1>6. HandlesAreGood(p)'
    <2>1. HomeStays(p)'
        BY <1>0, <1>h, <1>3, <1>5 DEF HomeStays
    <2>2. HandlesLead(p)'
        BY <1>0, <1>h, <1>3, <1>5 DEF HandlesLead
    <2>3. HandlesDiffer(p)'
        BY <1>0, <1>h, <1>3, <1>5 DEF HandlesDiffer
    <2> QED
        BY <2>1, <2>2, <2>3 DEF HandlesAreGood
<1>7. /\ tablePc'[t] = "full"
      \/ (tablePc'[t] = "write" /\ found'[t] \in Table!Handles /\ table[found'[t]].fd = -1)
    BY <1>0, <1>2 DEF TableTypes
<1>8. CallsAreGood(t, p)'
    <2>1. CallHasFd(t, p)'
        BY <1>0, <1>h, <1>3, <1>5, <1>7, TableConstants DEF CallHasFd
    <2>2. CallHasEntry(t, p)'
        BY <1>0, <1>h, <1>3, <1>5, <1>7, TableConstants DEF CallHasEntry
    <2>3. NoneIsLost(t, p)'
        BY <1>0, <1>h, <1>3, <1>5, <1>7, TableConstants DEF NoneIsLost
    <2> QED
        BY <2>1, <2>2, <2>3 DEF CallsAreGood
<1>9. /\ \A q \in Table!Procs : q # p =>
            /\ shm_table'[q] = shm_table[q]
            /\ shm_table_initialized'[q] = shm_table_initialized[q]
      /\ \A u \in Threads : u # t => found'[u] = found[u] /\ tablePc'[u] = tablePc[u]
    BY <1>0, <1>2 DEF TableTypes
<1> QED
    BY <1>0, <1>4, <1>6, <1>8, <1>9, <1>p, OthersTablesStand

LEMMA AllocWriteMoves ==
    ASSUME OneThreadEach, TableInv, NEW t \in Threads, Table!AllocWrite(t) PROVE TableInv'
<1>p. PICK p \in Table!Procs : p = ProcessOf[t]
    BY TableConstants
<1> DEFINE new == [handle |-> found[t], object |-> shmOpen[p][got[t]]]
           slot == [fd |-> got[t], size |-> asks[t]]
<1>0. /\ TableTypes /\ HandlesAreGood(p) /\ CallsAreGood(t, p)
      /\ UNCHANGED <<shm_table_initialized, shmOpen, named>> /\ tablePc[t] = "write"
      /\ tablePc' = [tablePc EXCEPT ![t] = "idle"]
      /\ shm_table' = [shm_table EXCEPT ![p][found[t]] = slot]
      /\ owned' = [owned EXCEPT ![p] = @ \cup {new}]
      /\ got' = [got EXCEPT ![t] = -1] /\ found' = [found EXCEPT ![t] = -1]
      /\ asks' = [asks EXCEPT ![t] = 0]
    BY <1>p, TableConstants
    DEF TableInv, TablesAreGood, Table!AllocWrite, Table!systemVars, Table!Goto
<1>h. /\ HomeStays(p) /\ HandlesLead(p) /\ HandlesDiffer(p)
      /\ CallHasFd(t, p) /\ CallHasEntry(t, p) /\ NoneIsLost(t, p)
    BY <1>0 DEF HandlesAreGood, CallsAreGood
<1>1. /\ found[t] \in Table!Handles /\ got[t] \in TableFds /\ got[t] # 0 /\ got[t] # -1
      /\ new \in Owned /\ slot \in Slot /\ shm_table_initialized[p]
      /\ shm_table[p][found[t]].fd = -1
    BY <1>0, <1>h, TableConstants DEF CallHasFd, CallHasEntry, TableTypes, Owned, Slot
<1>2. /\ slot.fd = got[t] /\ new.handle = found[t] /\ new.object = shmOpen[p][got[t]]
    OBVIOUS
<1> HIDE DEF new, slot
<1>3. TableTypes'
    BY <1>0, <1>1 DEF TableTypes, TablePlaces
<1>4. /\ \A h \in Table!Handles :
            shm_table'[p][h] = IF h = found[t] THEN slot ELSE shm_table[p][h]
      /\ owned'[p] = owned[p] \cup {new} /\ owned[p] \subseteq Owned
      /\ got'[t] = -1 /\ found'[t] = -1 /\ tablePc'[t] = "idle"
    BY <1>0, <1>1 DEF TableTypes
<1>5. \A o \in owned[p] :
         /\ o.handle \in Table!Handles /\ o.handle # found[t]
         /\ shm_table'[p][o.handle] = shm_table[p][o.handle]
         /\ shm_table[p][o.handle].fd # got[t]
    BY <1>0, <1>h, <1>1, <1>4 DEF HandlesLead, CallHasFd, Owned
<1>6. shm_table'[p][new.handle].fd = got[t]
    BY <1>1, <1>2, <1>4
<1>o. shmOpen' = shmOpen /\ shm_table_initialized' = shm_table_initialized
    BY <1>0
<1>7. HandlesAreGood(p)'
    <2>1. HomeStays(p)'
        BY <1>0, <1>h, <1>1, <1>2, <1>4, <1>5, <1>6 DEF HomeStays
    <2>2. HandlesLead(p)'
        BY <1>h, <1>1, <1>2, <1>4, <1>5, <1>6, <1>o DEF HandlesLead
    <2>3. HandlesDiffer(p)'
        BY <1>0, <1>h, <1>1, <1>2, <1>4, <1>5, <1>6 DEF HandlesDiffer
    <2> QED
        BY <2>1, <2>2, <2>3 DEF HandlesAreGood
<1>8. CallsAreGood(t, p)'
    <2>1. CallHasFd(t, p)'
        BY <1>0, <1>h, <1>1, <1>2, <1>4, <1>5, <1>6, TableConstants DEF CallHasFd
    <2>2. CallHasEntry(t, p)'
        BY <1>0, <1>h, <1>1, <1>2, <1>4, <1>5, <1>6, TableConstants DEF CallHasEntry
    <2>3. NoneIsLost(t, p)'
        BY <1>0, <1>h, <1>1, <1>2, <1>4, <1>5, <1>6, TableConstants DEF NoneIsLost
    <2> QED
        BY <2>1, <2>2, <2>3 DEF CallsAreGood
<1>9. /\ \A q \in Table!Procs : q # p => shm_table'[q] = shm_table[q] /\ owned'[q] = owned[q]
      /\ \A u \in Threads : u # t =>
            got'[u] = got[u] /\ found'[u] = found[u] /\ tablePc'[u] = tablePc[u]
    BY <1>0 DEF TableTypes
<1> QED
    BY <1>0, <1>3, <1>7, <1>8, <1>9, <1>p, OthersTablesStand

(* osal_shm_create gives the descriptor back when the table is full.            *)
LEMMA CreateFullMoves ==
    ASSUME OneThreadEach, TableInv, NEW t \in Threads, Table!CreateFull(t) PROVE TableInv'
<1>p. PICK p \in Table!Procs : p = ProcessOf[t]
    BY TableConstants
<1> DEFINE d == got[t]
<1>0. /\ TableTypes /\ HandlesAreGood(p) /\ CallsAreGood(t, p)
      /\ UNCHANGED <<shm_table, shm_table_initialized, named, owned, found>>
      /\ tablePc[t] = "full" /\ tablePc' = [tablePc EXCEPT ![t] = "idle"]
      /\ shmOpen' = [shmOpen EXCEPT ![p][d] = NoOne]
      /\ got' = [got EXCEPT ![t] = -1] /\ asks' = [asks EXCEPT ![t] = 0]
    BY <1>p, TableConstants
    DEF TableInv, TablesAreGood, Table!CreateFull, Table!tableVars, Table!Goto
<1>h. /\ HomeStays(p) /\ HandlesLead(p) /\ HandlesDiffer(p)
      /\ CallHasFd(t, p) /\ CallHasEntry(t, p) /\ NoneIsLost(t, p)
    BY <1>0 DEF HandlesAreGood, CallsAreGood
<1>1. /\ d \in TableFds /\ d # 0 /\ d # -1 /\ owned[p] \subseteq Owned
      /\ \A o \in owned[p] : shm_table[p][o.handle].fd # d
    BY <1>0, <1>h DEF CallHasFd, TableTypes
<1> HIDE DEF d
<1>2. TableTypes'
    BY <1>0, <1>1 DEF TableTypes, TablePlaces
<1>3. /\ \A e \in TableFds : shmOpen'[p][e] = IF e = d THEN NoOne ELSE shmOpen[p][e]
      /\ got'[t] = -1 /\ tablePc'[t] = "idle"
      /\ \A o \in owned[p] : shm_table[p][o.handle].fd \in TableFds \cup {-1}
    BY <1>0, <1>1 DEF TableTypes, Owned, Slot
<1>4. HandlesAreGood(p)'
    <2>1. HomeStays(p)'
        BY <1>0, <1>h, <1>1, <1>3, TableConstants DEF HomeStays
    <2>2. HandlesLead(p)'
        BY <1>0, <1>h, <1>1, <1>3, TableConstants DEF HandlesLead
    <2>3. HandlesDiffer(p)'
        BY <1>0, <1>h, <1>1, <1>3, TableConstants DEF HandlesDiffer
    <2> QED
        BY <2>1, <2>2, <2>3 DEF HandlesAreGood
<1>5. CallsAreGood(t, p)'
    <2>1. CallHasFd(t, p)'
        BY <1>0, <1>h, <1>1, <1>3 DEF CallHasFd, d
    <2>2. CallHasEntry(t, p)'
        BY <1>0, <1>h, <1>1, <1>3 DEF CallHasEntry, d
    <2>3. NoneIsLost(t, p)'
        BY <1>0, <1>h, <1>1, <1>3 DEF NoneIsLost, d
    <2> QED
        BY <2>1, <2>2, <2>3 DEF CallsAreGood
<1>6. /\ \A q \in Table!Procs : q # p => shmOpen'[q] = shmOpen[q]
      /\ \A u \in Threads : u # t => got'[u] = got[u] /\ tablePc'[u] = tablePc[u]
    BY <1>0 DEF TableTypes
<1> QED
    BY <1>0, <1>2, <1>4, <1>5, <1>6, <1>p, OthersTablesStand

(* osal_shm_close closes the descriptor of a handle, and of no other.          *)
LEMMA CloseMoves ==
    ASSUME OneThreadEach, TableInv, NEW t \in Threads, Table!Close(t) PROVE TableInv'
<1>p. PICK p \in Table!Procs : p = ProcessOf[t]
    BY TableConstants
<1>0. /\ TableTypes /\ HandlesAreGood(p) /\ CallsAreGood(t, p)
      /\ UNCHANGED <<shm_table, shm_table_initialized, named, got, asks>>
      /\ tablePc[t] = "idle" /\ tablePc' = [tablePc EXCEPT ![t] = "free"]
    BY <1>p, TableConstants
    DEF TableInv, TablesAreGood, Table!Close, Table!tableVars, Table!Goto
<1>h. /\ HomeStays(p) /\ HandlesLead(p) /\ HandlesDiffer(p)
      /\ CallHasFd(t, p) /\ CallHasEntry(t, p) /\ NoneIsLost(t, p)
    BY <1>0 DEF HandlesAreGood, CallsAreGood
<1>1. PICK x \in owned[p] :
         /\ owned' = [owned EXCEPT ![p] = {o \in owned[p] : o.handle # x.handle}]
         /\ shmOpen' = [shmOpen EXCEPT ![p][shm_table[p][x.handle].fd] = NoOne]
         /\ found' = [found EXCEPT ![t] = x.handle]
    <2>1. PICK h \in {o.handle : o \in owned[p]} :
             /\ owned' = [owned EXCEPT ![p] = {o \in @ : o.handle # h}]
             /\ shmOpen' = [shmOpen EXCEPT ![p][shm_table[p][h].fd] = NoOne]
             /\ found' = [found EXCEPT ![t] = h]
        BY <1>p DEF Table!Close
    <2>2. PICK x \in owned[p] : h = x.handle
        BY <2>1
    <2> QED
        BY <2>1, <2>2
<1> DEFINE d == shm_table[p][x.handle].fd
<1>2. /\ x.handle \in Table!Handles /\ d \in TableFds /\ d # 0 /\ d # -1
      /\ owned[p] \subseteq Owned
    BY <1>0, <1>h, <1>1 DEF HandlesLead, TableTypes, Owned, Slot
<1>3. \A o \in owned[p] : o # x =>
         /\ o.handle # x.handle /\ shm_table[p][o.handle].fd # d
         /\ shm_table[p][o.handle].fd \in TableFds \cup {-1}
    BY <1>0, <1>h, <1>1, <1>2 DEF HandlesDiffer, TableTypes, Owned, Slot
<1>4. shmOpen' = [shmOpen EXCEPT ![p][d] = NoOne]
    BY <1>1
<1>5. got[t] = -1
    BY <1>0, <1>h DEF CallHasFd
<1>d. d = shm_table[p][x.handle].fd
    OBVIOUS
<1> HIDE DEF d
<1>6. TableTypes'
    <2>1. shmOpen' \in [Table!Procs -> [TableFds -> Objects \cup {NoOne, "stdin"}]]
        BY <1>0, <1>2, <1>4 DEF TableTypes
    <2>2. owned' \in [Table!Procs -> SUBSET Owned]
        <3>1. {o \in owned[p] : o.handle # x.handle} \in SUBSET Owned
            BY <1>2
        <3> QED
            BY <1>0, <1>1, <3>1 DEF TableTypes
    <2>3. /\ found' \in [Threads -> Table!Handles \cup {-1}]
          /\ tablePc' \in [Threads -> TablePlaces]
        BY <1>0, <1>1, <1>2 DEF TableTypes, TablePlaces
    <2> QED
        BY <1>0, <2>1, <2>2, <2>3 DEF TableTypes
<1>7. /\ \A e \in TableFds : shmOpen'[p][e] = IF e = d THEN NoOne ELSE shmOpen[p][e]
      /\ owned'[p] = owned[p] \ {x} /\ found'[t] = x.handle /\ tablePc'[t] = "free"
    BY <1>0, <1>1, <1>2, <1>3, <1>4 DEF TableTypes
<1>8. HandlesAreGood(p)'
    <2>1. HomeStays(p)'
        BY <1>0, <1>h, <1>2, <1>3, <1>7, TableConstants DEF HomeStays
    <2>2. HandlesLead(p)'
        BY <1>0, <1>h, <1>2, <1>3, <1>7, TableConstants DEF HandlesLead
    <2>3. HandlesDiffer(p)'
        BY <1>0, <1>h, <1>2, <1>3, <1>7, TableConstants DEF HandlesDiffer
    <2> QED
        BY <2>1, <2>2, <2>3 DEF HandlesAreGood
<1>9. CallsAreGood(t, p)'
    <2>1. CallHasFd(t, p)'
        BY <1>0, <1>h, <1>2, <1>3, <1>5, <1>7, <1>d, TableConstants DEF CallHasFd
    <2>2. CallHasEntry(t, p)'
        BY <1>0, <1>h, <1>2, <1>3, <1>5, <1>7, <1>d, TableConstants DEF CallHasEntry
    <2>3. NoneIsLost(t, p)'
        BY <1>0, <1>h, <1>2, <1>3, <1>5, <1>7, <1>d, TableConstants DEF NoneIsLost
    <2> QED
        BY <2>1, <2>2, <2>3 DEF CallsAreGood
<1>10. /\ \A q \in Table!Procs : q # p => shmOpen'[q] = shmOpen[q] /\ owned'[q] = owned[q]
       /\ \A u \in Threads : u # t => found'[u] = found[u] /\ tablePc'[u] = tablePc[u]
    BY <1>0, <1>1, <1>4 DEF TableTypes
<1> QED
    BY <1>0, <1>6, <1>8, <1>9, <1>10, <1>p, OthersTablesStand

LEMMA CloseFreeMoves ==
    ASSUME OneThreadEach, TableInv, NEW t \in Threads, Table!CloseFree(t) PROVE TableInv'
<1>p. PICK p \in Table!Procs : p = ProcessOf[t]
    BY TableConstants
<1>0. /\ TableTypes /\ HandlesAreGood(p) /\ CallsAreGood(t, p)
      /\ UNCHANGED <<shm_table_initialized, shmOpen, named, owned, got, asks>>
      /\ tablePc[t] = "free" /\ tablePc' = [tablePc EXCEPT ![t] = "idle"]
      /\ shm_table' = [shm_table EXCEPT ![p][found[t]] = Table!Free]
      /\ found' = [found EXCEPT ![t] = -1]
    BY <1>p, TableConstants
    DEF TableInv, TablesAreGood, Table!CloseFree, Table!systemVars, Table!Goto
<1>h. /\ HomeStays(p) /\ HandlesLead(p) /\ HandlesDiffer(p)
      /\ CallHasFd(t, p) /\ CallHasEntry(t, p) /\ NoneIsLost(t, p)
    BY <1>0 DEF HandlesAreGood, CallsAreGood
<1>1. /\ Table!Free \in Slot /\ found[t] \in Table!Handles /\ owned[p] \subseteq Owned
      /\ \A o \in owned[p] : o.handle # found[t]
    BY <1>0, <1>h DEF CallHasEntry, TableTypes, Table!Free, Slot
<1>2. TableTypes'
    BY <1>0, <1>1 DEF TableTypes, TablePlaces
<1>3. /\ \A o \in owned[p] : shm_table'[p][o.handle] = shm_table[p][o.handle]
      /\ found'[t] = -1 /\ tablePc'[t] = "idle"
    BY <1>0, <1>1 DEF TableTypes, Owned
<1>4. HandlesAreGood(p)' /\ CallsAreGood(t, p)'
    <2>1. HomeStays(p)'
        BY <1>0, <1>h, <1>3 DEF HomeStays
    <2>2. HandlesLead(p)'
        BY <1>0, <1>h, <1>3 DEF HandlesLead
    <2>3. HandlesDiffer(p)'
        BY <1>0, <1>h, <1>3 DEF HandlesDiffer
    <2>4. CallHasFd(t, p)'
        BY <1>0, <1>h, <1>3 DEF CallHasFd
    <2>5. CallHasEntry(t, p)'
        BY <1>0, <1>h, <1>3 DEF CallHasEntry
    <2>6. NoneIsLost(t, p)'
        BY <1>0, <1>h, <1>3 DEF NoneIsLost
    <2> QED
        BY <2>1, <2>2, <2>3, <2>4, <2>5, <2>6 DEF HandlesAreGood, CallsAreGood
<1>5. /\ \A q \in Table!Procs : q # p => shm_table'[q] = shm_table[q]
      /\ \A u \in Threads : u # t => found'[u] = found[u] /\ tablePc'[u] = tablePc[u]
    BY <1>0 DEF TableTypes
<1> QED
    BY <1>0, <1>2, <1>4, <1>5, <1>p, OthersTablesStand

LEMMA TablesStand ==
    ASSUME TablesAreGood,
           UNCHANGED <<shm_table, shm_table_initialized, shmOpen, owned, tablePc, got, found>>
    PROVE  TablesAreGood'
<1> SUFFICES ASSUME NEW u \in Threads
             PROVE  HandlesAreGood(ProcessOf[u])' /\ CallsAreGood(u, ProcessOf[u])'
    BY DEF TablesAreGood
<1>1. HandlesAreGood(ProcessOf[u]) /\ CallsAreGood(u, ProcessOf[u])
    BY DEF TablesAreGood
<1> QED
    BY <1>1 DEF HandlesAreGood, CallsAreGood, HomeStays, HandlesLead, HandlesDiffer,
                    CallHasFd, CallHasEntry, NoneIsLost

(* Mappings and names do not touch the descriptors.                           *)
LEMMA StepTable ==
    ASSUME OneThreadEach PROVE TableInv /\ [Table!Next]_(Table!shmVars) => TableInv'
<1> SUFFICES ASSUME TableInv, [Table!Next]_(Table!shmVars) PROVE TableInv'
    OBVIOUS
<1>1. ASSUME NEW t \in Threads, Table!Map(t) \/ Table!Unmap(t) \/ Table!Remove(t) PROVE TableInv'
    <2>0. TableTypes /\ TablesAreGood
        BY DEF TableInv
    <2>1. UNCHANGED <<shm_table, shm_table_initialized, shmOpen, owned, tablePc, got, found,
                      asks>>
        BY <1>1 DEF Table!Map, Table!Unmap, Table!Remove, Table!tableVars
    <2>2. named' \in [ShmNames -> Objects \cup {NoOne}]
        BY <1>1, <2>0 DEF Table!Map, Table!Unmap, Table!Remove, TableTypes
    <2>3. TableTypes'
        BY <2>0, <2>1, <2>2 DEF TableTypes
    <2>4. TablesAreGood'
        BY <2>0, <2>1, TablesStand
    <2> QED
        BY <2>3, <2>4 DEF TableInv
<1>2. CASE UNCHANGED Table!shmVars
    <2>1. UNCHANGED <<shm_table, shm_table_initialized, shmOpen, named, owned, tablePc, got,
                      found, asks>>
        BY <1>2 DEF Table!shmVars, Table!tableVars, Table!systemVars
    <2>2. TableTypes'
        BY <2>1 DEF TableInv, TableTypes
    <2> QED
        BY <2>1, <2>2, TablesStand DEF TableInv
<1>3. CASE Table!Next
    BY <1>1, <1>3, CreateMoves, AllocMoves, AllocWriteMoves, CreateFullMoves, CloseMoves,
       CloseFreeMoves DEF Table!Next
<1> QED
    BY <1>2, <1>3

(* The descriptors of a process are those of its handles, one for each, and that  *)
(* of the call under way.                                                     *)
LEMMA TableCounts ==
    ASSUME OneThreadEach, TableInv PROVE Table!HandlesLeadHome
<1>0. TableTypes /\ TablesAreGood
    BY DEF TableInv
<1>1. \A S : Table!Cardinality(S) = Cardinality(S)
    BY DEF Table!Cardinality, Cardinality
<1>3. \A p \in Table!Procs : \E t \in Threads : p = ProcessOf[t]
    BY DEF Table!Procs
<1> SUFFICES ASSUME NEW p \in Table!Procs
             PROVE  LET underWay == {got[u] : u \in {u \in Threads : ProcessOf[u] = p}} \ {-1} IN
                    /\ shmOpen[p][0] = "stdin"
                    /\ \A o \in owned[p] :
                          /\ shm_table[p][o.handle].fd # -1
                          /\ shmOpen[p][shm_table[p][o.handle].fd] = o.object
                    /\ Table!Cardinality({d \in TableFds \ {0} : shmOpen[p][d] # NoOne}) =
                          Table!Cardinality(owned[p]) + Table!Cardinality(underWay)
    BY DEF Table!HandlesLeadHome
<1>4. PICK t \in Threads : p = ProcessOf[t]
    BY <1>3
<1> DEFINE A == {got[u] : u \in {u \in Threads : ProcessOf[u] = p}} \ {-1}
           D == {d \in TableFds \ {0} : shmOpen[p][d] # NoOne}
<1>5. /\ shmOpen[p][0] = "stdin"
      /\ \A o \in owned[p] : /\ shm_table[p][o.handle].fd # -1
                             /\ shmOpen[p][shm_table[p][o.handle].fd] = o.object
      /\ Cardinality(D) = Cardinality(owned[p]) + Cardinality(A)
    <2>0. HandlesAreGood(p) /\ CallsAreGood(t, p) /\ p \in Table!Procs
        BY <1>0, <1>4, TableConstants DEF TablesAreGood
    <2>h. /\ HomeStays(p) /\ HandlesLead(p) /\ HandlesDiffer(p)
          /\ CallHasFd(t, p) /\ NoneIsLost(t, p)
        BY <2>0 DEF HandlesAreGood, CallsAreGood
    <2> DEFINE F(o) == shm_table[p][o.handle].fd
               B == {F(o) : o \in owned[p]}
    <2>1. A = {got[t]} \ {-1}
        BY <1>4 DEF OneThreadEach
    <2>2. \A o \in owned[p] :
             /\ o.handle \in Table!Handles /\ F(o) \in TableFds \ {0} /\ F(o) # -1
             /\ shmOpen[p][F(o)] = o.object /\ o.object # NoOne
        <3>1. /\ owned[p] \subseteq Owned /\ shm_table[p] \in [Table!Handles -> Slot]
            BY <1>0, <2>0 DEF TableTypes
        <3> QED
            BY <2>0, <2>h, <3>1, TableConstants DEF HandlesLead, Slot, Owned
    <2>3. got[t] # -1 => got[t] \in TableFds \ {0} /\ shmOpen[p][got[t]] # NoOne
        BY <1>0, <2>0, <2>h, TableConstants DEF CallHasFd, TableTypes
    <2>4. IsFiniteSet(owned[p])
        <3> DEFINE H == [o \in owned[p] |-> o.handle]
        <3>1. H \in Injection(owned[p], Table!Handles)
            BY <2>0, <2>h, <2>2 DEF HandlesDiffer, Injection, IsInjective
        <3>2. IsFiniteSet(Table!Handles)
            BY TableConstants, FS_Interval DEF Table!Handles
        <3> HIDE DEF H
        <3> QED
            BY <3>1, <3>2, FS_Injection
    <2>5. IsFiniteSet(B) /\ Cardinality(B) = Cardinality(owned[p])
        <3> DEFINE G == [o \in owned[p] |-> F(o)]
        <3>1. G \in Bijection(owned[p], B)
            BY <2>0, <2>h DEF HandlesDiffer, Bijection, Injection, Surjection, IsInjective
        <3> HIDE DEF G, B
        <3> QED
            BY <2>4, <3>1, FS_Bijection DEF ExistsBijection
    <2>6. D = A \cup B /\ A \cap B = {}
        <3>1. B \subseteq D /\ A \subseteq D
            BY <2>1, <2>2, <2>3
        <3>2. \A d \in D : d = got[t] \/ \E o \in owned[p] : F(o) = d
            BY <2>0, <2>h DEF NoneIsLost
        <3>3. \A d \in D : d # -1
            BY TableConstants
        <3>4. D \subseteq A \cup B
            BY <2>1, <3>2, <3>3
        <3>5. \A o \in owned[p] : got[t] # -1 => F(o) # got[t]
            BY <2>0, <2>h DEF CallHasFd
        <3> QED
            BY <2>1, <3>1, <3>4, <3>5
    <2>7. IsFiniteSet(A) /\ Cardinality(A \cap B) = 0
        <3>1. IsFiniteSet({got[t]}) /\ A \subseteq {got[t]}
            BY <2>1, FS_Singleton
        <3>2. IsFiniteSet(A)
            BY <3>1, FS_Subset
        <3> QED
            BY <2>6, <3>2, FS_EmptySet
    <2>8. Cardinality(D) = Cardinality(owned[p]) + Cardinality(A)
        <3> HIDE DEF A, B, D
        <3>1. Cardinality(A \cup B) = Cardinality(A) + Cardinality(B) - Cardinality(A \cap B)
            BY <2>5, <2>7, FS_Union
        <3>2. Cardinality(A) \in Nat /\ Cardinality(B) \in Nat
            BY <2>5, <2>7, FS_CardinalityType
        <3> QED
            BY <2>5, <2>6, <2>7, <3>1, <3>2
    <2> QED
        BY <2>0, <2>h, <2>2, <2>8 DEF HomeStays
<1> HIDE DEF A, D
<1>6. Table!Cardinality(D) = Table!Cardinality(owned[p]) + Table!Cardinality(A)
    BY <1>1, <1>5
<1> QED
    BY <1>5, <1>6 DEF A, D
-----------------------------------------------------------------------------
(* Arithmetic of a word that wraps.                                          *)
LEMMA RemainderIs ==
    ASSUME NEW w \in Nat \ {0}, NEW a \in Int, NEW q \in Int, NEW r \in 0 .. w - 1,
           a = q * w + r
    PROVE  a % w = r
<1>1. PICK k \in Int : a = k * w + (a % w)
    <2>1. a = (a \div w) * w + (a % w) /\ a \div w \in Int
        OBVIOUS
    <2> QED
        BY <2>1
<1>2. a % w \in 0 .. w - 1
    OBVIOUS
<1>3. (q - k) * w = (a % w) - r
    BY <1>1, <1>2
<1>4. q - k <= 0
    <2> SUFFICES ASSUME q - k >= 1 PROVE FALSE
        OBVIOUS
    <2>1. (q - k) * w >= w
        OBVIOUS
    <2> QED
        BY <2>1, <1>2, <1>3
<1>5. q - k >= 0
    <2> SUFFICES ASSUME k - q >= 1 PROVE FALSE
        OBVIOUS
    <2>1. (k - q) * w >= w
        OBVIOUS
    <2>2. (k - q) * w = r - (a % w)
        BY <1>3, <1>2
    <2> QED
        BY <2>1, <2>2, <1>2
<1>6. q = k
    BY <1>4, <1>5
<1> QED
    BY <1>1, <1>2, <1>6

(* A remainder may be taken before an addition.                              *)
LEMMA RemainderOfSum ==
    ASSUME NEW w \in Nat \ {0}, NEW a \in Int, NEW b \in Int
    PROVE  ((a % w) + b) % w = (a + b) % w
<1>1. PICK k \in Int : a = k * w + (a % w)
    <2>1. a = (a \div w) * w + (a % w) /\ a \div w \in Int
        OBVIOUS
    <2> QED
        BY <2>1
<1> DEFINE c == (a % w) + b
<1>2. PICK n \in Int : c = n * w + (c % w)
    <2>1. c \in Int
        OBVIOUS
    <2>2. c = (c \div w) * w + (c % w) /\ c \div w \in Int
        BY <2>1
    <2> QED
        BY <2>2
<1>3. c % w \in 0 .. w - 1
    OBVIOUS
<1>4. a + b = (k + n) * w + (c % w)
    <2>1. a + b = k * w + c
        BY <1>1
    <2>2. (k + n) * w = k * w + n * w
        OBVIOUS
    <2> QED
        BY <2>1, <2>2, <1>2, <1>3
<1>5. k + n \in Int /\ a + b \in Int
    OBVIOUS
<1> HIDE DEF c
<1>6. (a + b) % w = c % w
    BY <1>3, <1>4, <1>5, RemainderIs
<1> QED
    BY <1>6 DEF c
-----------------------------------------------------------------------------
(* The atomic word: an exchange that succeeds has found what it expected, so     *)
(* that every change is an addition to what is there.                         *)
AtomicInv ==
    /\ atomic \in 0 .. AtomicWord - 1 /\ first \in 0 .. AtomicWord - 1
    /\ added \in 0 .. AtomicWord - 1
    /\ amount \in [Threads -> 0 .. AtomicWord - 1]
    /\ Atomic!NothingIsLost

LEMMA AtomicConstants == AtomicWord \in Nat \ {0} /\ Amounts \subseteq 0 .. AtomicWord - 1
BY UserConstants DEF Atomic!AtomicAssumption

LEMMA InitAtomic == Atomic!Init => AtomicInv
<1> SUFFICES ASSUME Atomic!Init PROVE AtomicInv
    OBVIOUS
<1>1. atomic \in 0 .. AtomicWord - 1 /\ first = atomic /\ added = 0
    BY DEF Atomic!Init
<1>2. amount \in [Threads -> 0 .. AtomicWord - 1]
    BY AtomicConstants DEF Atomic!Init, Atomic!Each
<1>3. (first + added) % AtomicWord = atomic
    BY <1>1, AtomicConstants, RemainderIs
<1> QED
    BY <1>1, <1>2, <1>3, AtomicConstants DEF AtomicInv, Atomic!NothingIsLost

(* To add n to the word and to the history is to add the same to both sides.  *)
LEMMA AdditionsAgree ==
    ASSUME AtomicInv, NEW n \in Int
    PROVE  (atomic + n) % AtomicWord
             = (first + ((added + n) % AtomicWord)) % AtomicWord
<1> DEFINE w == AtomicWord
<1>0. w \in Nat \ {0} /\ atomic \in Int /\ first \in Int /\ added \in Int
    BY AtomicConstants DEF AtomicInv
<1>1. atomic = (first + added) % w
    BY DEF AtomicInv, Atomic!NothingIsLost
<1> HIDE DEF w
<1>a. first + added \in Int /\ added + n \in Int
    BY <1>0
<1>2. (((first + added) % w) + n) % w = ((first + added) + n) % w
    BY <1>0, <1>a, RemainderOfSum, Zenon
<1>3. (((added + n) % w) + first) % w = ((added + n) + first) % w
    BY <1>0, <1>a, RemainderOfSum, Zenon
<1>4. (first + added) + n = (added + n) + first
    BY <1>0
<1>5. ((added + n) % w) + first = first + ((added + n) % w)
    <2>1. (added + n) % w \in Int
        BY <1>0
    <2> QED
        BY <1>0, <2>1
<1>6. (atomic + n) % w = (first + ((added + n) % w)) % w
    BY <1>1, <1>2, <1>3, <1>4, <1>5
<1> QED
    BY <1>6 DEF w

LEMMA AdditionKeeps ==
    ASSUME AtomicInv, NEW n \in Int, atomic' = (atomic + n) % AtomicWord,
           added' = (added + n) % AtomicWord, UNCHANGED <<first, amount>>
    PROVE  AtomicInv'
<1>1. atomic' \in 0 .. AtomicWord - 1 /\ added' \in 0 .. AtomicWord - 1
    BY AtomicConstants DEF AtomicInv
<1> QED
    BY <1>1, AdditionsAgree DEF AtomicInv, Atomic!NothingIsLost

LEMMA StepAtomic == AtomicInv /\ [Atomic!Next]_atomicVars => AtomicInv'
<1> SUFFICES ASSUME AtomicInv, [Atomic!Next]_atomicVars PROVE AtomicInv'
    OBVIOUS
<1>0. atomic \in Int /\ added \in Int /\ amount \in [Threads -> 0 .. AtomicWord - 1]
    BY AtomicConstants DEF AtomicInv
<1>1. CASE UNCHANGED atomicVars
    BY <1>1 DEF atomicVars, AtomicInv, Atomic!NothingIsLost
<1>2. ASSUME NEW t \in Threads, Atomic!FetchAdd(t) PROVE AtomicInv'
    <2>1. PICK n \in Amounts : /\ atomic' = (atomic + n) % AtomicWord
                               /\ added' = (added + n) % AtomicWord
        BY <1>2 DEF Atomic!FetchAdd, Atomic!Counts
    <2>2. n \in Int
        BY AtomicConstants
    <2> QED
        BY <1>2, <2>1, <2>2, AdditionKeeps DEF Atomic!FetchAdd
<1>3. ASSUME NEW t \in Threads, Atomic!FetchSub(t) PROVE AtomicInv'
    <2>1. PICK n \in Amounts : /\ atomic' = (atomic - n) % AtomicWord
                               /\ added' = (added + (AtomicWord - n)) % AtomicWord
        BY <1>3 DEF Atomic!FetchSub, Atomic!Counts
    <2>2. n \in Int /\ AtomicWord - n \in Int /\ AtomicWord \in Nat \ {0}
        BY AtomicConstants
    <2>3. (atomic - n) % AtomicWord = (atomic + (AtomicWord - n)) % AtomicWord
        <3> DEFINE a == atomic - n
        <3>1. a \in Int /\ a % AtomicWord \in 0 .. AtomicWord - 1
            BY <1>0, <2>2
        <3>2. a = (a \div AtomicWord) * AtomicWord + (a % AtomicWord) /\ a \div AtomicWord \in Int
            <4>1. a \in Int
                BY <1>0, <2>2
            <4> HIDE DEF a
            <4> QED
                BY <4>1, <2>2
        <3>3. atomic + (AtomicWord - n) = a + AtomicWord
            BY <1>0, <2>2
        <3> HIDE DEF a
        <3>4. PICK k \in Int : a = k * AtomicWord + (a % AtomicWord)
            BY <3>2
        <3>5. (k + 1) * AtomicWord = k * AtomicWord + AtomicWord
            BY <2>2
        <3>6. a + AtomicWord = (k + 1) * AtomicWord + (a % AtomicWord)
            BY <3>1, <3>4, <3>5, <2>2
        <3>7. (a + AtomicWord) % AtomicWord = a % AtomicWord
            <4>1. k + 1 \in Int /\ a + AtomicWord \in Int
                BY <3>1, <2>2
            <4> QED
                BY <4>1, <3>1, <3>6, <2>2, RemainderIs, Zenon
        <3> QED
            BY <3>3, <3>7 DEF a
    <2>4. UNCHANGED <<first, amount>>
        BY <1>3 DEF Atomic!FetchSub
    <2> QED
        BY <2>1, <2>2, <2>3, <2>4, AdditionKeeps
<1>4. ASSUME NEW t \in Threads, Atomic!Load(t) PROVE AtomicInv'
    <2>1. amount' \in [Threads -> 0 .. AtomicWord - 1]
        BY <1>0, <1>4, AtomicConstants DEF Atomic!Load
    <2> QED
        BY <1>4, <2>1 DEF Atomic!Load, AtomicInv, Atomic!NothingIsLost
<1>5. ASSUME NEW t \in Threads, Atomic!UserExchange(t) PROVE AtomicInv'
    <2>1. CASE atomic = expected[t]
        <3>1. amount[t] \in Int
            BY <1>0
        <3> QED
            BY <1>5, <2>1, <3>1, AdditionKeeps DEF Atomic!UserExchange, Atomic!Counts
    <2>2. CASE atomic # expected[t]
        BY <1>5, <2>2 DEF Atomic!UserExchange, AtomicInv, Atomic!NothingIsLost
    <2> QED
        BY <2>1, <2>2
<1> QED
    BY <1>1, <1>2, <1>3, <1>4, <1>5 DEF Atomic!Next, Atomic!Compare
-----------------------------------------------------------------------------
(* The heap.  The bytes of a set of blocks are counted one by one, so that what  *)
(* is known of finite sets says what a block adds to them.                    *)
Resting == {"idle", "apply", "alert"}
HeapPlaces == Resting \cup {"count", "copy", "free", "sub", "release"}

HeapTypes ==
    /\ inUse \subseteq Blocks
    /\ blockSize \in [Blocks -> BlockSizes \cup {0}] /\ magic \in [Blocks -> BOOLEAN]
    /\ current \in Nat /\ peak \in Nat /\ highest \in Nat
    /\ reading \in [Threads -> [rss : Nat, peak : Nat]]
    /\ has \in [Threads -> SUBSET Blocks]
    /\ heapPc \in [Threads -> HeapPlaces]
    /\ block \in [Threads -> Blocks \cup {NoOne}]
    /\ old \in [Threads -> Blocks \cup {NoOne}]

LEMMA HeapConstants ==
    /\ IsFiniteSet(Blocks) /\ Cardinality(Blocks) \in Nat /\ NoOne \notin Blocks
    /\ BlockSizes \subseteq Nat /\ HeapWord \in Nat \ {0}
    /\ Readings \subseteq [rss : Nat, peak : Nat]
<1>1. Heap!IsFiniteSet(Blocks) => IsFiniteSet(Blocks)
    BY DEF Heap!IsFiniteSet, IsFiniteSet
<1> QED
    BY <1>1, UserConstants, FS_CardinalityType DEF Heap!HeapAssumption

LEMMA SizesCount == ASSUME HeapTypes PROVE \A b \in Blocks : blockSize[b] \in Nat
<1>1. \A b \in Blocks : blockSize[b] \in BlockSizes \cup {0}
    BY DEF HeapTypes
<1>2. \A n \in BlockSizes \cup {0} : n \in Nat
    BY HeapConstants
<1> QED
    BY <1>1, <1>2

LEMMA HeapCounts == \A S : Heap!Cardinality(S) = Cardinality(S)
BY DEF Heap!Cardinality, Cardinality

LEMMA BytesFit ==
    ASSUME MemoryFits, HeapTypes, NEW S \in SUBSET Blocks
    PROVE  LET n == Cardinality(Heap!Bytes(S)) IN
           IsFiniteSet(Heap!Bytes(S)) /\ n \in Nat /\ n < HeapWord
<1>1. PICK m \in Nat : (\A k \in BlockSizes : k <= m) /\ Cardinality(Blocks) * m < HeapWord
    BY HeapConstants DEF MemoryFits
<1>2. Heap!Bytes(S) \in SUBSET (Blocks \X (1 .. m))
    <2>1. \A b \in Blocks : blockSize[b] \in BlockSizes \cup {0}
        BY DEF HeapTypes
    <2>2. \A n \in BlockSizes \cup {0} : n <= m
        BY <1>1
    <2>3. \A b \in Blocks : 1 .. blockSize[b] \subseteq 1 .. m
        BY <2>1, <2>2, <1>1, SizesCount
    <2> QED
        BY <2>3 DEF Heap!Bytes
<1>3. IsFiniteSet(1 .. m) /\ Cardinality(1 .. m) = m
    BY <1>1, FS_Interval
<1>4. /\ IsFiniteSet(Blocks \X (1 .. m))
      /\ Cardinality(Blocks \X (1 .. m)) = Cardinality(Blocks) * m
    BY <1>3, HeapConstants, FS_Product
<1> DEFINE n == Cardinality(Heap!Bytes(S))
           c == Cardinality(Blocks) * m
<1>5. IsFiniteSet(Heap!Bytes(S)) /\ n <= c
    BY <1>2, <1>4, FS_Subset
<1>6. n \in Nat
    BY <1>5, FS_CardinalityType
<1>7. c \in Nat /\ HeapWord \in Nat /\ c < HeapWord
    BY <1>1, HeapConstants
<1> HIDE DEF n, c
<1>8. n < HeapWord
    BY <1>5, <1>6, <1>7
<1> QED
    BY <1>5, <1>6, <1>8 DEF n

(* A block adds its size.                                                    *)
LEMMA BlockAdds ==
    ASSUME MemoryFits, HeapTypes, NEW S \in SUBSET Blocks, NEW b \in Blocks \ S
    PROVE  Cardinality(Heap!Bytes(S \cup {b})) = Cardinality(Heap!Bytes(S)) + blockSize[b]
<1> DEFINE own == {b} \X (1 .. blockSize[b])
<1>1. Heap!Bytes(S \cup {b}) = Heap!Bytes(S) \cup own
    BY DEF Heap!Bytes
<1>2. Heap!Bytes(S) \cap own = {}
    BY DEF Heap!Bytes
<1>3. blockSize[b] \in Nat
    BY SizesCount
<1>4. IsFiniteSet({b}) /\ Cardinality({b}) = 1
    BY FS_Singleton
<1>5. IsFiniteSet(1 .. blockSize[b]) /\ Cardinality(1 .. blockSize[b]) = blockSize[b]
    BY <1>3, FS_Interval
<1>6. IsFiniteSet(own) /\ Cardinality(own) = blockSize[b]
    <2>1. IsFiniteSet(own) /\ Cardinality(own) = Cardinality({b}) * Cardinality(1 .. blockSize[b])
        BY <1>4, <1>5, FS_Product
    <2> HIDE DEF own
    <2> QED
        BY <1>3, <1>4, <1>5, <2>1
<1>7. IsFiniteSet(Heap!Bytes(S)) /\ Cardinality(Heap!Bytes(S)) \in Nat
    BY BytesFit
<1> HIDE DEF own
<1>8. Cardinality(Heap!Bytes(S) \cup own)
        = Cardinality(Heap!Bytes(S)) + blockSize[b] - Cardinality({})
    BY <1>2, <1>6, <1>7, FS_Union
<1>9. Cardinality({}) = 0
    BY FS_EmptySet
<1> QED
    <2> DEFINE c == Cardinality(Heap!Bytes(S))
               d == Cardinality(Heap!Bytes(S) \cup own)
               e == Cardinality({})
    <2>1. c \in Nat /\ d = c + blockSize[b] - e /\ e = 0 /\ blockSize[b] \in Nat
        BY <1>3, <1>7, <1>8, <1>9
    <2> HIDE DEF c, d, e
    <2>2. d = c + blockSize[b]
        BY <2>1
    <2> QED
        BY <1>1, <2>2 DEF c, d

LEMMA SameBytes ==
    ASSUME NEW S, \A b \in S : blockSize'[b] = blockSize[b]
    PROVE  Heap!Bytes(S)' = Heap!Bytes(S)
BY DEF Heap!Bytes

(* What a thread has of the memory: its pointers and the block of its call.    *)
Owns(u) == has[u] \cup ({block[u]} \ {NoOne})

(* The allocator has given away what somebody has, and nobody else has it.      *)
OwnersInv ==
    /\ inUse = UNION {Owns(u) : u \in Threads}
    /\ \A u, v \in Threads : u # v => Owns(u) \cap Owns(v) = {}

(* Where a thread is in a call says which blocks it works on.                  *)
CallIsSound(u) ==
    /\ heapPc[u] \in Resting <=> block[u] = NoOne
    /\ heapPc[u] \in {"count", "free", "sub", "release"} => block[u] \notin has[u]
    /\ heapPc[u] \in {"count", "free"} => magic[block[u]]
    /\ heapPc[u] = "copy" => /\ block[u] \in has[u] /\ old[u] \in has[u]
                             /\ old[u] # block[u]
    /\ heapPc[u] = "count" => old[u] \in has[u] \cup {NoOne}
    /\ heapPc[u] \in Resting \cup {"free", "sub", "release"} => old[u] = NoOne
    /\ \A b \in has[u] : magic[b]

FiguresInv ==
    /\ current <= peak
    /\ readable \/ (current = Cardinality(Heap!Bytes(Heap!Counted)) /\ peak = highest)

HeapInv ==
    /\ HeapTypes /\ OwnersInv /\ FiguresInv
    /\ \A u \in Threads : CallIsSound(u)

LEMMA CountedIsOwned ==
    ASSUME HeapTypes, OwnersInv, \A u \in Threads : CallIsSound(u)
    PROVE  Heap!Counted \in SUBSET Blocks /\ Heap!Counted \subseteq inUse
<1>1. \A u \in Threads : heapPc[u] \in {"free", "sub"} => block[u] \in Owns(u)
    BY DEF Owns, CallIsSound, Resting
<1>2. \A u \in Threads : has[u] \subseteq Owns(u)
    BY DEF Owns
<1>3. Heap!Counted \subseteq inUse
    <2> SUFFICES ASSUME NEW b \in Heap!Counted PROVE b \in inUse
        OBVIOUS
    <2> DEFINE leaving == {v \in Threads : heapPc[v] \in {"free", "sub"}}
    <2>0. b \in UNION {has[u] : u \in Threads} \/ b \in {block[u] : u \in leaving}
        BY DEF Heap!Counted
    <2>1. PICK u \in Threads :
             b \in has[u] \/ (heapPc[u] \in {"free", "sub"} /\ b = block[u])
        BY <2>0
    <2>2. b \in Owns(u)
        BY <1>1, <1>2, <2>1
    <2> QED
        BY <2>2 DEF OwnersInv
<1> QED
    BY <1>3 DEF HeapTypes

LEMMA InitHeap == Heap!Init => HeapInv
<1> SUFFICES ASSUME Heap!Init PROVE HeapInv
    OBVIOUS
<1>1. HeapTypes
    <2>1. Heap!Unread \in [rss : Nat, peak : Nat]
        BY DEF Heap!Unread
    <2> QED
        BY <2>1 DEF Heap!Init, HeapTypes, HeapPlaces, Resting
<1>2. \A u \in Threads : has[u] = {} /\ block[u] = NoOne /\ heapPc[u] = "idle"
                           /\ old[u] = NoOne
    BY DEF Heap!Init
<1>3. OwnersInv
    BY <1>2 DEF OwnersInv, Owns, Heap!Init
<1>4. \A u \in Threads : CallIsSound(u)
    BY <1>2 DEF CallIsSound, Resting
<1>5. Heap!Counted = {}
    BY <1>2 DEF Heap!Counted
<1>6. Heap!Bytes({}) = {}
    BY DEF Heap!Bytes
<1>7. FiguresInv
    <2>1. current = 0 /\ peak = 0 /\ highest = 0
        BY DEF Heap!Init
    <2>2. Cardinality(Heap!Bytes(Heap!Counted)) = 0
        BY <1>5, <1>6, FS_EmptySet
    <2> QED
        BY <2>1, <2>2 DEF FiguresInv
<1> QED
    BY <1>1, <1>3, <1>4, <1>7 DEF HeapInv

(* A step is of one thread, and leaves those of the others as they are.        *)
Alone(u) ==
    \A v \in Threads \ {u} : /\ has'[v] = has[v] /\ block'[v] = block[v]
                             /\ old'[v] = old[v] /\ heapPc'[v] = heapPc[v]

(* Of its memory the figure includes the pointers and a block on its way out.  *)
CountedOf(u) == has[u] \cup {b \in Blocks : heapPc[u] \in {"free", "sub"} /\ b = block[u]}

LEMMA OwnsCounts ==
    ASSUME HeapInv, NEW u \in Threads
    PROVE  CountedOf(u) \subseteq Owns(u) /\ Owns(u) \subseteq inUse /\ inUse \subseteq Blocks
<1>1. CountedOf(u) \subseteq Owns(u)
    BY HeapConstants DEF CountedOf, Owns
<1>2. Owns(u) \subseteq inUse /\ inUse \subseteq Blocks
    BY DEF HeapInv, HeapTypes, OwnersInv
<1> QED
    BY <1>1, <1>2

LEMMA CountedIs ==
    ASSUME HeapTypes, \A u \in Threads : CallIsSound(u)
    PROVE  \A b : b \in Heap!Counted <=> \E u \in Threads : b \in CountedOf(u)
<1>1. ASSUME NEW b, NEW u \in Threads, b \in CountedOf(u) PROVE b \in Heap!Counted
    <2>1. b \in has[u] \/ (heapPc[u] \in {"free", "sub"} /\ b = block[u])
        BY <1>1 DEF CountedOf
    <2> QED
        BY <2>1 DEF Heap!Counted
<1>2. ASSUME NEW b \in Heap!Counted PROVE \E u \in Threads : b \in CountedOf(u)
    <2>1. PICK u \in Threads :
             b \in has[u] \/ (heapPc[u] \in {"free", "sub"} /\ b = block[u])
        BY <1>2 DEF Heap!Counted
    <2>2. b \in Blocks
        BY <2>1 DEF HeapTypes, CallIsSound, Resting
    <2> QED
        BY <2>1, <2>2 DEF CountedOf
<1> QED
    BY <1>1, <1>2

LEMMA CallsStay ==
    ASSUME HeapInv, NEW u \in Threads, Alone(u), CallIsSound(u)',
           \A b \in inUse \ Owns(u) : magic'[b] = magic[b]
    PROVE  \A v \in Threads : CallIsSound(v)'
<1> SUFFICES ASSUME NEW v \in Threads \ {u} PROVE CallIsSound(v)'
    OBVIOUS
<1>1. \A b \in Owns(v) : b \in inUse \ Owns(u)
    BY DEF HeapInv, OwnersInv
<1>2. \A b \in Owns(v) : magic'[b] = magic[b]
    BY <1>1
<1>3. /\ has'[v] = has[v] /\ block'[v] = block[v]
      /\ old'[v] = old[v] /\ heapPc'[v] = heapPc[v]
    BY DEF Alone
<1>4. CallIsSound(v)
    BY DEF HeapInv
<1>5. has[v] \subseteq Owns(v) /\ (block[v] # NoOne => block[v] \in Owns(v))
    BY DEF Owns
<1> QED
    BY <1>2, <1>3, <1>4, <1>5 DEF CallIsSound, Resting

LEMMA OwnersMove ==
    ASSUME HeapInv, NEW u \in Threads, Alone(u),
           \/ Owns(u)' = Owns(u) /\ inUse' = inUse
           \/ \E b : b \notin inUse /\ Owns(u)' = Owns(u) \cup {b} /\ inUse' = inUse \cup {b}
           \/ \E b : b \in Owns(u) /\ Owns(u)' = Owns(u) \ {b} /\ inUse' = inUse \ {b}
    PROVE  OwnersInv'
<1>1. \A v \in Threads \ {u} : Owns(v)' = Owns(v)
    BY DEF Alone, Owns
<1>2. OwnersInv
    BY DEF HeapInv
<1>3. CASE Owns(u)' = Owns(u) /\ inUse' = inUse
    BY <1>1, <1>2, <1>3 DEF OwnersInv
<1>4. ASSUME NEW b, b \notin inUse, Owns(u)' = Owns(u) \cup {b}, inUse' = inUse \cup {b}
      PROVE  OwnersInv'
    BY <1>1, <1>2, <1>4 DEF OwnersInv
<1>5. ASSUME NEW b, b \in Owns(u), Owns(u)' = Owns(u) \ {b}, inUse' = inUse \ {b}
      PROVE  OwnersInv'
    BY <1>1, <1>2, <1>5 DEF OwnersInv
<1> QED
    BY <1>3, <1>4, <1>5

LEMMA CountedMoves ==
    ASSUME HeapInv, NEW u \in Threads, Alone(u), HeapTypes', \A v \in Threads : CallIsSound(v)'
    PROVE  /\ CountedOf(u)' = CountedOf(u) => Heap!Counted' = Heap!Counted
           /\ \A b : CountedOf(u)' = CountedOf(u) \cup {b} => Heap!Counted' = Heap!Counted \cup {b}
           /\ \A b : b \in CountedOf(u) /\ CountedOf(u)' = CountedOf(u) \ {b} =>
                       Heap!Counted' = Heap!Counted \ {b}
<1>1. \A v \in Threads \ {u} : CountedOf(v)' = CountedOf(v)
    BY DEF Alone, CountedOf
<1>2. \A b : b \in Heap!Counted <=> \E v \in Threads : b \in CountedOf(v)
    BY CountedIs DEF HeapInv
<1>3. \A b : b \in Heap!Counted' <=> \E v \in Threads : b \in CountedOf(v)'
    <2> SUFFICES ASSUME NEW b PROVE b \in Heap!Counted' <=> \E v \in Threads : b \in CountedOf(v)'
        OBVIOUS
    <2>1. ASSUME NEW v \in Threads, b \in CountedOf(v)' PROVE b \in Heap!Counted'
        <3>1. b \in has'[v] \/ (heapPc'[v] \in {"free", "sub"} /\ b = block'[v])
            BY <2>1 DEF CountedOf
        <3> QED
            BY <3>1 DEF Heap!Counted
    <2>2. ASSUME b \in Heap!Counted' PROVE \E v \in Threads : b \in CountedOf(v)'
        <3>1. PICK v \in Threads :
                 b \in has'[v] \/ (heapPc'[v] \in {"free", "sub"} /\ b = block'[v])
            BY <2>2 DEF Heap!Counted
        <3>2. b \in Blocks
            BY <3>1 DEF HeapTypes, CallIsSound, Resting
        <3> QED
            BY <3>1, <3>2 DEF CountedOf
    <2> QED
        BY <2>1, <2>2
<1>4. CountedOf(u)' = CountedOf(u) => Heap!Counted' = Heap!Counted
    BY <1>1, <1>2, <1>3
<1>5. ASSUME NEW b, CountedOf(u)' = CountedOf(u) \cup {b} PROVE Heap!Counted' = Heap!Counted \cup {b}
    BY <1>1, <1>2, <1>3, <1>5
<1>6. ASSUME NEW b, b \in CountedOf(u), CountedOf(u)' = CountedOf(u) \ {b}
      PROVE  Heap!Counted' = Heap!Counted \ {b}
    <2>1. \A v \in Threads \ {u} : b \notin CountedOf(v)
        BY <1>6, OwnsCounts DEF HeapInv, OwnersInv
    <2> QED
        BY <1>1, <1>2, <1>3, <1>6, <2>1
<1> QED
    BY <1>4, <1>5, <1>6

LEMMA FiguresStay ==
    ASSUME HeapInv, Heap!Counted' = Heap!Counted,
           \A b \in Heap!Counted : blockSize'[b] = blockSize[b], UNCHANGED <<current, peak, highest, readable>>
    PROVE  FiguresInv'
<1>1. PICK S : S = Heap!Counted
    OBVIOUS
<1>2. Heap!Bytes(S)' = Heap!Bytes(S)
    BY <1>1, SameBytes
<1>3. FiguresInv
    BY DEF HeapInv
<1>4. Heap!Counted' = S
    BY <1>1
<1>5. Heap!Bytes(Heap!Counted)' = Heap!Bytes(S)'
    BY <1>4 DEF Heap!Bytes
<1> QED
    BY <1>1, <1>2, <1>3, <1>5 DEF FiguresInv

(* osal_malloc, and the allocation of osal_realloc, which keeps o.             *)
LEMMA AllocationKeeps ==
    ASSUME HeapInv, NEW u \in Threads, Heap!At(u, "idle", "count"),
           NEW n \in BlockSizes, Heap!Allocate(u, n),
           NEW o \in has[u] \cup {NoOne}, old' = [old EXCEPT ![u] = o],
           UNCHANGED <<current, peak, has, highest, reading, readable>>
    PROVE  HeapInv'
<1>0. HeapTypes /\ heapPc[u] = "idle" /\ heapPc' = [heapPc EXCEPT ![u] = "count"]
    BY DEF HeapInv, Heap!At
<1>1. PICK b \in Blocks \ inUse : /\ inUse' = inUse \cup {b}
                                  /\ blockSize' = [blockSize EXCEPT ![b] = n]
                                  /\ magic' = [magic EXCEPT ![b] = TRUE]
                                  /\ block' = [block EXCEPT ![u] = b]
    BY DEF Heap!Allocate
<1>2. HeapTypes'
    <2>1. has[u] \subseteq Blocks
        BY <1>0 DEF HeapTypes
    <2>2. old' \in [Threads -> Blocks \cup {NoOne}] /\ block' \in [Threads -> Blocks \cup {NoOne}]
        BY <1>0, <1>1, <2>1 DEF HeapTypes
    <2>3. blockSize' \in [Blocks -> BlockSizes \cup {0}] /\ magic' \in [Blocks -> BOOLEAN] /\ inUse' \subseteq Blocks
        BY <1>0, <1>1 DEF HeapTypes
    <2>4. heapPc' \in [Threads -> HeapPlaces]
        BY <1>0 DEF HeapTypes, HeapPlaces
    <2> QED
        BY <1>0, <2>2, <2>3, <2>4 DEF HeapTypes
<1>3. Alone(u)
    BY <1>0, <1>1 DEF Alone, HeapTypes
<1>4. block'[u] = b /\ old'[u] = o /\ heapPc'[u] = "count" /\ block[u] = NoOne /\ b # NoOne
    BY <1>0, <1>1, HeapConstants DEF HeapTypes, HeapInv, CallIsSound, Resting
<1>5. Owns(u)' = Owns(u) \cup {b}
    BY <1>4 DEF Owns
<1>6. OwnersInv'
    BY <1>1, <1>3, <1>5, OwnersMove
<1>7. CallIsSound(u)'
    <2>1. has[u] \subseteq inUse
        BY OwnsCounts DEF Owns
    <2>2. \A c \in has[u] : c # b /\ magic[c]
        BY <1>1, <2>1 DEF HeapInv, CallIsSound
    <2>3. \A c \in has[u] : magic'[c]
        BY <1>0, <1>1, <2>1, <2>2 DEF HeapTypes
    <2>4. magic'[b]
        BY <1>0, <1>1 DEF HeapTypes
    <2> QED
        BY <1>4, <2>2, <2>3, <2>4 DEF CallIsSound, Resting
<1>8. \A v \in Threads : CallIsSound(v)'
    <2>1. \A c \in inUse : magic'[c] = magic[c]
        BY <1>0, <1>1 DEF HeapTypes
    <2> QED
        BY <1>3, <1>7, <2>1, CallsStay
<1>9. Heap!Counted' = Heap!Counted
    <2>1. CountedOf(u)' = CountedOf(u)
        BY <1>0, <1>4 DEF CountedOf
    <2> QED
        BY <1>2, <1>3, <1>8, <2>1, CountedMoves
<1>10. FiguresInv'
    <2>1. \A c \in Heap!Counted : blockSize'[c] = blockSize[c]
        BY <1>0, <1>1, CountedIsOwned DEF HeapInv, HeapTypes
    <2> QED
        BY <1>9, <2>1, FiguresStay
<1> QED
    BY <1>2, <1>6, <1>8, <1>10 DEF HeapInv

(* Of two numbers Max takes the larger.                                      *)
LEMMA MaxOfTwo ==
    ASSUME NEW a \in Int, NEW b \in Int
    PROVE  Heap!Max({a, b}) = IF a > b THEN a ELSE b
<1> DEFINE m == IF a > b THEN a ELSE b
<1>1. m \in {a, b} /\ \A y \in {a, b} : m >= y
    OBVIOUS
<1>2. \A x \in {a, b} : (\A y \in {a, b} : x >= y) => x = m
    OBVIOUS
<1> HIDE DEF m
<1>3. (CHOOSE x \in {a, b} : \A y \in {a, b} : x >= y) = m
    BY <1>1, <1>2
<1> QED
    BY <1>3 DEF m, Heap!Max

(* osal_heap_add_usage.                                                      *)
LEMMA CountKeeps ==
    ASSUME MemoryFits, HeapInv, NEW u \in Threads, Heap!Count(u),
           UNCHANGED <<reading, readable>>
    PROVE  HeapInv'
<1>0. HeapTypes /\ heapPc[u] = "count" /\ CallIsSound(u)
    BY DEF HeapInv, Heap!Count, Heap!At
<1>1. PICK b \in Blocks : b = block[u]
    BY <1>0 DEF CallIsSound, HeapTypes, Resting
<1>2. /\ heapPc' = [heapPc EXCEPT ![u] = IF old[u] = NoOne THEN "idle" ELSE "copy"]
      /\ current' = (current + blockSize[b]) % HeapWord
      /\ peak' = (IF current' > peak THEN current' ELSE peak)
      /\ highest' = Heap!Max({highest, current'})
      /\ has' = [has EXCEPT ![u] = @ \cup {b}]
      /\ block' = (IF old[u] = NoOne THEN [block EXCEPT ![u] = NoOne] ELSE block)
      /\ UNCHANGED <<inUse, blockSize, magic, old>>
    BY <1>1 DEF Heap!Count, Heap!At, Heap!memVars
<1>3. b \notin has[u] /\ magic[b] /\ b # NoOne /\ (old[u] = NoOne \/ old[u] \in has[u])
    BY <1>0, <1>1, HeapConstants DEF CallIsSound
<1>4. current' \in Nat
    <2>1. blockSize[b] \in Nat /\ current \in Nat /\ HeapWord \in Nat \ {0}
        BY <1>0, SizesCount, HeapConstants DEF HeapTypes
    <2> QED
        BY <1>2, <2>1
<1>5. peak' \in Nat /\ highest' = (IF highest > current' THEN highest ELSE current')
    <2>1. peak \in Nat /\ highest \in Nat
        BY <1>0 DEF HeapTypes
    <2> QED
        BY <1>2, <1>4, <2>1, MaxOfTwo
<1>6. HeapTypes'
    <2>1. has' \in [Threads -> SUBSET Blocks]
        BY <1>0, <1>2 DEF HeapTypes
    <2>2. block' \in [Threads -> Blocks \cup {NoOne}]
        BY <1>0, <1>2 DEF HeapTypes
    <2>3. heapPc' \in [Threads -> HeapPlaces]
        BY <1>0, <1>2 DEF HeapTypes, HeapPlaces, Resting
    <2>4. highest' \in Nat
        BY <1>0, <1>4, <1>5 DEF HeapTypes
    <2> QED
        BY <1>0, <1>2, <1>4, <1>5, <2>1, <2>2, <2>3, <2>4 DEF HeapTypes
<1>7. Alone(u)
    BY <1>0, <1>2 DEF Alone, HeapTypes
<1>8. has'[u] = has[u] \cup {b} /\ block'[u] = (IF old[u] = NoOne THEN NoOne ELSE b)
    BY <1>0, <1>1, <1>2 DEF HeapTypes
<1>9. Owns(u)' = Owns(u)
    BY <1>1, <1>3, <1>8 DEF Owns
<1>10. OwnersInv'
    BY <1>2, <1>7, <1>9, OwnersMove
<1>11. CallIsSound(u)'
    <2>1. heapPc'[u] = IF old[u] = NoOne THEN "idle" ELSE "copy"
        BY <1>0, <1>2 DEF HeapTypes
    <2>2. \A c \in has'[u] : magic'[c]
        BY <1>0, <1>2, <1>3, <1>8 DEF CallIsSound
    <2>3. CASE old[u] = NoOne
        BY <1>2, <1>8, <2>1, <2>2, <2>3 DEF CallIsSound, Resting
    <2>4. CASE old[u] # NoOne
        BY <1>2, <1>3, <1>8, <2>1, <2>2, <2>4 DEF CallIsSound, Resting
    <2> QED
        BY <2>3, <2>4
<1>12. \A v \in Threads : CallIsSound(v)'
    BY <1>2, <1>7, <1>11, CallsStay
<1>13. PICK S \in SUBSET Blocks : S = Heap!Counted
    BY CountedIsOwned DEF HeapInv
<1>14. Heap!Counted' = S \cup {b}
    <2>1. heapPc'[u] \notin {"free", "sub"} /\ heapPc[u] \notin {"free", "sub"}
        BY <1>0, <1>2 DEF HeapTypes
    <2>2. CountedOf(u)' = CountedOf(u) \cup {b}
        BY <1>8, <2>1 DEF CountedOf
    <2> QED
        BY <1>6, <1>7, <1>12, <1>13, <2>2, CountedMoves
<1>15. b \notin S
    <2>1. b \in Owns(u) /\ b \notin CountedOf(u)
        BY <1>0, <1>1, <1>3 DEF Owns, CountedOf
    <2>2. \A v \in Threads \ {u} : b \notin CountedOf(v)
        BY <2>1, OwnsCounts DEF HeapInv, OwnersInv
    <2> QED
        BY <1>13, <2>1, <2>2, CountedIs DEF HeapInv
<1>16. ASSUME ~readable PROVE current' = Cardinality(Heap!Bytes(S \cup {b}))
    <2> DEFINE c == Cardinality(Heap!Bytes(S))
               d == Cardinality(Heap!Bytes(S \cup {b}))
    <2>1. d = c + blockSize[b]
        BY <1>0, <1>15, BlockAdds
    <2>2. current = c
        BY <1>13, <1>16 DEF HeapInv, FiguresInv
    <2>3. d \in Nat /\ d < HeapWord
        BY <1>0, BytesFit
    <2> HIDE DEF c, d
    <2>4. current' = d % HeapWord
        BY <1>2, <2>1, <2>2
    <2>5. d % HeapWord = d
        <3>1. d = 0 * HeapWord + d /\ d \in 0 .. HeapWord - 1 /\ d \in Int
            BY <2>3, HeapConstants
        <3> QED
            BY <3>1, HeapConstants, RemainderIs
    <2> QED
        BY <2>4, <2>5 DEF d
<1>17. FiguresInv'
    <2>0. peak \in Nat /\ highest \in Nat
        BY <1>0 DEF HeapTypes
    <2>1. current' <= peak'
        BY <1>2, <1>4, <2>0
    <2>2. ASSUME ~readable
          PROVE  current' = Cardinality(Heap!Bytes(Heap!Counted))' /\ peak' = highest'
        <3>1. Heap!Bytes(Heap!Counted)' = Heap!Bytes(S \cup {b})
            BY <1>2, <1>14 DEF Heap!Bytes
        <3>2. peak = highest
            BY <2>2 DEF HeapInv, FiguresInv
        <3>3. peak' = (IF current' > peak THEN current' ELSE peak)
            BY <1>2
        <3>4. highest' = (IF peak > current' THEN peak ELSE current')
            BY <1>5, <3>2
        <3>5. peak' = highest'
            BY <1>4, <2>0, <3>3, <3>4
        <3> QED
            BY <1>16, <2>2, <3>1, <3>5
    <2> QED
        BY <2>1, <2>2 DEF FiguresInv
<1> QED
    BY <1>6, <1>10, <1>12, <1>17 DEF HeapInv

(* osal_realloc, after its memcpy: the free of the old block begins.           *)
LEMMA CopyKeeps ==
    ASSUME HeapInv, NEW u \in Threads, Heap!Copy(u), UNCHANGED <<reading, readable>>
    PROVE  HeapInv'
<1>0. HeapTypes /\ heapPc[u] = "copy" /\ CallIsSound(u)
    BY DEF HeapInv, Heap!Copy, Heap!At
<1>1. PICK b \in Blocks : b = old[u] /\ b \in has[u] /\ b # NoOne /\ b # block[u]
    <2>1. old[u] \in has[u] /\ old[u] # block[u]
        BY <1>0 DEF CallIsSound
    <2> QED
        BY <1>0, <2>1, HeapConstants DEF HeapTypes
<1>2. /\ heapPc' = [heapPc EXCEPT ![u] = "free"]
      /\ block' = [block EXCEPT ![u] = b] /\ old' = [old EXCEPT ![u] = NoOne]
      /\ has' = [has EXCEPT ![u] = @ \ {b}]
      /\ UNCHANGED <<inUse, blockSize, magic, current, peak, highest>>
    BY <1>1 DEF Heap!Copy, Heap!At, Heap!memVars, Heap!figureVars
<1>3. HeapTypes'
    <2>1. has' \in [Threads -> SUBSET Blocks]
        BY <1>0, <1>2 DEF HeapTypes
    <2>2. heapPc' \in [Threads -> HeapPlaces]
        BY <1>0, <1>2 DEF HeapTypes, HeapPlaces
    <2> QED
        BY <1>0, <1>2, <2>1, <2>2 DEF HeapTypes
<1>4. Alone(u)
    BY <1>0, <1>2 DEF Alone, HeapTypes
<1>5. /\ has'[u] = has[u] \ {b} /\ block'[u] = b /\ old'[u] = NoOne
      /\ heapPc'[u] = "free"
    BY <1>0, <1>2 DEF HeapTypes
<1>6. Owns(u)' = Owns(u)
    <2>1. block[u] \in has[u]
        BY <1>0 DEF CallIsSound
    <2> QED
        BY <1>1, <1>5, <2>1 DEF Owns
<1>7. OwnersInv'
    BY <1>2, <1>4, <1>6, OwnersMove
<1>8. CallIsSound(u)'
    BY <1>0, <1>1, <1>2, <1>5 DEF CallIsSound, Resting
<1>9. \A v \in Threads : CallIsSound(v)'
    BY <1>2, <1>4, <1>8, CallsStay
<1>10. CountedOf(u)' = CountedOf(u)
    BY <1>0, <1>1, <1>5 DEF CountedOf
<1>11. FiguresInv'
    BY <1>2, <1>3, <1>4, <1>9, <1>10, CountedMoves, FiguresStay
<1> QED
    BY <1>3, <1>7, <1>9, <1>11 DEF HeapInv

(* osal_free begins.                                                         *)
LEMMA FreeKeeps ==
    ASSUME HeapInv, NEW u \in Threads, Heap!Free(u), UNCHANGED <<reading, readable>>
    PROVE  HeapInv'
<1>0. HeapTypes /\ heapPc[u] = "idle" /\ CallIsSound(u)
    BY DEF HeapInv, Heap!Free, Heap!At
<1>1. PICK b \in has[u] : /\ block' = [block EXCEPT ![u] = b]
                          /\ has' = [has EXCEPT ![u] = @ \ {b}]
    BY DEF Heap!Free
<1>2. /\ heapPc' = [heapPc EXCEPT ![u] = "free"]
      /\ UNCHANGED <<inUse, blockSize, magic, current, peak, old, highest>>
    BY DEF Heap!Free, Heap!At, Heap!memVars, Heap!figureVars
<1>3. b \in Blocks /\ b # NoOne
    BY <1>0, HeapConstants DEF HeapTypes
<1>4. HeapTypes'
    <2>1. has' \in [Threads -> SUBSET Blocks]
        BY <1>0, <1>1 DEF HeapTypes
    <2>2. heapPc' \in [Threads -> HeapPlaces]
        BY <1>0, <1>2 DEF HeapTypes, HeapPlaces
    <2>3. block' \in [Threads -> Blocks \cup {NoOne}]
        BY <1>0, <1>1, <1>3 DEF HeapTypes
    <2> QED
        BY <1>0, <1>2, <2>1, <2>2, <2>3 DEF HeapTypes
<1>5. Alone(u)
    BY <1>0, <1>1, <1>2 DEF Alone, HeapTypes
<1>6. /\ has'[u] = has[u] \ {b} /\ block'[u] = b /\ old'[u] = NoOne
      /\ heapPc'[u] = "free" /\ block[u] = NoOne
    BY <1>0, <1>1, <1>2 DEF HeapTypes, CallIsSound, Resting
<1>7. Owns(u)' = Owns(u)
    BY <1>3, <1>6 DEF Owns
<1>8. OwnersInv'
    BY <1>2, <1>5, <1>7, OwnersMove
<1>9. CallIsSound(u)'
    BY <1>0, <1>2, <1>3, <1>6 DEF CallIsSound, Resting
<1>10. \A v \in Threads : CallIsSound(v)'
    BY <1>2, <1>5, <1>9, CallsStay
<1>11. CountedOf(u)' = CountedOf(u)
    BY <1>0, <1>3, <1>6 DEF CountedOf
<1>12. FiguresInv'
    BY <1>2, <1>4, <1>5, <1>10, <1>11, CountedMoves, FiguresStay
<1> QED
    BY <1>4, <1>8, <1>10, <1>12 DEF HeapInv

(* ... osal_heap_sub_usage, ...                                               *)
LEMMA FreeCountKeeps ==
    ASSUME MemoryFits, HeapInv, NEW u \in Threads, Heap!UserFreeCount(u), UNCHANGED readable
    PROVE  HeapInv'
<1>0. HeapTypes /\ heapPc[u] = "free" /\ CallIsSound(u)
    BY DEF HeapInv, Heap!UserFreeCount, Heap!At
<1>1. PICK b \in Blocks : b = block[u] /\ b \notin has[u] /\ b # NoOne
    BY <1>0, HeapConstants DEF CallIsSound, HeapTypes, Resting
<1>2. /\ heapPc' = [heapPc EXCEPT ![u] = "release"]
      /\ current' = Heap!Less(blockSize[b])
      /\ UNCHANGED <<inUse, blockSize, magic, peak, has, block, old, highest, reading>>
    BY <1>1 DEF Heap!UserFreeCount, Heap!At, Heap!memVars, Heap!readVars
<1>3. blockSize[b] \in Nat /\ current \in Nat /\ peak \in Nat
    BY <1>0, SizesCount DEF HeapTypes
<1>4. HeapTypes'
    <2>1. heapPc' \in [Threads -> HeapPlaces]
        BY <1>0, <1>2 DEF HeapTypes, HeapPlaces
    <2>2. current' \in Nat
        BY <1>2, <1>3 DEF Heap!Less
    <2> QED
        BY <1>0, <1>2, <2>1, <2>2 DEF HeapTypes
<1>5. Alone(u)
    BY <1>0, <1>2 DEF Alone, HeapTypes
<1>6. heapPc'[u] = "release"
    BY <1>0, <1>2 DEF HeapTypes
<1>7. OwnersInv'
    BY <1>2, <1>5, OwnersMove DEF Owns
<1>8. CallIsSound(u)'
    BY <1>0, <1>1, <1>2, <1>6 DEF CallIsSound, Resting
<1>9. \A v \in Threads : CallIsSound(v)'
    BY <1>2, <1>5, <1>8, CallsStay
<1>10. PICK S \in SUBSET Blocks : S = Heap!Counted \ {b}
    BY CountedIsOwned DEF HeapInv
<1>11. b \in CountedOf(u) /\ CountedOf(u)' = CountedOf(u) \ {b}
    BY <1>0, <1>1, <1>2, <1>6 DEF CountedOf
<1>12. Heap!Counted = S \cup {b}
    BY <1>10, <1>11, CountedIs DEF HeapInv
<1>13. Heap!Counted' = S
    BY <1>4, <1>5, <1>9, <1>10, <1>11, CountedMoves
<1>14. ASSUME ~readable PROVE current' = Cardinality(Heap!Bytes(S))
    <2> DEFINE c == Cardinality(Heap!Bytes(S))
               d == Cardinality(Heap!Bytes(S \cup {b}))
    <2>1. d = c + blockSize[b]
        BY <1>0, <1>10, BlockAdds
    <2>2. current = d
        BY <1>12, <1>14 DEF HeapInv, FiguresInv
    <2>3. c \in Nat
        BY <1>0, BytesFit
    <2> HIDE DEF c, d
    <2>4. current' = c
        BY <1>2, <1>3, <2>1, <2>2, <2>3 DEF Heap!Less
    <2> QED
        BY <2>4 DEF c
<1>15. FiguresInv'
    <2>1. Heap!Bytes(Heap!Counted)' = Heap!Bytes(S)
        BY <1>2, <1>13 DEF Heap!Bytes
    <2>2. current <= peak /\ (readable \/ peak = highest)
        BY DEF HeapInv, FiguresInv
    <2>3. current' <= peak'
        BY <1>2, <1>3, <2>2 DEF Heap!Less
    <2> QED
        BY <1>2, <1>14, <2>1, <2>2, <2>3 DEF FiguresInv
<1> QED
    BY <1>4, <1>7, <1>9, <1>15 DEF HeapInv

(* ... the magic number is cleared and the block given back.                   *)
LEMMA FreeEndsKeeps ==
    ASSUME HeapInv, NEW u \in Threads, Heap!UserFreeEnds(u), UNCHANGED readable
    PROVE  HeapInv'
<1>0. HeapTypes /\ heapPc[u] = "release" /\ CallIsSound(u)
    BY DEF HeapInv, Heap!UserFreeEnds, Heap!At
<1>1. PICK b \in Blocks : b = block[u] /\ b \notin has[u] /\ b # NoOne
    BY <1>0, HeapConstants DEF CallIsSound, HeapTypes, Resting
<1>2. /\ heapPc' = [heapPc EXCEPT ![u] = "idle"]
      /\ inUse' = inUse \ {b}
      /\ blockSize' = [blockSize EXCEPT ![b] = 0]
      /\ magic' = [magic EXCEPT ![b] = FALSE]
      /\ block' = [block EXCEPT ![u] = NoOne]
      /\ UNCHANGED <<current, peak, has, old, highest, reading>>
    BY <1>1 DEF Heap!UserFreeEnds, Heap!At, Heap!figureVars, Heap!readVars
<1>3. HeapTypes'
    <2>1. heapPc' \in [Threads -> HeapPlaces]
        BY <1>0, <1>2 DEF HeapTypes, HeapPlaces, Resting
    <2>2. blockSize' \in [Blocks -> BlockSizes \cup {0}] /\ magic' \in [Blocks -> BOOLEAN]
        BY <1>0, <1>2 DEF HeapTypes
    <2>3. block' \in [Threads -> Blocks \cup {NoOne}]
        BY <1>0, <1>2 DEF HeapTypes
    <2> QED
        BY <1>0, <1>2, <2>1, <2>2, <2>3 DEF HeapTypes
<1>4. Alone(u)
    BY <1>0, <1>2 DEF Alone, HeapTypes
<1>5. heapPc'[u] = "idle" /\ block'[u] = NoOne
    BY <1>0, <1>2 DEF HeapTypes
<1>6. b \in Owns(u) /\ Owns(u)' = Owns(u) \ {b}
    BY <1>1, <1>2, <1>5 DEF Owns
<1>7. OwnersInv'
    BY <1>2, <1>4, <1>6, OwnersMove
<1>8. \A c \in Blocks : c # b => magic'[c] = magic[c]
    BY <1>0, <1>2 DEF HeapTypes
<1>9. CallIsSound(u)'
    <2>1. \A c \in has[u] : c \in Blocks /\ c # b
        BY <1>0, <1>1 DEF HeapTypes
    <2>2. \A c \in has'[u] : magic'[c]
        BY <1>0, <1>2, <1>8, <2>1 DEF CallIsSound
    <2> QED
        BY <1>0, <1>2, <1>5, <2>2 DEF CallIsSound, Resting
<1>10. \A v \in Threads : CallIsSound(v)'
    <2>1. \A c \in inUse \ Owns(u) : c \in Blocks /\ c # b
        BY <1>6, <1>0 DEF HeapTypes
    <2> QED
        BY <1>4, <1>8, <1>9, <2>1, CallsStay
<1>11. CountedOf(u)' = CountedOf(u)
    BY <1>0, <1>2, <1>5 DEF CountedOf
<1>12. b \notin Heap!Counted
    <2>1. b \notin CountedOf(u)
        BY <1>0, <1>1 DEF CountedOf
    <2>2. \A v \in Threads \ {u} : b \notin CountedOf(v)
        BY <1>6, OwnsCounts DEF HeapInv, OwnersInv
    <2> QED
        BY <2>1, <2>2, CountedIs DEF HeapInv
<1>13. \A c \in Heap!Counted : blockSize'[c] = blockSize[c]
    BY <1>0, <1>2, <1>12, CountedIsOwned DEF HeapInv, HeapTypes
<1>14. FiguresInv'
    <2>1. Heap!Counted' = Heap!Counted
        BY <1>3, <1>4, <1>10, <1>11, CountedMoves
    <2> QED
        BY <1>2, <1>13, <2>1, FiguresStay
<1> QED
    BY <1>3, <1>7, <1>10, <1>14 DEF HeapInv

(* What osal_heap_get_info and osal_heap_check_threshold leave alone.           *)
LEMMA BlocksStand ==
    ASSUME HeapInv, HeapTypes', FiguresInv', NEW u \in Threads,
           UNCHANGED <<inUse, magic, has, block, old>>, NEW place \in Resting,
           heapPc[u] \in Resting, heapPc' = [heapPc EXCEPT ![u] = place]
    PROVE  HeapInv'
<1>1. Alone(u) /\ heapPc'[u] = place
    BY DEF Alone, HeapInv, HeapTypes
<1>2. OwnersInv'
    BY <1>1, OwnersMove DEF Owns
<1>3. CallIsSound(u)'
    BY <1>1 DEF HeapInv, CallIsSound, Resting
<1>4. \A v \in Threads : CallIsSound(v)'
    BY <1>1, <1>3, CallsStay
<1> QED
    BY <1>2, <1>4 DEF HeapInv

LEMMA CountedStands ==
    ASSUME HeapInv, NEW u \in Threads, UNCHANGED <<has, block>>, NEW place \in Resting,
           heapPc[u] \in Resting, heapPc' = [heapPc EXCEPT ![u] = place]
    PROVE  Heap!Counted' = Heap!Counted
<1>1. /\ \A v \in Threads : heapPc'[v] \in {"free", "sub"} <=> heapPc[v] \in {"free", "sub"}
    BY DEF HeapInv, HeapTypes, Resting
<1> QED
    BY <1>1 DEF Heap!Counted

(* _read_memory_from_proc.                                                   *)
LEMMA ReadProcKeeps ==
    ASSUME HeapInv, NEW u \in Threads, Heap!ReadProc(u), UNCHANGED readable
    PROVE  HeapInv'
<1>1. PICK r \in Readings : reading' = [reading EXCEPT ![u] = r]
    BY DEF Heap!ReadProc
<1>2. /\ heapPc[u] = "idle" /\ heapPc' = [heapPc EXCEPT ![u] = "apply"]
      /\ UNCHANGED <<inUse, blockSize, magic, current, peak, has, block, old, highest>>
    BY DEF Heap!ReadProc, Heap!At, Heap!memVars, Heap!figureVars
<1>3. HeapTypes'
    <2>1. r \in [rss : Nat, peak : Nat]
        BY HeapConstants
    <2> QED
        BY <1>1, <1>2, <2>1 DEF HeapInv, HeapTypes, HeapPlaces, Resting
<1>4. FiguresInv'
    <2>1. Heap!Counted' = Heap!Counted
        BY <1>2, CountedStands DEF Resting
    <2> QED
        BY <1>2, <2>1, FiguresStay
<1> QED
    BY <1>2, <1>3, <1>4, BlocksStand DEF Resting

(* The figures are replaced by what was read, or by themselves.                *)
LEMMA ApplyKeeps ==
    ASSUME HeapInv, ReadsAreReal, NEW u \in Threads, Heap!Apply(u), UNCHANGED readable
    PROVE  HeapInv'
<1> DEFINE r == IF reading[u] = Heap!Unread THEN [rss |-> current, peak |-> peak]
                ELSE reading[u]
           place == IF purpose[u] = "check" THEN "alert" ELSE "idle"
<1>0. HeapTypes
    BY DEF HeapInv
<1>1. /\ heapPc[u] = "apply" /\ heapPc' = [heapPc EXCEPT ![u] = place]
      /\ current' = r.rss /\ peak' = Heap!Max({peak, r.rss})
      /\ highest' = Heap!Max({highest, r.rss})
      /\ reading' = [reading EXCEPT ![u] = IF purpose[u] = "check" THEN r ELSE Heap!Unread]
      /\ UNCHANGED <<inUse, blockSize, magic, has, block, old>>
    BY DEF Heap!Apply, Heap!At, Heap!memVars
<1>2. r \in [rss : Nat, peak : Nat] /\ Heap!Unread \in [rss : Nat, peak : Nat]
    BY <1>0 DEF HeapTypes, Heap!Unread
<1>3. ~readable => r.rss = current
    BY <1>1 DEF ReadsAreReal
<1>p. place \in Resting
    BY DEF Resting
<1> HIDE DEF r, place
<1>4. r.rss \in Nat /\ peak \in Nat /\ highest \in Nat /\ current \in Nat
    BY <1>0, <1>2 DEF HeapTypes
<1>5. /\ peak' = (IF peak > r.rss THEN peak ELSE r.rss)
      /\ highest' = (IF highest > r.rss THEN highest ELSE r.rss)
    BY <1>1, <1>4, MaxOfTwo
<1>6. HeapTypes'
    <2>1. heapPc' \in [Threads -> HeapPlaces]
        BY <1>0, <1>1, <1>p DEF HeapTypes, HeapPlaces
    <2>2. reading' \in [Threads -> [rss : Nat, peak : Nat]]
        BY <1>0, <1>1, <1>2 DEF HeapTypes
    <2>3. current' \in Nat /\ peak' \in Nat /\ highest' \in Nat
        BY <1>1, <1>4, <1>5
    <2> QED
        BY <1>0, <1>1, <2>1, <2>2, <2>3 DEF HeapTypes
<1>7. FiguresInv'
    <2>1. current' <= peak'
        BY <1>1, <1>4, <1>5
    <2>2. ASSUME ~readable PROVE UNCHANGED <<current, peak, highest>>
        <3>1. current <= peak /\ peak = highest
            BY <2>2 DEF HeapInv, FiguresInv
        <3> QED
            BY <1>1, <1>3, <1>4, <1>5, <2>2, <3>1
    <2>3. Heap!Counted' = Heap!Counted
        BY <1>1, <1>p, CountedStands DEF Resting
    <2>4. CASE readable
        BY <2>1, <2>4 DEF FiguresInv
    <2>5. CASE ~readable
        BY <1>1, <2>2, <2>3, <2>5, FiguresStay
    <2> QED
        BY <2>4, <2>5
<1> QED
    BY <1>1, <1>6, <1>7, <1>p, BlocksStand DEF Resting

LEMMA UserCheckKeeps ==
    ASSUME HeapInv, NEW u \in Threads, Heap!UserCheck(u), UNCHANGED readable
    PROVE  HeapInv'
<1>1. /\ heapPc[u] = "alert" /\ heapPc' = [heapPc EXCEPT ![u] = "idle"]
      /\ reading' = [reading EXCEPT ![u] = Heap!Unread]
      /\ UNCHANGED <<inUse, blockSize, magic, current, peak, has, block, old, highest>>
    BY DEF Heap!UserCheck, Heap!At, Heap!memVars
<1>2. HeapTypes'
    <2>1. Heap!Unread \in [rss : Nat, peak : Nat]
        BY DEF Heap!Unread
    <2> QED
        BY <1>1, <2>1 DEF HeapInv, HeapTypes, HeapPlaces, Resting
<1>3. FiguresInv'
    <2>1. Heap!Counted' = Heap!Counted
        BY <1>1, CountedStands DEF Resting
    <2> QED
        BY <1>1, <2>1, FiguresStay
<1> QED
    BY <1>1, <1>2, <1>3, BlocksStand DEF Resting

LEMMA StepHeap ==
    ASSUME MemoryFits
    PROVE  (HeapInv /\ ReadsAreReal) /\ [HeapNext]_heapVars => (HeapInv /\ ReadsAreReal)'
<1> SUFFICES ASSUME HeapInv, ReadsAreReal, [HeapNext]_heapVars PROVE (HeapInv /\ ReadsAreReal)'
    OBVIOUS
<1>1. CASE /\ UNCHANGED <<inUse, blockSize, magic, current, peak, has, heapPc, block, old,
                           highest, reading, readable>>
    BY <1>1
    DEF HeapInv, HeapTypes, OwnersInv, Owns, FiguresInv, ReadsAreReal,
        Heap!Counted, Heap!Bytes, CallIsSound
<1>2. CASE UNCHANGED heapVars
    BY <1>1, <1>2 DEF heapVars
<1>3. CASE Heap!UserSetThreshold /\ UNCHANGED readable
    BY <1>1, <1>3
    DEF Heap!UserSetThreshold, Heap!SetThreshold, Heap!memVars, Heap!heapCallVars,
        Heap!readVars
<1>4. ASSUME NEW u \in Threads, Heap!Malloc(u), UNCHANGED <<reading, readable>> PROVE HeapInv'
    <2>1. PICK n \in BlockSizes : Heap!Allocate(u, n)
        BY <1>4 DEF Heap!Malloc
    <2>2. Heap!At(u, "idle", "count") /\ UNCHANGED <<current, peak, has, old, highest>>
        BY <1>4 DEF Heap!Malloc, Heap!figureVars
    <2>3. old[u] = NoOne /\ old \in [Threads -> Blocks \cup {NoOne}]
        BY <2>2 DEF HeapInv, HeapTypes, CallIsSound, Heap!At, Resting
    <2>4. old' = [old EXCEPT ![u] = NoOne]
        BY <2>2, <2>3
    <2> QED
        BY <1>4, <2>1, <2>2, <2>4, AllocationKeeps
<1>5. ASSUME NEW u \in Threads, Heap!Realloc(u), UNCHANGED <<reading, readable>> PROVE HeapInv'
    <2>1. PICK b \in has[u], n \in BlockSizes :
             Heap!Allocate(u, n) /\ old' = [old EXCEPT ![u] = b]
        BY <1>5 DEF Heap!Realloc
    <2>2. Heap!At(u, "idle", "count") /\ UNCHANGED <<current, peak, has, highest>>
        BY <1>5 DEF Heap!Realloc, Heap!figureVars
    <2> QED
        BY <1>5, <2>1, <2>2, AllocationKeeps
<1>6. ASSUME NEW u \in Threads, Heap!UserHeapCall(u), UNCHANGED readable PROVE HeapInv'
    <2>1. CASE Heap!UserMalloc(u)
        BY <1>4, <1>6, <2>1, CountKeeps DEF Heap!UserMalloc, Heap!readVars
    <2>2. CASE Heap!UserRealloc(u)
        BY <1>5, <1>6, <2>2, CopyKeeps DEF Heap!UserRealloc, Heap!readVars
    <2>3. CASE Heap!Free(u) /\ UNCHANGED Heap!readVars
        BY <1>6, <2>3, FreeKeeps DEF Heap!readVars
    <2> QED
        BY <1>6, <2>1, <2>2, <2>3, FreeCountKeeps, FreeEndsKeeps, ReadProcKeeps, ApplyKeeps,
           UserCheckKeeps DEF Heap!UserHeapCall
<1>7. CASE HeapNext
    <2>1. HeapInv'
        BY <1>1, <1>3, <1>6, <1>7 DEF HeapNext, Heap!UserNext
    <2> QED
        BY <1>7, <2>1 DEF HeapNext
<1> QED
    BY <1>2, <1>7

(* What the threads have and what the figures say, of a sound heap.             *)
LEMMA HeapIsExact ==
    ASSUME MemoryFits, HeapInv
    PROVE  IF readable THEN Heap!PeakCovers ELSE Heap!FiguresExact /\ Heap!BlocksAreOwned
<1>0. HeapTypes /\ OwnersInv /\ FiguresInv /\ \A u \in Threads : CallIsSound(u)
    BY DEF HeapInv
<1>1. ASSUME ~readable PROVE Heap!FiguresExact
    <2>0. current = Cardinality(Heap!Bytes(Heap!Counted)) /\ peak = highest
        BY <1>0, <1>1 DEF FiguresInv
    <2>1. current < HeapWord /\ current \in Nat
        BY <1>0, <2>0, CountedIsOwned, BytesFit
    <2>2. current % HeapWord = current
        <3>1. current = 0 * HeapWord + current /\ current \in 0 .. HeapWord - 1 /\ current \in Int
            BY <2>1, HeapConstants
        <3> QED
            BY <3>1, HeapConstants, RemainderIs
    <2> QED
        BY <2>0, <2>2, HeapCounts DEF Heap!FiguresExact
<1>2. ASSUME NEW u \in Threads, NEW b \in has[u]
      PROVE  b \in inUse /\ magic[b] /\ \A v \in Threads \ {u} : b \notin has[v]
    BY <1>0, <1>2 DEF OwnersInv, Owns, CallIsSound
<1>3. inUse = ((UNION {has[u] : u \in Threads}) \cup {block[u] : u \in Threads}) \ {NoOne}
    <2> DEFINE mine == ((UNION {has[u] : u \in Threads}) \cup {block[u] : u \in Threads}) \ {NoOne}
    <2>1. \A b : b \in mine <=> \E u \in Threads : b \in has[u] \cup {block[u]} /\ b # NoOne
        OBVIOUS
    <2>2. \A u \in Threads : \A b : b \in has[u] \cup {block[u]} /\ b # NoOne <=> b \in Owns(u)
        BY <1>0, HeapConstants DEF Owns, HeapTypes
    <2> HIDE DEF mine
    <2>3. \A b : b \in inUse <=> b \in mine
        BY <1>0, <2>1, <2>2 DEF OwnersInv
    <2>4. inUse = mine
        BY <2>3
    <2> QED
        BY <2>4 DEF mine
<1>4. Heap!BlocksAreOwned
    BY <1>2, <1>3 DEF Heap!BlocksAreOwned
<1>5. current <= peak
    BY <1>0 DEF FiguresInv
<1> QED
    BY <1>1, <1>4, <1>5 DEF Heap!PeakCovers
-----------------------------------------------------------------------------
(* The log file.  A name with a larger number has the older file: so it is when  *)
(* the backups are moved up, the file takes the first place among them, and a     *)
(* new one is made.                                                          *)
LogPlaces ==
    {"idle", "starting", "opening", "opened", "closing", "resetting",
     "check", "decide", "rotate"}

Made == Log!Cardinality(Log!Files)
Ordered(d) == \A m, n \in Log!Names : m < n /\ d[m] # 0 /\ d[n] # 0 => d[m] > d[n]

(* No path is set from the end of one shutdown to the next start.              *)
Unset(c) ==
    \/ logPc[c] \in {"resetting", "starting", "opening"}
    \/ state = "uninitialized" /\ logPc[c] = "idle"

LogInv ==
    /\ logPc \in [Threads \cup Controllers -> LogPlaces]
    /\ Made \in Nat /\ Log!Files = 1 .. Made
    /\ disk \in [Log!Names -> 0 .. Made] /\ maxFiles \in LogCounts
    /\ path \/ file = Log!None
    /\ \A c \in Controllers : Unset(c) => ~path
    /\ Log!HandlesExact /\ Log!BackupsOrdered

LEMMA LogConstants ==
    /\ LogCounts \subseteq Nat \ {0} /\ Log!DefaultCount \in LogCounts
    /\ \A n \in LogCounts : n <= Log!DefaultCount
    /\ Log!Names = 0 .. Log!DefaultCount /\ Log!None = 0
    /\ Threads \cap Controllers = {}
<1>1. LogCounts \subseteq Nat \ {0} /\ \E n \in LogCounts : \A m \in LogCounts : n >= m
    BY UserConstants DEF Log!LogAssumption
<1>2. /\ Log!DefaultCount \in LogCounts
      /\ \A m \in LogCounts : Log!DefaultCount >= m
    BY <1>1 DEF Log!DefaultCount
<1>3. \A m \in LogCounts : m <= Log!DefaultCount
    BY <1>1, <1>2
<1> QED
    BY <1>1, <1>2, <1>3, UserConstants DEF Log!LogAssumption, Log!Names, Log!None

LEMMA FilesMade ==
    ASSUME NEW k \in Nat, Log!Files' = 1 .. k
    PROVE  Made' = k
<1>1. Cardinality(1 .. k) = k
    BY FS_Interval
<1>2. \A S : Log!Cardinality(S) = Cardinality(S)
    BY DEF Log!Cardinality, Cardinality
<1>3. Made' = Cardinality(1 .. k)
    BY <1>2 DEF Made
<1> QED
    BY <1>1, <1>3

LEMMA InitLog == ASSUME OneController PROVE Log!Init => LogInv
<1> SUFFICES ASSUME Log!Init PROVE LogInv
    OBVIOUS
<1>1. Log!Files = {} /\ Made = 0
    <2>1. Log!Files = {}
        BY DEF Log!Init, Log!Files
    <2>2. Log!Cardinality({}) = 0
        <3>1. \A S : Log!Cardinality(S) = Cardinality(S)
            BY DEF Log!Cardinality, Cardinality
        <3> QED
            BY <3>1, FS_EmptySet
    <2> QED
        BY <2>1, <2>2 DEF Made
<1>2. Log!Files = 1 .. Made
    BY <1>1
<1>3. /\ logPc \in [Threads \cup Controllers -> LogPlaces]
      /\ disk \in [Log!Names -> {0}] /\ maxFiles = Log!DefaultCount
      /\ ~path /\ file = Log!None /\ open = 0
    BY LogConstants DEF Log!Init, LogPlaces
<1>4. Log!BackupsOrdered
    BY <1>3, LogConstants DEF Log!BackupsOrdered
<1> QED
    BY <1>1, <1>2, <1>3, <1>4, LogConstants DEF LogInv, Log!HandlesExact

LEMMA ShiftKeeps ==
    ASSUME NEW k \in Nat, NEW d \in [Log!Names -> 0 .. k], Ordered(d), maxFiles \in LogCounts,
           NEW done
    PROVE  Log!Shift(d, done) \in [Log!Names -> 0 .. k] /\ Ordered(Log!Shift(d, done))
<1> DEFINE e == Log!Shift(d, done)
<1>1. maxFiles \in Nat /\ maxFiles >= 1 /\ \A n \in Log!Names : n \in Nat
    BY LogConstants
<1>2. \A n \in Log!Names :
         e[n] = IF n = maxFiles THEN IF n \in done THEN 0 ELSE d[n]
                ELSE IF n \in 2 .. maxFiles - 1 /\ n \in done /\ d[n - 1] # 0 THEN d[n - 1]
                ELSE IF n \in 1 .. maxFiles - 2 /\ n + 1 \in done THEN 0
                ELSE d[n]
    BY LogConstants DEF Log!Shift
<1>3. e = [n \in Log!Names |-> e[n]]
    BY DEF Log!Shift
<1> HIDE DEF e
<1>4. \A n \in Log!Names : n \in 2 .. maxFiles - 1 => n - 1 \in Log!Names
    BY <1>1, LogConstants
<1>5. \A n \in Log!Names : e[n] \in 0 .. k
    BY <1>2, <1>4, <1>1
<1>6. ASSUME NEW m \in Log!Names, NEW n \in Log!Names, m < n, e[m] # 0, e[n] # 0
      PROVE  e[m] > e[n]
    <2>1. PICK i \in Log!Names : /\ e[m] = d[i] /\ i \in {m - 1, m}
                                 /\ (i = m /\ m \in 1 .. maxFiles - 2 => m + 1 \notin done)
        BY <1>1, <1>2, <1>4, <1>6
    <2>2. PICK j \in Log!Names : /\ e[n] = d[j] /\ j \in {n - 1, n}
                                 /\ (j = n - 1 => n \in 2 .. maxFiles - 1 /\ n \in done)
        BY <1>1, <1>2, <1>4, <1>6
    <2>3. i < j
        BY <1>1, <1>6, <2>1, <2>2
    <2> QED
        BY <1>6, <2>1, <2>2, <2>3 DEF Ordered
<1>7. e \in [Log!Names -> 0 .. k]
    BY <1>3, <1>5
<1> QED
    BY <1>6, <1>7 DEF Ordered, e

(* The file becomes the first backup, ahead of all that are left.              *)
LEMMA BackupKeeps ==
    ASSUME LogInv, NEW done, NEW d,
           d = [Log!Shift(disk, done) EXCEPT ![1] = IF disk[0] = 0 THEN @ ELSE disk[0],
                                             ![0] = 0]
    PROVE  d \in [Log!Names -> 0 .. Made] /\ Ordered(d)
<1> DEFINE e == Log!Shift(disk, done)
<1>1. /\ Made \in Nat /\ disk \in [Log!Names -> 0 .. Made] /\ Ordered(disk)
      /\ maxFiles \in LogCounts
    BY LogConstants DEF LogInv, Log!BackupsOrdered, Ordered
<1>2. e \in [Log!Names -> 0 .. Made] /\ Ordered(e)
    BY <1>1, ShiftKeeps
<1>3. /\ 0 \in Log!Names /\ 1 \in Log!Names
      /\ \A n \in Log!Names : n \in Nat
    BY LogConstants
<1>4. ASSUME disk[0] # 0
      PROVE  \A n \in Log!Names : n >= 1 /\ e[n] # 0 => disk[0] > e[n]
    <2> TAKE n \in Log!Names
    <2> HAVE n >= 1 /\ e[n] # 0
    <2>1. e[n] = disk[n] \/ (n >= 2 /\ n - 1 \in Log!Names /\ e[n] = disk[n - 1])
        <3>1. e[n] = IF n = maxFiles THEN IF n \in done THEN 0 ELSE disk[n]
                     ELSE IF n \in 2 .. maxFiles - 1 /\ n \in done /\ disk[n - 1] # 0
                          THEN disk[n - 1]
                     ELSE IF n \in 1 .. maxFiles - 2 /\ n + 1 \in done THEN 0
                     ELSE disk[n]
            BY LogConstants DEF Log!Shift
        <3>2. n >= 2 => n - 1 \in Log!Names
            BY LogConstants
        <3> HIDE DEF e
        <3> QED
            BY <1>1, <1>3, <3>1, <3>2, LogConstants
    <2>2. PICK j \in Log!Names : j > 0 /\ e[n] = disk[j]
        BY <1>3, <2>1
    <2> QED
        BY <1>1, <1>3, <1>4, <2>2 DEF Ordered
<1> DEFINE b == IF disk[0] = 0 THEN e[1] ELSE disk[0]
<1>5. d = [e EXCEPT ![1] = b, ![0] = 0] /\ b \in 0 .. Made
    BY <1>1, <1>2, <1>3
<1>b. (disk[0] = 0 /\ b = e[1]) \/ (disk[0] # 0 /\ b = disk[0])
    OBVIOUS
<1> HIDE DEF e, b
<1>6. /\ d[0] = 0 /\ d[1] = b
      /\ \A n \in Log!Names : n # 0 /\ n # 1 => d[n] = e[n]
    BY <1>2, <1>3, <1>5
<1>7. d \in [Log!Names -> 0 .. Made]
    BY <1>1, <1>2, <1>3, <1>5
<1>8. ASSUME NEW m \in Log!Names, NEW n \in Log!Names, m < n, d[m] # 0, d[n] # 0
      PROVE  d[m] > d[n]
    <2>1. m # 0 /\ m >= 1 /\ n >= 2 /\ d[n] = e[n]
        <3>1. m \in Nat /\ n \in Nat /\ m # 0
            BY <1>3, <1>6, <1>8
        <3>2. m >= 1 /\ n >= 2 /\ n # 0 /\ n # 1
            BY <3>1, <1>8
        <3> QED
            BY <1>6, <3>1, <3>2
    <2>2. CASE m = 1 /\ disk[0] # 0
        BY <1>3, <1>4, <1>6, <1>8, <1>b, <2>1, <2>2
    <2>3. CASE m # 1 \/ disk[0] = 0
        <3>1. d[m] = e[m]
            <4>1. CASE m = 1
                BY <1>6, <1>b, <2>3, <4>1
            <4>2. CASE m # 1
                BY <1>6, <2>1, <4>2
            <4> QED
                BY <4>1, <4>2
        <3> QED
            BY <1>2, <1>8, <2>1, <3>1 DEF Ordered
    <2> QED
        BY <2>2, <2>3
<1> QED
    BY <1>6, <1>7, <1>8 DEF Ordered

(* What is opened, there or made, is the youngest.                             *)
LEMMA OpeningKeeps ==
    ASSUME LogInv, NEW d \in [Log!Names -> 0 .. Made], Ordered(d),
           NEW f, f = (IF d[0] = 0 THEN Made + 1 ELSE d[0]),
           disk' = [d EXCEPT ![0] = f], Log!Files' = Log!Files \cup {f}
    PROVE  /\ Made' \in Nat /\ Log!Files' = 1 .. Made'
           /\ disk' \in [Log!Names -> 0 .. Made'] /\ Log!BackupsOrdered'
           /\ f # 0
<1>1. Made \in Nat /\ Log!Files = 1 .. Made /\ 0 \in Log!Names
    BY LogConstants DEF LogInv
<1>2. d[0] \in 0 .. Made
    BY <1>1
<1> DEFINE k == IF d[0] = 0 THEN Made + 1 ELSE Made
<1>3. k \in Nat /\ Log!Files' = 1 .. k /\ f \in 1 .. k
    BY <1>1, <1>2
<1>4. Made' = k
    BY <1>3, FilesMade
<1>5. disk' \in [Log!Names -> 0 .. k]
    BY <1>1, <1>3
<1>6. ASSUME NEW m \in Log!Names, NEW n \in Log!Names, m < n, disk'[m] # 0, disk'[n] # 0
      PROVE  disk'[m] > disk'[n]
    <2>1. m \in Nat /\ n \in Nat /\ n # 0 /\ disk'[n] = d[n] /\ d[n] \in 0 .. Made
        BY <1>6, LogConstants
    <2>2. CASE m # 0
        <3>1. disk'[m] = d[m]
            BY <1>6, <2>2
        <3> QED
            BY <1>6, <2>1, <3>1 DEF Ordered
    <2>3. CASE m = 0
        <3>1. disk'[m] = f
            BY <1>1, <2>3
        <3>2. CASE d[0] = 0
            BY <1>1, <2>1, <3>1, <3>2
        <3>3. CASE d[0] # 0
            BY <1>1, <1>6, <2>1, <2>3, <3>1, <3>3 DEF Ordered
        <3> QED
            BY <3>2, <3>3
    <2> QED
        BY <2>2, <2>3
<1>7. Log!BackupsOrdered'
    BY <1>6, LogConstants DEF Log!BackupsOrdered, Log!Names
<1> HIDE DEF k
<1> QED
    BY <1>3, <1>4, <1>5, <1>7

(* Everything else stays sound when the backups and what is made of them do.     *)
LEMMA CallsMove ==
    ASSUME LogInv, NEW t \in Threads, NEW place \in LogPlaces,
           logPc' = [logPc EXCEPT ![t] = place], UNCHANGED state
    PROVE  /\ logPc' \in [Threads \cup Controllers -> LogPlaces]
           /\ \A c \in Controllers : Unset(c)' = Unset(c)
BY LogConstants DEF LogInv, Unset

LEMMA FilesStand ==
    ASSUME LogInv, Log!Files' = Log!Files, UNCHANGED disk
    PROVE  /\ Made' \in Nat /\ Log!Files' = 1 .. Made'
           /\ disk' \in [Log!Names -> 0 .. Made'] /\ Log!BackupsOrdered'
<1>1. Made \in Nat /\ Log!Files' = 1 .. Made
    BY DEF LogInv
<1>2. Made' = Made
    BY <1>1, FilesMade
<1> QED
    BY <1>1, <1>2 DEF LogInv, Log!BackupsOrdered, Log!Names

LEMMA RotateKeeps ==
    ASSUME LogInv, NEW t \in Threads, Log!Rotate(t)
    PROVE  LogInv'
<1>0. /\ disk \in [Log!Names -> 0 .. Made] /\ Ordered(disk) /\ maxFiles \in LogCounts
      /\ Made \in Nat /\ open = (IF file = 0 THEN 0 ELSE 1)
    BY LogConstants DEF LogInv, Log!BackupsOrdered, Ordered, Log!HandlesExact
<1>1. /\ logPc' = [logPc EXCEPT ![t] = "idle"]
      /\ UNCHANGED <<state, path, maxFiles>>
    BY DEF Log!Rotate, Log!Goto, Log!configVars
<1>2. /\ logPc' \in [Threads \cup Controllers -> LogPlaces]
      /\ \A c \in Controllers : Unset(c)' => ~path'
    <2>1. "idle" \in LogPlaces
        BY DEF LogPlaces
    <2> QED
        BY <1>1, <2>1, CallsMove DEF LogInv
<1> DEFINE closed == IF file # 0 THEN open - 1 ELSE open
<1>3. closed = 0
    BY <1>0
<1>4. CASE ~path
    <2>1. file' = 0 /\ open' = closed /\ UNCHANGED <<disk, fileSize>>
        BY <1>4, LogConstants DEF Log!Rotate
    <2>2. Log!Files' = Log!Files
        BY <2>1 DEF Log!Files
    <2> QED
        BY <1>0, <1>1, <1>2, <1>3, <2>1, <2>2, FilesStand, LogConstants
        DEF LogInv, Log!HandlesExact
<1>5. CASE path
    <2> DEFINE moved(done) ==
                  [Log!Shift(disk, done) EXCEPT ![1] = IF disk[0] = 0 THEN @ ELSE disk[0],
                                                ![0] = 0]
    <2> DEFINE Opened(d) ==
                  \/ file' = 0 /\ disk' = d /\ open' = closed /\ fileSize' = fileSize
                  \/ LET f == IF d[0] = 0 THEN Log!Cardinality(Log!Files) + 1 ELSE d[0]
                         s == IF f \in Log!Files THEN fileSize
                              ELSE [g \in Log!Files \cup {f} |->
                                       IF g \in Log!Files THEN fileSize[g] ELSE 0]
                     IN /\ file' = f /\ disk' = [d EXCEPT ![0] = f]
                        /\ open' = closed + 1
                        /\ fileSize' = Log!PrintLine(f, Log!PrintLine(f, s))
    <2>0. PICK done \in SUBSET (1 .. maxFiles) : Opened(moved(done)) \/ Opened(Log!Shift(disk, done))
        <3>1. \E done \in SUBSET (1 .. maxFiles) :
                 Log!Reopen(moved(done)) \/ Log!Reopen(Log!Shift(disk, done))
            BY <1>5, LogConstants DEF Log!Rotate
        <3>2. ASSUME NEW d, Log!Reopen(d)  PROVE Opened(d)
            BY <3>2, LogConstants DEF Log!Reopen
        <3> HIDE DEF Opened, moved
        <3> QED
            BY <3>1, <3>2
    <2>1. PICK d \in {moved(done), Log!Shift(disk, done)} : Opened(d)
        BY <2>0
    <2>2. d \in [Log!Names -> 0 .. Made] /\ Ordered(d)
        BY <1>0, <2>1, BackupKeeps, ShiftKeeps
    <2> HIDE DEF closed, moved
    <2>3. CASE file' = 0 /\ disk' = d /\ open' = closed /\ fileSize' = fileSize
        <3>1. Made' \in Nat /\ Log!Files' = 1 .. Made' /\ Made' = Made
            <4>1. Log!Files' = 1 .. Made
                BY <2>3 DEF Log!Files, LogInv
            <4> QED
                BY <1>0, <4>1, FilesMade
        <3>2. Log!BackupsOrdered'
            BY <2>2, <2>3, LogConstants DEF Ordered, Log!BackupsOrdered, Log!Names
        <3>3. disk' \in [Log!Names -> 0 .. Made']
            BY <2>2, <2>3, <3>1
        <3> QED
            BY <1>0, <1>1, <1>2, <1>3, <2>3, <3>1, <3>2, <3>3, LogConstants
            DEF LogInv, Log!HandlesExact
    <2>4. ASSUME NEW f, f = (IF d[0] = 0 THEN Made + 1 ELSE d[0]),
                 NEW s, s = (IF f \in Log!Files THEN fileSize
                             ELSE [g \in Log!Files \cup {f} |->
                                      IF g \in Log!Files THEN fileSize[g] ELSE 0]),
                 file' = f, disk' = [d EXCEPT ![0] = f], open' = closed + 1,
                 fileSize' = Log!PrintLine(f, Log!PrintLine(f, s))
          PROVE  LogInv'
        <3>1. DOMAIN s = Log!Files \cup {f}
            BY <2>4 DEF Log!Files
        <3>2. Log!Files' = Log!Files \cup {f}
            BY <2>4, <3>1 DEF Log!Files, Log!PrintLine
        <3>3. /\ Made' \in Nat /\ Log!Files' = 1 .. Made'
              /\ disk' \in [Log!Names -> 0 .. Made'] /\ Log!BackupsOrdered'
              /\ f # 0
            BY <2>2, <2>4, <3>2, OpeningKeeps
        <3> QED
            BY <1>0, <1>1, <1>2, <1>3, <1>5, <2>4, <3>3, LogConstants
            DEF LogInv, Log!HandlesExact
    <2> QED
        BY <2>1, <2>3, <2>4 DEF Made
<1> QED
    BY <1>4, <1>5

LEMMA InitOpenKeeps ==
    ASSUME OneController, LogInv, NEW c \in Controllers, Log!InitOpen(c)
    PROVE  LogInv'
<1>1. /\ logPc[c] = "opening" /\ logPc' = [logPc EXCEPT ![c] = "opened"]
      /\ UNCHANGED <<state, maxFiles>>
    BY DEF Log!InitOpen, Log!Goto, Log!configVars
<1>2. ~path /\ file = 0 /\ open = 0
    BY <1>1, LogConstants DEF LogInv, Unset, Log!HandlesExact
<1>3. /\ logPc' \in [Threads \cup Controllers -> LogPlaces]
      /\ \A b \in Controllers : ~Unset(b)'
    BY <1>1 DEF LogInv, Unset, LogPlaces, OneController
<1>4. CASE path' = FALSE /\ UNCHANGED <<file, open, disk, fileSize>>
    <2>1. Log!Files' = Log!Files
        BY <1>4 DEF Log!Files
    <2> QED
        BY <1>1, <1>2, <1>3, <1>4, <2>1, FilesStand, LogConstants DEF LogInv, Log!HandlesExact
<1>5. CASE /\ path' = TRUE /\ Log!Opens(disk)
           /\ fileSize' = IF file' \in Log!Files THEN fileSize
                          ELSE [f \in Log!Files \cup {file'} |->
                                   IF f \in Log!Files THEN fileSize[f] ELSE 0]
    <2>1. /\ file' = (IF disk[0] = 0 THEN Made + 1 ELSE disk[0])
          /\ disk' = [disk EXCEPT ![0] = file'] /\ open' = open + 1
        BY <1>5, LogConstants DEF Log!Opens, Made
    <2>2. Log!Files' = Log!Files \cup {file'}
        BY <1>5 DEF Log!Files
    <2>3. disk \in [Log!Names -> 0 .. Made] /\ Ordered(disk)
        BY LogConstants DEF LogInv, Log!BackupsOrdered, Ordered
    <2>4. /\ Made' \in Nat /\ Log!Files' = 1 .. Made'
          /\ disk' \in [Log!Names -> 0 .. Made'] /\ Log!BackupsOrdered'
          /\ file' # 0
        BY <2>1, <2>2, <2>3, OpeningKeeps
    <2> QED
        BY <1>1, <1>2, <1>3, <1>5, <2>1, <2>4, LogConstants DEF LogInv, Log!HandlesExact
<1> QED
    BY <1>4, <1>5 DEF Log!InitOpen

LEMMA StepLog == ASSUME OneController PROVE LogInv /\ [Log!Next]_(Log!vars) => LogInv'
<1> SUFFICES ASSUME LogInv, [Log!Next]_(Log!vars) PROVE LogInv'
    OBVIOUS
<1>1. CASE UNCHANGED Log!vars
    BY <1>1 DEF Log!vars, Log!fileVars, Log!configVars, LogInv, Made, Log!Files, Unset,
                Log!HandlesExact, Log!BackupsOrdered
<1>2. ASSUME NEW c \in Controllers,
             \/ Log!InitStart(c) \/ Log!InitReset(c) \/ Log!InitFails(c) \/ Log!InitReady(c)
             \/ Log!ShutdownStart(c) \/ Log!ShutdownClose(c) \/ Log!ShutdownReset(c)
             \/ Log!Configure(c)
      PROVE  LogInv'
    <2>1. UNCHANGED <<disk, fileSize>> /\ Log!Files' = Log!Files
        BY <1>2 DEF Log!InitStart, Log!InitReset, Log!InitFails, Log!InitReady,
                    Log!ShutdownStart, Log!ShutdownClose, Log!ShutdownReset, Log!Configure,
                    Log!fileVars, Log!Files
    <2>2. \A b \in Controllers : b = c
        BY DEF OneController
    <2>3. /\ Made' \in Nat /\ Log!Files' = 1 .. Made'
          /\ disk' \in [Log!Names -> 0 .. Made'] /\ Log!BackupsOrdered'
        BY <2>1, FilesStand
    <2>4. maxFiles' \in LogCounts
        BY <1>2, LogConstants
        DEF LogInv, Log!InitStart, Log!InitReset, Log!InitFails, Log!InitReady,
            Log!ShutdownStart, Log!ShutdownClose, Log!ShutdownReset, Log!Configure,
            Log!configVars
    <2>5. logPc' \in [Threads \cup Controllers -> LogPlaces]
        <3>1. logPc' = logPc \/ \E place \in LogPlaces : logPc' = [logPc EXCEPT ![c] = place]
            BY <1>2
            DEF Log!InitStart, Log!InitReset, Log!InitFails, Log!InitReady,
                Log!ShutdownStart, Log!ShutdownClose, Log!ShutdownReset, Log!Configure,
                Log!Goto, LogPlaces
        <3> QED
            BY <3>1 DEF LogInv
    <2>6. CASE Log!InitStart(c) \/ Log!InitReset(c) \/ Log!InitReady(c)
        BY <2>2, <2>3, <2>4, <2>5, <2>6
        DEF LogInv, Log!InitStart, Log!InitReset, Log!InitReady, Log!Goto, Log!fileVars,
            Unset, Log!HandlesExact
    <2>7. CASE Log!InitFails(c) \/ Log!ShutdownClose(c)
        BY <2>2, <2>3, <2>4, <2>5, <2>7, LogConstants
        DEF LogInv, Log!InitFails, Log!ShutdownClose, Log!Goto, Unset, Log!HandlesExact
    <2>8. CASE Log!ShutdownStart(c) \/ Log!ShutdownReset(c) \/ Log!Configure(c)
        BY <2>2, <2>3, <2>4, <2>5, <2>8
        DEF LogInv, Log!ShutdownStart, Log!ShutdownReset, Log!Configure, Log!Goto,
            Log!fileVars, Unset, Log!HandlesExact
    <2> QED
        BY <1>2, <2>6, <2>7, <2>8
<1>3. ASSUME NEW t \in Threads, Log!LogStart(t) \/ Log!Check(t) \/ Log!Decide(t)
      PROVE  LogInv'
    <2>1. UNCHANGED <<state, path, file, open, disk, maxFiles>>
        BY <1>3 DEF Log!LogStart, Log!Check, Log!Decide, Log!fileVars, Log!configVars
    <2>2. Log!Files' = Log!Files
        <3>1. fileSize' = fileSize \/ fileSize' = Log!PrintLine(file, fileSize)
            BY <1>3 DEF Log!LogStart, Log!Check, Log!Decide, Log!fileVars
        <3>2. DOMAIN Log!PrintLine(file, fileSize) = DOMAIN fileSize
            BY DEF Log!PrintLine
        <3> QED
            BY <3>1, <3>2 DEF Log!Files
    <2>3. PICK place \in LogPlaces : logPc' = [logPc EXCEPT ![t] = place]
        BY <1>3 DEF Log!LogStart, Log!Check, Log!Decide, Log!Goto, LogPlaces
    <2>4. /\ logPc' \in [Threads \cup Controllers -> LogPlaces]
          /\ \A c \in Controllers : Unset(c)' = Unset(c)
        BY <2>1, <2>3, CallsMove
    <2>5. /\ Made' \in Nat /\ Log!Files' = 1 .. Made'
          /\ disk' \in [Log!Names -> 0 .. Made'] /\ Log!BackupsOrdered'
        BY <2>1, <2>2, FilesStand
    <2> QED
        BY <2>1, <2>4, <2>5 DEF LogInv, Log!HandlesExact
<1> QED
    BY <1>1, <1>2, <1>3, InitOpenKeeps, RotateKeeps DEF Log!Next
-----------------------------------------------------------------------------
(* The log server.  Every message judged has a number of its own, and with a rate  *)
(* that stays the kept ones are those whose number it divides.                *)
Controller == Remote!Controller
Answering == {"judge", "drop", "keep"}
RemotePlaces ==
    Answering \cup {"idle", "count", "write", "copy", "send",
                    "reset", "opened", "closing", "remote"}

Judging == {t \in Threads : remotePc[t] \in Answering}
Kept == {t \in Threads :
            remotePc[t] = "keep" \/ (remotePc[t] = "judge" /\ hand[t] % rate = 0)}

RemoteTypes ==
    /\ remotePc \in [Threads \cup {Controller} -> RemotePlaces]
    /\ hand \in [Threads \cup {Controller} -> Nat \cup {Remote!None}]
    /\ counter \in Nat /\ total \in Nat /\ dropped \in Nat
    /\ rate \in Nat \ {0} /\ even \in {rate, Remote!None}
    /\ sock \in ServerFds \cup {Remote!None}
    /\ fds \in [ServerFds -> {"free", "server", "other"}]
    /\ filter \in BOOLEAN /\ enabled \in BOOLEAN

CountInv ==
    /\ counter = total + dropped + Cardinality(Judging)
    /\ \A t \in Threads : remotePc[t] = "judge" => hand[t] \in Nat
    /\ even # Remote!None => total + Cardinality(Kept) <= counter \div rate

(* What is configured, and when nothing is.                                     *)
Unconfigured ==
    \/ remotePc[Controller] \in {"reset", "opened"}
    \/ remoteState # "ready" /\ remotePc[Controller] = "idle"

ServerInv ==
    /\ Unconfigured => ~filter /\ sock = Remote!None
    /\ remotePc[Controller] = "remote" =>
         remoteState = "ready" /\ hand[Controller] \in ServerFds \ {sock}
    /\ remotePc[Controller] # "remote" => hand[Controller] = Remote!None
    /\ enabled <=> sock # Remote!None
    /\ regexes = IF filter THEN 1 ELSE 0
    /\ \A d \in ServerFds : fds[d] = "server" <=> d \in {sock, hand[Controller]}
    /\ \A t \in Threads : remotePc[t] = "send" => sock # Remote!None /\ hand[t] = sock
    /\ reached \subseteq {"server"}

RemoteInv == RemoteTypes /\ CountInv /\ ServerInv

LEMMA RemoteConstants ==
    /\ IsFiniteSet(Threads) /\ Controller \notin Threads
    /\ Rates \subseteq Nat \ {0} /\ ServerFds \subseteq Nat
    /\ Remote!None = -1 /\ Remote!None \notin Nat
<1>1. Remote!IsFiniteSet(Threads) => IsFiniteSet(Threads)
    BY DEF Remote!IsFiniteSet, IsFiniteSet
<1> QED
    BY <1>1, UserConstants DEF Remote!RemoteLogAssumption, Remote!None, Controller

LEMMA RemoteCounts == \A S : Remote!Cardinality(S) = Cardinality(S)
BY DEF Remote!Cardinality, Cardinality

LEMMA InitRemote == Remote!Init => RemoteInv
<1> SUFFICES ASSUME Remote!Init PROVE RemoteInv
    OBVIOUS
<1>1. RemoteTypes
    <2>1. /\ remotePc \in [Threads \cup {Controller} -> RemotePlaces]
          /\ hand \in [Threads \cup {Controller} -> Nat \cup {Remote!None}]
          /\ fds \in [ServerFds -> {"free", "server", "other"}]
        BY DEF Remote!Init, RemotePlaces, Controller
    <2>2. /\ counter = 0 /\ total = 0 /\ dropped = 0 /\ rate = 1 /\ even = 1
          /\ sock = Remote!None /\ filter = FALSE /\ enabled = FALSE
        BY DEF Remote!Init
    <2>3. filter \in BOOLEAN /\ enabled \in BOOLEAN
        BY <2>2, Zenon
    <2>4. counter \in Nat /\ total \in Nat /\ dropped \in Nat /\ rate \in Nat \ {0}
        BY <2>2
    <2>5. even \in {rate, Remote!None} /\ sock \in ServerFds \cup {Remote!None}
        BY <2>2, Zenon
    <2> QED
        BY <2>1, <2>3, <2>4, <2>5 DEF RemoteTypes
<1>2. Judging = {} /\ Kept = {}
    BY DEF Remote!Init, Judging, Kept, Answering
<1>3. 0 <= 0 \div 1 /\ Cardinality({}) = 0
    BY FS_EmptySet
<1>4. CountInv
    BY <1>2, <1>3 DEF Remote!Init, CountInv
<1>5. ServerInv
    BY RemoteConstants DEF Remote!Init, ServerInv, Controller
<1> QED
    BY <1>1, <1>4, <1>5 DEF RemoteInv

LEMMA PartsAreFinite ==
    /\ IsFiniteSet(Judging) /\ Cardinality(Judging) \in Nat
    /\ IsFiniteSet(Kept) /\ Cardinality(Kept) \in Nat
BY RemoteConstants, FS_Subset, FS_CardinalityType DEF Judging, Kept

(* The number of multiples up to a number, which one more may be.               *)
LEMMA QuotientGrows ==
    ASSUME NEW e \in Nat \ {0}, NEW n \in Nat
    PROVE  /\ n \div e \in Nat
           /\ (n + 1) \div e >= n \div e
           /\ (n + 1) % e = 0 => (n + 1) \div e >= (n \div e) + 1
<1> DEFINE q == n \div e
           r == n % e
           p == (n + 1) \div e
           s == (n + 1) % e
<1>1. /\ q \in Int /\ r \in 0 .. e - 1 /\ n = q * e + r
      /\ p \in Int /\ s \in 0 .. e - 1 /\ n + 1 = p * e + s
    OBVIOUS
<1> HIDE DEF q, r, p, s
<1>2. p >= q
    <2> SUFFICES ASSUME p + 1 <= q PROVE FALSE
        BY <1>1
    <2>1. (q - (p + 1)) * e >= 0
        BY <1>1
    <2>2. (q - (p + 1)) * e = q * e - p * e - e
        BY <1>1
    <2> QED
        BY <1>1, <2>1, <2>2
<1>3. s = 0 => p # q
    BY <1>1
<1>4. q >= 0
    <2> SUFFICES ASSUME q <= -1 PROVE FALSE
        BY <1>1
    <2>1. (-1 - q) * e >= 0
        BY <1>1
    <2>2. (-1 - q) * e = -e - q * e
        BY <1>1
    <2> QED
        BY <1>1, <2>1, <2>2
<1> QED
    BY <1>1, <1>2, <1>3, <1>4 DEF q, r, p, s

(* A thread that moves, while all the rest stays.                              *)
LEMMA ThreadMoves ==
    ASSUME RemoteTypes, NEW t \in Threads, NEW place \in RemotePlaces,
           NEW h \in Nat \cup {Remote!None},
           remotePc' = [remotePc EXCEPT ![t] = place], hand' = [hand EXCEPT ![t] = h]
    PROVE  /\ remotePc' \in [Threads \cup {Controller} -> RemotePlaces]
           /\ hand' \in [Threads \cup {Controller} -> Nat \cup {Remote!None}]
           /\ remotePc'[t] = place /\ hand'[t] = h
           /\ \A u \in Threads \ {t} : remotePc'[u] = remotePc[u] /\ hand'[u] = hand[u]
           /\ remotePc'[Controller] = remotePc[Controller]
           /\ hand'[Controller] = hand[Controller]
BY RemoteConstants DEF RemoteTypes

LEMMA ServerStands ==
    ASSUME RemoteTypes, ServerInv, NEW t \in Threads,
           remotePc'[Controller] = remotePc[Controller], hand'[Controller] = hand[Controller],
           \A u \in Threads \ {t} : remotePc'[u] = remotePc[u] /\ hand'[u] = hand[u],
           remotePc'[t] = "send" => sock # Remote!None /\ hand'[t] = sock,
           UNCHANGED <<remoteState, filter, sock, enabled, regexes, fds>>,
           reached' \subseteq {"server"}
    PROVE  ServerInv'
BY RemoteConstants DEF ServerInv, Unconfigured

LEMMA CountStands ==
    ASSUME RemoteTypes, CountInv,
           \A u \in Threads : remotePc'[u] = "judge" => hand'[u] \in Nat,
           Judging' = Judging, Kept' \subseteq Kept,
           UNCHANGED <<counter, total, dropped, rate, even>>
    PROVE  CountInv'
<1>1. Cardinality(Kept') \in Nat /\ Cardinality(Kept') <= Cardinality(Kept)
    BY PartsAreFinite, FS_Subset, FS_CardinalityType
<1>2. counter \div rate \in Nat
    BY QuotientGrows DEF RemoteTypes
<1> QED
    BY <1>1, <1>2, PartsAreFinite DEF CountInv, RemoteTypes

LEMMA LoggersKeep ==
    ASSUME RemoteInv, NEW t \in Threads,
           \/ \E c \in LogCalls : \E l \in Levels : Remote!Log(t, c, l)
           \/ Remote!Count(t) \/ Remote!Judge(t) \/ Remote!Drop(t) \/ Remote!Keep(t)
           \/ Remote!Write(t) \/ Remote!Copy(t) \/ Remote!Send(t)
    PROVE  RemoteInv'
<1>0. RemoteTypes /\ CountInv /\ ServerInv
    BY DEF RemoteInv
<1>1. ASSUME NEW from \in RemotePlaces, NEW place \in RemotePlaces,
             remotePc[t] = from, remotePc' = [remotePc EXCEPT ![t] = place],
             NEW h \in Nat \cup {Remote!None}, hand' = [hand EXCEPT ![t] = h],
             UNCHANGED <<remoteState, rate, filter, sock, enabled, regexes, even, fds>>,
             place = "send" => sock # Remote!None /\ h = sock,
             reached' \subseteq {"server"},
             counter' \in Nat /\ total' \in Nat /\ dropped' \in Nat
      PROVE  RemoteTypes' /\ ServerInv' /\ (CountInv' => RemoteInv')
    <2>1. /\ remotePc' \in [Threads \cup {Controller} -> RemotePlaces]
          /\ hand' \in [Threads \cup {Controller} -> Nat \cup {Remote!None}]
          /\ remotePc'[t] = place /\ hand'[t] = h
          /\ \A u \in Threads \ {t} : remotePc'[u] = remotePc[u] /\ hand'[u] = hand[u]
          /\ remotePc'[Controller] = remotePc[Controller]
          /\ hand'[Controller] = hand[Controller]
        BY <1>0, <1>1, ThreadMoves
    <2>2. RemoteTypes'
        BY <1>0, <1>1, <2>1 DEF RemoteTypes
    <2>3. ServerInv'
        BY <1>0, <1>1, <2>1, ServerStands
    <2> QED
        BY <2>2, <2>3 DEF RemoteInv
<1>s. reached \subseteq {"server"}
    BY <1>0 DEF ServerInv
<1>h. hand = [hand EXCEPT ![t] = hand[t]] /\ hand[t] \in Nat \cup {Remote!None}
    BY <1>0 DEF RemoteTypes
<1>n. counter \in Nat /\ total \in Nat /\ dropped \in Nat /\ rate \in Nat \ {0}
    BY <1>0 DEF RemoteTypes
<1>2. ASSUME NEW c \in LogCalls, NEW l \in Levels, Remote!Log(t, c, l) PROVE RemoteInv'
    <2>1. PICK place \in {"write", "count"} :
             remotePc[t] = "idle" /\ remotePc' = [remotePc EXCEPT ![t] = place]
        BY <1>2 DEF Remote!Log, Remote!Goto
    <2>2. UNCHANGED <<remoteState, rate, filter, sock, enabled, regexes, even, fds, hand,
                      reached, counter, total, dropped>>
        BY <1>2 DEF Remote!Log, Remote!configVars, Remote!countVars
    <2>3. Judging' = Judging /\ Kept' = Kept
        BY <1>0, <2>1, <2>2 DEF Judging, Kept, Answering, RemoteTypes
    <2>4. CountInv'
        BY <1>0, <2>1, <2>2, <2>3, CountStands DEF CountInv, RemoteTypes
    <2> QED
        BY <1>1, <1>h, <1>n, <1>s, <2>1, <2>2, <2>4 DEF RemotePlaces, Answering
<1>3. ASSUME Remote!Count(t) PROVE RemoteInv'
    <2>1. /\ remotePc[t] = "count" /\ remotePc' = [remotePc EXCEPT ![t] = "judge"]
          /\ counter' = counter + 1 /\ hand' = [hand EXCEPT ![t] = counter + 1]
          /\ UNCHANGED <<remoteState, rate, filter, sock, enabled, regexes, even, fds,
                         reached, total, dropped>>
        BY <1>3 DEF Remote!Count, Remote!Goto, Remote!configVars
    <2>2. Judging' = Judging \cup {t} /\ t \notin Judging
        BY <1>0, <2>1 DEF Judging, Answering, RemoteTypes
    <2>3. Kept' = (IF (counter + 1) % rate = 0 THEN Kept \cup {t} ELSE Kept) /\ t \notin Kept
        BY <1>0, <2>1 DEF Kept, RemoteTypes
    <2>4. /\ Cardinality(Judging') = Cardinality(Judging) + 1
          /\ Cardinality(Kept') = (IF (counter + 1) % rate = 0 THEN Cardinality(Kept) + 1
                                                            ELSE Cardinality(Kept))
        BY <2>2, <2>3, PartsAreFinite, FS_AddElement
    <2>5. /\ counter \div rate \in Nat
          /\ (counter + 1) \div rate >= counter \div rate
          /\ (counter + 1) % rate = 0 => (counter + 1) \div rate >= (counter \div rate) + 1
        BY <1>n, QuotientGrows
    <2>6. even' # Remote!None => total' + Cardinality(Kept') <= counter' \div rate'
        <3> DEFINE q == counter \div rate
                   p == (counter + 1) \div rate
        <3>1. p \in Int
            BY <1>n
        <3> HIDE DEF q, p
        <3>2. even # Remote!None => total + Cardinality(Kept) <= q
            BY <1>0 DEF CountInv, q
        <3>3. q \in Nat /\ p >= q /\ ((counter + 1) % rate = 0 => p >= q + 1)
            BY <2>5 DEF q, p
        <3>4. even # Remote!None => total + Cardinality(Kept') <= p
            BY <1>n, <2>4, <3>1, <3>2, <3>3, PartsAreFinite
        <3> QED
            BY <2>1, <3>4 DEF p
    <2>7. counter' = total' + dropped' + Cardinality(Judging')
        BY <1>0, <1>n, <2>1, <2>4, PartsAreFinite DEF CountInv
    <2>8. \A u \in Threads : remotePc'[u] = "judge" => hand'[u] \in Nat
        BY <1>0, <1>n, <2>1 DEF CountInv, RemoteTypes
    <2>9. CountInv'
        BY <2>6, <2>7, <2>8 DEF CountInv
    <2>10. counter' \in Nat /\ total' \in Nat /\ dropped' \in Nat /\ counter' = counter + 1
        BY <1>n, <2>1
    <2>11. /\ "count" \in RemotePlaces /\ "judge" \in RemotePlaces /\ "judge" # "send"
           /\ hand' = [hand EXCEPT ![t] = counter']
        BY <2>1 DEF RemotePlaces, Answering
    <2> QED
        BY <1>1, <1>s, <2>1, <2>9, <2>10, <2>11
<1>4. ASSUME Remote!Judge(t) PROVE RemoteInv'
    <2>1. PICK place \in {"drop", "keep"} :
             /\ remotePc[t] = "judge" /\ remotePc' = [remotePc EXCEPT ![t] = place]
             /\ place = "keep" => ~(rate > 1 /\ hand[t] % rate # 0)
        BY <1>4 DEF Remote!Judge, Remote!Goto, Remote!Sampled
    <2>2. UNCHANGED <<remoteState, rate, filter, sock, enabled, regexes, even, fds, hand,
                      reached, counter, total, dropped>>
        BY <1>4 DEF Remote!Judge, Remote!configVars, Remote!countVars
    <2>3. Judging' = Judging
        BY <1>0, <2>1 DEF Judging, Answering, RemoteTypes
    <2>4. hand[t] \in Nat
        BY <1>0, <2>1 DEF CountInv
    <2>5. place = "keep" => hand[t] % rate = 0
        BY <1>n, <2>1, <2>4
    <2>6. Kept' \subseteq Kept
        BY <1>0, <2>1, <2>2, <2>5 DEF Kept, RemoteTypes
    <2>7. \A u \in Threads : remotePc'[u] = "judge" => hand'[u] \in Nat
        BY <1>0, <2>1, <2>2 DEF CountInv, RemoteTypes
    <2>8. CountInv'
        BY <1>0, <2>2, <2>3, <2>6, <2>7, CountStands
    <2> QED
        BY <1>1, <1>h, <1>n, <1>s, <2>1, <2>2, <2>8 DEF RemotePlaces, Answering
<1>5. ASSUME Remote!Drop(t) \/ Remote!Keep(t) PROVE RemoteInv'
    <2>1. PICK from \in {"drop", "keep"}, place \in {"idle", "write"} :
             /\ remotePc[t] = from /\ remotePc' = [remotePc EXCEPT ![t] = place]
             /\ hand' = [hand EXCEPT ![t] = Remote!None]
             /\ total' = (IF from = "keep" THEN total + 1 ELSE total)
             /\ dropped' = (IF from = "keep" THEN dropped ELSE dropped + 1)
        BY <1>5 DEF Remote!Drop, Remote!Keep, Remote!Goto
    <2>2. UNCHANGED <<remoteState, rate, filter, sock, enabled, regexes, even, fds,
                      reached, counter>>
        BY <1>5 DEF Remote!Drop, Remote!Keep, Remote!configVars
    <2>3. Judging' = Judging \ {t} /\ t \in Judging
        BY <1>0, <2>1 DEF Judging, Answering, RemoteTypes
    <2>4. Kept' = Kept \ {t} /\ (t \in Kept <=> from = "keep")
        BY <1>0, <2>1, <2>2 DEF Kept, RemoteTypes
    <2>5. /\ Cardinality(Judging') = Cardinality(Judging) - 1
          /\ Cardinality(Kept') = (IF from = "keep" THEN Cardinality(Kept) - 1
                                                  ELSE Cardinality(Kept))
        BY <2>3, <2>4, PartsAreFinite, FS_RemoveElement
    <2>6. counter' = total' + dropped' + Cardinality(Judging')
        BY <1>0, <1>n, <2>1, <2>2, <2>5, PartsAreFinite DEF CountInv
    <2>7. total' + Cardinality(Kept') = total + Cardinality(Kept)
        BY <1>n, <2>1, <2>5, PartsAreFinite
    <2>8. \A u \in Threads : remotePc'[u] = "judge" => hand'[u] \in Nat
        BY <1>0, <2>1 DEF CountInv, RemoteTypes
    <2>9. CountInv'
        BY <1>0, <2>2, <2>6, <2>7, <2>8 DEF CountInv
    <2>10. total' \in Nat /\ dropped' \in Nat
        BY <1>n, <2>1
    <2> QED
        BY <1>1, <1>n, <1>s, <2>1, <2>2, <2>9, <2>10 DEF RemotePlaces, Answering
<1>6. ASSUME Remote!Write(t) \/ Remote!Copy(t) \/ Remote!Send(t) PROVE RemoteInv'
    <2>1. PICK from \in {"write", "copy", "send"}, place \in {"idle", "copy", "send"},
              h \in Nat \cup {Remote!None} :
             /\ remotePc[t] = from /\ remotePc' = [remotePc EXCEPT ![t] = place]
             /\ hand' = [hand EXCEPT ![t] = h]
             /\ place = "send" => sock # Remote!None /\ h = sock
        <3>1. CASE Remote!Write(t)
            BY <1>h, <3>1 DEF Remote!Write, Remote!Goto
        <3>2. CASE Remote!Copy(t)
            <4>1. sock \in Nat \cup {Remote!None}
                BY <1>0, RemoteConstants DEF RemoteTypes
            <4> QED
                BY <3>2, <4>1 DEF Remote!Copy, Remote!Goto
        <3>3. CASE Remote!Send(t)
            BY <3>3 DEF Remote!Send, Remote!Goto
        <3> QED
            BY <1>6, <3>1, <3>2, <3>3
    <2>2. UNCHANGED <<remoteState, rate, filter, sock, enabled, regexes, even, fds,
                      counter, total, dropped>>
        BY <1>6 DEF Remote!Write, Remote!Copy, Remote!Send, Remote!configVars,
                    Remote!countVars
    <2>3. reached' \subseteq {"server"}
        <3>1. CASE Remote!Write(t) \/ Remote!Copy(t)
            BY <1>s, <3>1 DEF Remote!Write, Remote!Copy
        <3>2. CASE Remote!Send(t)
            <4>1. hand[t] = sock /\ sock \in ServerFds
                BY <1>0, <3>2 DEF ServerInv, RemoteTypes, Remote!Send, Remote!Goto
            <4>2. fds[hand[t]] = "server"
                BY <1>0, <4>1 DEF ServerInv
            <4> QED
                BY <1>s, <3>2, <4>2 DEF Remote!Send
        <3> QED
            BY <1>6, <3>1, <3>2
    <2>4. Judging' = Judging /\ Kept' = Kept
        BY <1>0, <2>1, <2>2 DEF Judging, Kept, Answering, RemoteTypes
    <2>5. \A u \in Threads : remotePc'[u] = "judge" => hand'[u] \in Nat
        BY <1>0, <2>1 DEF CountInv, RemoteTypes
    <2>6. CountInv'
        BY <1>0, <2>2, <2>4, <2>5, CountStands
    <2> QED
        BY <1>1, <1>n, <2>1, <2>2, <2>3, <2>6 DEF RemotePlaces, Answering
<1> QED
    BY <1>2, <1>3, <1>4, <1>5, <1>6

(* The controller changes what is configured only while nobody logs.            *)
NobodyLogs == \A t \in Threads : remotePc[t] = "idle"

LEMMA ControllerMoves ==
    ASSUME RemoteTypes, NEW place \in RemotePlaces, NEW h \in Nat \cup {Remote!None},
           remotePc' = [remotePc EXCEPT ![Controller] = place],
           hand' = [hand EXCEPT ![Controller] = h]
    PROVE  /\ remotePc' \in [Threads \cup {Controller} -> RemotePlaces]
           /\ hand' \in [Threads \cup {Controller} -> Nat \cup {Remote!None}]
           /\ remotePc'[Controller] = place /\ hand'[Controller] = h
           /\ \A t \in Threads : remotePc'[t] = remotePc[t] /\ hand'[t] = hand[t]
BY RemoteConstants DEF RemoteTypes

LEMMA NumbersStand ==
    ASSUME CountInv, \A t \in Threads : remotePc'[t] = remotePc[t] /\ hand'[t] = hand[t],
           UNCHANGED <<counter, total, dropped, rate, even>>
    PROVE  CountInv'
<1>1. Judging' = Judging /\ Kept' = Kept
    BY DEF Judging, Kept
<1> QED
    BY <1>1 DEF CountInv

(* The counters begin again.                                                  *)
LEMMA ResetCounts ==
    ASSUME NobodyLogs, \A t \in Threads : remotePc'[t] = remotePc[t],
           counter' = 0, total' = 0, dropped' = 0, rate' \in Nat \ {0}
    PROVE  CountInv'
<1>1. Judging' = {} /\ Kept' = {}
    BY DEF NobodyLogs, Judging, Kept, Answering
<1>2. Cardinality({}) = 0
    BY FS_EmptySet
<1>3. 0 \div rate' \in Nat
    BY QuotientGrows
<1> QED
    BY <1>1, <1>2, <1>3 DEF CountInv, NobodyLogs

LEMMA StartsKeep ==
    ASSUME RemoteInv,
           \/ \E l \in Levels : Remote!InitStart(l)
           \/ Remote!InitEnds \/ Remote!ShutdownStart
    PROVE  RemoteInv'
<1>0. RemoteTypes /\ CountInv /\ ServerInv
    BY DEF RemoteInv
<1>1. PICK from \in {"idle", "opened"}, place \in {"reset", "idle", "closing"} :
         /\ remotePc[Controller] = from
         /\ remotePc' = [remotePc EXCEPT ![Controller] = place]
         /\ from = "idle" /\ place = "reset" => remoteState = "uninitialized"
         /\ from = "opened" <=> place = "idle"
    BY DEF Remote!InitStart, Remote!InitEnds, Remote!ShutdownStart, Remote!Goto, Controller,
           Remote!Free
<1>2. UNCHANGED <<rate, filter, sock, enabled, regexes, even, counter, total, dropped, fds,
                  hand, reached>>
    BY DEF Remote!InitStart, Remote!InitEnds, Remote!ShutdownStart, Remote!configVars,
           Remote!countVars
<1>3. hand' = [hand EXCEPT ![Controller] = hand[Controller]]
      /\ hand[Controller] \in Nat \cup {Remote!None}
    BY <1>0, <1>2 DEF RemoteTypes
<1>4. place \in RemotePlaces /\ place # "remote"
    BY DEF RemotePlaces
<1>5. /\ remotePc' \in [Threads \cup {Controller} -> RemotePlaces]
      /\ remotePc'[Controller] = place
      /\ \A t \in Threads : remotePc'[t] = remotePc[t] /\ hand'[t] = hand[t]
    BY <1>0, <1>1, <1>3, <1>4, ControllerMoves
<1>6. RemoteTypes'
    BY <1>0, <1>2, <1>5 DEF RemoteTypes
<1>7. CountInv'
    BY <1>0, <1>2, <1>5, NumbersStand
<1>8. Unconfigured' => Unconfigured
    BY <1>1, <1>5 DEF Unconfigured
<1>9. ServerInv'
    BY <1>0, <1>1, <1>2, <1>4, <1>5, <1>8 DEF ServerInv
<1> QED
    BY <1>6, <1>7, <1>9 DEF RemoteInv

LEMMA ResetsKeep ==
    ASSUME RemoteInv, Remote!InitReset \/ Remote!ShutdownEnds
    PROVE  RemoteInv'
<1>0. RemoteTypes /\ CountInv /\ ServerInv
    BY DEF RemoteInv
<1>1. /\ NobodyLogs
      /\ counter' = 0 /\ total' = 0 /\ dropped' = 0 /\ rate' = 1 /\ even' = 1
      /\ sock' = Remote!None /\ enabled' = FALSE /\ filter' = FALSE
      /\ UNCHANGED <<remoteState, hand, reached>>
    BY DEF Remote!InitReset, Remote!ShutdownEnds, Remote!Reset, Remote!Quiet, NobodyLogs,
           Remote!FilterCleared
<1>2. PICK place \in {"opened", "idle"} :
         remotePc' = [remotePc EXCEPT ![Controller] = place]
    BY DEF Remote!InitReset, Remote!ShutdownEnds, Remote!Goto, Controller
<1>3. remotePc[Controller] \in {"reset", "closing"}
    BY DEF Remote!InitReset, Remote!ShutdownEnds, Remote!Goto, Controller
<1>4. hand' = [hand EXCEPT ![Controller] = hand[Controller]]
      /\ hand[Controller] = Remote!None
    BY <1>0, <1>1, <1>3 DEF RemoteTypes, ServerInv
<1>5. place \in RemotePlaces /\ place # "remote"
    BY DEF RemotePlaces
<1>6. /\ remotePc' \in [Threads \cup {Controller} -> RemotePlaces]
      /\ hand' \in [Threads \cup {Controller} -> Nat \cup {Remote!None}]
      /\ remotePc'[Controller] = place /\ hand'[Controller] = Remote!None
      /\ \A t \in Threads : remotePc'[t] = remotePc[t] /\ hand'[t] = hand[t]
    BY <1>0, <1>2, <1>4, <1>5, ControllerMoves
<1>7. CountInv'
    BY <1>1, <1>6, ResetCounts
<1>8. /\ fds' \in [ServerFds -> {"free", "server", "other"}]
      /\ \A d \in ServerFds : fds'[d] # "server"
      /\ regexes' = 0
    <2>1. CASE Remote!InitReset
        <3>1. ~filter /\ sock = Remote!None /\ UNCHANGED <<fds, regexes>>
            BY <1>0, <2>1 DEF Remote!InitReset, Remote!Goto, ServerInv, Unconfigured, Controller
        <3> QED
            BY <1>0, <1>4, <3>1, RemoteConstants DEF RemoteTypes, ServerInv
    <2>2. CASE Remote!ShutdownEnds
        <3>1. fds' = (IF enabled /\ sock # Remote!None THEN [fds EXCEPT ![sock] = "free"] ELSE fds)
              /\ regexes' = regexes - (IF filter THEN 1 ELSE 0)
            BY <2>2 DEF Remote!ShutdownEnds, Remote!CloseServer, Remote!FilterCleared
        <3>2. regexes' = 0
            BY <1>0, <3>1 DEF ServerInv
        <3> QED
            BY <1>0, <1>4, <3>1, <3>2, RemoteConstants DEF RemoteTypes, ServerInv
    <2> QED
        BY <2>1, <2>2
<1>9. RemoteTypes'
    <2>1. filter' \in BOOLEAN /\ enabled' \in BOOLEAN
        BY <1>1, Zenon
    <2>2. counter' \in Nat /\ total' \in Nat /\ dropped' \in Nat /\ rate' \in Nat \ {0}
        BY <1>1
    <2>3. even' \in {rate', Remote!None} /\ sock' \in ServerFds \cup {Remote!None}
        BY <1>1, Zenon
    <2> QED
        BY <1>6, <1>8, <2>1, <2>2, <2>3 DEF RemoteTypes
<1>10. ServerInv'
    BY <1>0, <1>1, <1>5, <1>6, <1>8, RemoteConstants DEF ServerInv, NobodyLogs
<1> QED
    BY <1>7, <1>9, <1>10 DEF RemoteInv

LEMMA SettingsKeep ==
    ASSUME RemoteInv,
           \/ \E l \in Levels : Remote!SetLevel(l)
           \/ Remote!SetFilter \/ Remote!ClearFilter
           \/ \E r \in Rates : Remote!SetSampling(r)
    PROVE  RemoteInv'
<1>0. RemoteTypes /\ CountInv /\ ServerInv
    BY DEF RemoteInv
<1>1. UNCHANGED <<remoteState, sock, enabled, counter, total, dropped, fds, remotePc, hand,
                  reached>>
    BY DEF Remote!SetLevel, Remote!SetFilter, Remote!ClearFilter, Remote!SetSampling,
           Remote!configVars, Remote!countVars
<1>2. CASE UNCHANGED <<rate, even>>
    <2>1. filter' \in BOOLEAN /\ (Unconfigured => ~filter')
        <3>1. CASE \E l \in Levels : Remote!SetLevel(l)
            BY <1>0, <3>1 DEF Remote!SetLevel, Remote!configVars, RemoteTypes, ServerInv
        <3>2. CASE Remote!ClearFilter
            BY <3>2 DEF Remote!ClearFilter, Remote!FilterCleared
        <3>3. CASE Remote!SetFilter
            <4>1. filter' = TRUE /\ remotePc[Controller] = "idle" /\ remoteState = "ready"
                BY <3>3 DEF Remote!SetFilter, Remote!Configures, Remote!Free, Controller
            <4> QED
                BY <4>1 DEF Unconfigured
        <3>4. CASE \E r \in Rates : Remote!SetSampling(r)
            BY <1>0, <3>4 DEF Remote!SetSampling, RemoteTypes, ServerInv
        <3> QED
            BY <3>1, <3>2, <3>3, <3>4
    <2>2. regexes' = IF filter' THEN 1 ELSE 0
        BY <1>0 DEF Remote!SetLevel, Remote!SetFilter, Remote!ClearFilter, Remote!SetSampling,
                    Remote!FilterCleared, Remote!configVars, ServerInv
    <2>3. RemoteTypes'
        BY <1>0, <1>1, <1>2, <2>1 DEF RemoteTypes
    <2>4. CountInv'
        BY <1>0, <1>1, <1>2, NumbersStand
    <2>5. ServerInv'
        BY <1>0, <1>1, <2>1, <2>2 DEF ServerInv, Unconfigured
    <2> QED
        BY <2>3, <2>4, <2>5 DEF RemoteInv
<1>3. ASSUME NEW r \in Rates, Remote!SetSampling(r) PROVE RemoteInv'
    <2>1. /\ rate' = r /\ UNCHANGED <<filter, regexes>>
          /\ even' = (IF NobodyLogs /\ counter = 0 THEN r
                      ELSE IF r = even THEN even ELSE Remote!None)
        BY <1>3 DEF Remote!SetSampling, NobodyLogs, Remote!Quiet
    <2>2. r \in Nat \ {0}
        BY RemoteConstants
    <2>3. RemoteTypes'
        <3>1. even' \in {rate', Remote!None}
            BY <2>1
        <3> QED
            BY <1>0, <1>1, <2>1, <2>2, <3>1 DEF RemoteTypes
    <2>4. ServerInv'
        BY <1>0, <1>1, <2>1 DEF ServerInv, Unconfigured
    <2>5. CountInv'
        <3>1. CASE NobodyLogs /\ counter = 0
            <4>1. total = 0 /\ dropped = 0
                BY <1>0, <3>1, PartsAreFinite DEF CountInv, RemoteTypes
            <4> QED
                BY <1>1, <2>1, <2>2, <3>1, <4>1, ResetCounts
        <3>2. CASE even' # Remote!None /\ r = rate
            <4>1. Judging' = Judging /\ Kept' = Kept /\ rate' = rate
                BY <1>1, <2>1, <3>2 DEF Judging, Kept
            <4>2. CASE NobodyLogs /\ counter = 0
                BY <3>1, <4>2
            <4>3. CASE ~(NobodyLogs /\ counter = 0)
                BY <1>0, <1>1, <2>1, <3>2, <4>1, <4>3 DEF CountInv
            <4> QED
                BY <4>2, <4>3
        <3>3. CASE even' = Remote!None
            <4>1. Judging' = Judging
                BY <1>1 DEF Judging
            <4> QED
                BY <1>0, <1>1, <3>3, <4>1 DEF CountInv
        <3>4. even' # Remote!None /\ ~(NobodyLogs /\ counter = 0) => r = rate
            BY <1>0, <2>1, <2>2, RemoteConstants DEF RemoteTypes
        <3> QED
            BY <3>1, <3>2, <3>3, <3>4
    <2> QED
        BY <2>3, <2>4, <2>5 DEF RemoteInv
<1> QED
    BY <1>2, <1>3 DEF Remote!SetLevel, Remote!SetFilter, Remote!ClearFilter,
                      Remote!FilterCleared, Remote!configVars

(* A descriptor of the server comes and goes while nobody logs.                  *)
LEMMA ServersKeep ==
    ASSUME RemoteInv, Remote!SetRemote \/ Remote!RemoteEnds \/ Remote!DisableRemote
    PROVE  RemoteInv'
<1>0. RemoteTypes /\ CountInv /\ ServerInv
    BY DEF RemoteInv
<1>1. /\ NobodyLogs
      /\ UNCHANGED <<remoteState, rate, filter, regexes, even, counter, total, dropped, reached>>
    BY DEF Remote!SetRemote, Remote!RemoteEnds, Remote!DisableRemote, Remote!Reconfigures,
           Remote!Quiet, NobodyLogs, Remote!configVars, Remote!countVars
<1>c. /\ remotePc \in [Threads \cup {Controller} -> RemotePlaces]
      /\ hand \in [Threads \cup {Controller} -> Nat \cup {Remote!None}]
    BY <1>0 DEF RemoteTypes
<1>2. ASSUME NEW place \in RemotePlaces, NEW h \in Nat \cup {Remote!None},
             remotePc' = [remotePc EXCEPT ![Controller] = place],
             hand' = [hand EXCEPT ![Controller] = h],
             fds' \in [ServerFds -> {"free", "server", "other"}],
             sock' \in ServerFds \cup {Remote!None}, enabled' \in BOOLEAN,
             remoteState = "ready",
             place \in {"remote", "idle"},
             place = "remote" => h \in ServerFds \ {sock'},
             place # "remote" => h = Remote!None,
             enabled' <=> sock' # Remote!None,
             \A d \in ServerFds : fds'[d] = "server" <=> d \in {sock', h}
      PROVE  RemoteInv'
    <2>1. /\ remotePc' \in [Threads \cup {Controller} -> RemotePlaces]
          /\ hand' \in [Threads \cup {Controller} -> Nat \cup {Remote!None}]
          /\ remotePc'[Controller] = place /\ hand'[Controller] = h
          /\ \A t \in Threads : remotePc'[t] = remotePc[t] /\ hand'[t] = hand[t]
        BY <1>0, <1>2, ControllerMoves
    <2>2. RemoteTypes'
        BY <1>0, <1>1, <1>2, <2>1 DEF RemoteTypes
    <2>3. CountInv'
        BY <1>0, <1>1, <2>1, NumbersStand
    <2>4. ~Unconfigured' /\ \A t \in Threads : remotePc'[t] # "send"
        BY <1>1, <1>2, <2>1 DEF Unconfigured, NobodyLogs
    <2>5. ServerInv'
        BY <1>0, <1>1, <1>2, <2>1, <2>4 DEF ServerInv
    <2> QED
        BY <2>2, <2>3, <2>5 DEF RemoteInv
<1>p. {"idle", "remote"} \subseteq RemotePlaces
    BY DEF RemotePlaces
<1>n. Remote!None \notin ServerFds
    BY RemoteConstants
<1> DEFINE me == hand[Controller]
           closed == IF enabled /\ sock # Remote!None THEN [fds EXCEPT ![sock] = "free"] ELSE fds
<1>f. /\ fds \in [ServerFds -> {"free", "server", "other"}]
      /\ sock \in ServerFds \cup {Remote!None} /\ enabled \in BOOLEAN
      /\ enabled <=> sock # Remote!None
      /\ \A d \in ServerFds : fds[d] = "server" <=> d \in {sock, me}
    BY <1>0 DEF RemoteTypes, ServerInv
<1>3. CASE Remote!SetRemote
    <2>1. /\ remotePc[Controller] = "idle" /\ remoteState = "ready"
          /\ remotePc' = [remotePc EXCEPT ![Controller] = "remote"]
          /\ UNCHANGED <<sock, enabled>>
        BY <1>3 DEF Remote!SetRemote, Remote!Reconfigures, Remote!Configures, Remote!Free,
                    Remote!Goto, Controller, Remote!configVars
    <2>2. PICK d \in ServerFds :
             /\ fds[d] = "free" /\ fds' = [fds EXCEPT ![d] = "server"]
             /\ hand' = [hand EXCEPT ![Controller] = d]
        BY <1>3 DEF Remote!SetRemote, Controller
    <2>3. me = Remote!None
        BY <1>0, <2>1 DEF ServerInv
    <2>4. d \in Nat /\ d # sock
        BY <1>f, <2>2, RemoteConstants
    <2>5. /\ fds' \in [ServerFds -> {"free", "server", "other"}]
          /\ \A c \in ServerFds : fds'[c] = "server" <=> c \in {sock', d}
        BY <1>f, <1>n, <2>1, <2>2, <2>3
    <2> QED
        BY <1>2, <1>f, <1>p, <2>1, <2>2, <2>4, <2>5
<1>4. CASE Remote!RemoteEnds
    <2>1. /\ remotePc[Controller] = "remote"
          /\ remotePc' = [remotePc EXCEPT ![Controller] = "idle"]
          /\ hand' = [hand EXCEPT ![Controller] = Remote!None]
        BY <1>4 DEF Remote!RemoteEnds, Remote!Goto, Controller
    <2>2. remoteState = "ready" /\ me \in ServerFds \ {sock}
        BY <1>0, <2>1 DEF ServerInv
    <2>3. CASE fds' = closed /\ sock' = me /\ enabled' = TRUE
        <3>1. /\ fds' \in [ServerFds -> {"free", "server", "other"}]
              /\ \A d \in ServerFds : fds'[d] = "server" <=> d \in {sock', Remote!None}
            BY <1>f, <1>n, <2>2, <2>3
        <3>2. enabled' \in BOOLEAN /\ (enabled' <=> sock' # Remote!None)
            BY <1>n, <2>2, <2>3, Zenon
        <3> QED
            BY <1>2, <1>p, <2>1, <2>2, <2>3, <3>1, <3>2
    <2>4. CASE fds' = [fds EXCEPT ![me] = "free"] /\ UNCHANGED <<sock, enabled>>
        <3>1. /\ fds' \in [ServerFds -> {"free", "server", "other"}]
              /\ \A d \in ServerFds : fds'[d] = "server" <=> d \in {sock', Remote!None}
            BY <1>f, <1>n, <2>2, <2>4
        <3> QED
            BY <1>2, <1>f, <1>p, <2>1, <2>2, <2>4, <3>1
    <2> QED
        BY <1>4, <2>3, <2>4 DEF Remote!RemoteEnds, Remote!Installed, Controller
<1>5. CASE Remote!DisableRemote
    <2>1. /\ remotePc[Controller] = "idle" /\ remoteState = "ready"
          /\ fds' = closed /\ enabled' = FALSE
          /\ sock' = (IF enabled THEN Remote!None ELSE sock)
          /\ UNCHANGED <<remotePc, hand>>
        BY <1>5 DEF Remote!DisableRemote, Remote!Reconfigures, Remote!Configures, Remote!Free,
                    Remote!CloseServer, Controller
    <2>2. me = Remote!None /\ sock' = Remote!None
        BY <1>0, <1>f, <2>1 DEF ServerInv
    <2>3. /\ fds' \in [ServerFds -> {"free", "server", "other"}]
          /\ \A d \in ServerFds : fds'[d] = "server" <=> d \in {sock', Remote!None}
        BY <1>f, <1>n, <2>1, <2>2
    <2>4. /\ remotePc' = [remotePc EXCEPT ![Controller] = "idle"]
          /\ hand' = [hand EXCEPT ![Controller] = Remote!None]
        BY <1>c, <2>1, <2>2
    <2>5. enabled' \in BOOLEAN /\ (enabled' <=> sock' # Remote!None)
        BY <2>1, <2>2, Zenon
    <2> QED
        BY <1>2, <1>p, <2>1, <2>2, <2>3, <2>4, <2>5
<1> QED
    BY <1>3, <1>4, <1>5

LEMMA OtherKeeps == ASSUME RemoteInv, Remote!Other PROVE RemoteInv'
<1>0. RemoteTypes /\ CountInv /\ ServerInv
    BY DEF RemoteInv
<1>1. UNCHANGED <<remoteState, rate, filter, sock, enabled, regexes, even, counter, total,
                  dropped, remotePc, hand, reached>>
    BY DEF Remote!Other, Remote!configVars, Remote!countVars
<1>2. PICK d \in ServerFds :
         \/ /\ fds[d] = "free" /\ \A e \in ServerFds : fds[e] = "free" => d <= e
            /\ fds' = [fds EXCEPT ![d] = "other"]
         \/ fds[d] = "other" /\ fds' = [fds EXCEPT ![d] = "free"]
    BY DEF Remote!Other
<1>3. /\ fds' \in [ServerFds -> {"free", "server", "other"}]
      /\ \A c \in ServerFds : fds'[c] = "server" <=> fds[c] = "server"
    BY <1>0, <1>2 DEF RemoteTypes
<1>4. RemoteTypes'
    BY <1>0, <1>1, <1>3 DEF RemoteTypes
<1>5. CountInv'
    BY <1>0, <1>1, NumbersStand
<1>6. ServerInv'
    BY <1>0, <1>1, <1>3 DEF ServerInv, Unconfigured
<1> QED
    BY <1>4, <1>5, <1>6 DEF RemoteInv

LEMMA StepRemote == RemoteInv /\ [Remote!Next]_(Remote!vars) => RemoteInv'
<1> SUFFICES ASSUME RemoteInv, [Remote!Next]_(Remote!vars) PROVE RemoteInv'
    OBVIOUS
<1>1. CASE UNCHANGED Remote!vars
    BY <1>1 DEF Remote!vars, Remote!configVars, Remote!countVars, RemoteInv, RemoteTypes, CountInv, ServerInv, Unconfigured,
                Judging, Kept
<1>2. CASE Remote!Next
    BY <1>2, LoggersKeep, StartsKeep, ResetsKeep, SettingsKeep, ServersKeep, OtherKeeps
    DEF Remote!Next
<1> QED
    BY <1>1, <1>2

LEMMA ServerIsSound ==
    ASSUME RemoteInv
    PROVE  Remote!LogIsCounted /\ Remote!ConfigurationIsOwned /\ Remote!SentToServer
<1>0. RemoteTypes /\ CountInv /\ ServerInv
    BY DEF RemoteInv
<1>1. Remote!LogIsCounted
    <2>1. Judging = {t \in Threads : remotePc[t] \in {"judge", "drop", "keep"}}
        BY DEF Judging, Answering
    <2>2. ASSUME even # Remote!None, Remote!Quiet PROVE total <= counter \div even
        <3>1. Kept = {}
            BY <2>2 DEF Kept, Remote!Quiet
        <3>2. Cardinality({}) = 0 /\ even = rate
            BY <1>0, <2>2, FS_EmptySet DEF RemoteTypes
        <3>3. total + Cardinality(Kept) <= counter \div even
            BY <1>0, <2>2, <3>2 DEF CountInv
        <3> QED
            BY <1>0, <3>1, <3>2, <3>3 DEF RemoteTypes
    <2>3. counter = total + dropped
                    + Remote!Cardinality({t \in Threads : remotePc[t] \in {"judge", "drop", "keep"}})
        BY <1>0, <2>1, RemoteCounts DEF CountInv
    <2> QED
        BY <2>2, <2>3 DEF Remote!LogIsCounted
<1>2. Remote!ConfigurationIsOwned
    <2>1. \A d : d \in {c \in ServerFds : fds[c] = "server"}
                 <=> d \in {sock, hand[Controller]} \ {Remote!None}
        BY <1>0, RemoteConstants DEF ServerInv, RemoteTypes
    <2>2. {c \in ServerFds : fds[c] = "server"} = {sock, hand[Controller]} \ {Remote!None}
        BY <2>1
    <2> QED
        BY <1>0, <2>2 DEF Remote!ConfigurationIsOwned, ServerInv, Controller
<1> QED
    BY <1>0, <1>1, <1>2 DEF Remote!SentToServer, ServerInv
-----------------------------------------------------------------------------
LEMMA FreshInvariant == Fresh!Spec => []FreshInv
BY InitFresh, StepFresh, PTL DEF Fresh!Spec, Fresh!vars, freshVars

LEMMA FlockVars == UNCHANGED Flock!flockVars <=> UNCHANGED flockVars
BY DEF Flock!flockVars, Flock!lockVars, Flock!timedVars, flockVars

LEMMA FlockInvariant == Flock!Spec => []FlockInv
<1>1. FlockInv /\ [Flock!Next]_(Flock!flockVars) => FlockInv'
    BY StepFlock, FlockVars
<1> QED
    BY <1>1, InitFlock, PTL DEF Flock!Spec

LEMMA WaitInvariant == Wait!Spec => []WaitInv
BY InitWait, StepWait, PTL DEF Wait!Spec, Wait!waitVars, waitVars

LEMMA LogInvariant == ASSUME OneController PROVE Log!Spec => []LogInv
BY InitLog, StepLog, PTL DEF Log!Spec

LEMMA RemoteInvariant == Remote!Spec => []RemoteInv
BY InitRemote, StepRemote, PTL DEF Remote!Spec

LEMMA HeapInvariant == ASSUME MemoryFits PROVE HeapSpec => [](HeapInv /\ ReadsAreReal)
<1>1. HeapInit => HeapInv /\ ReadsAreReal
    BY InitHeap DEF HeapInit, ReadsAreReal, Heap!Init
<1> QED
    BY <1>1, StepHeap, PTL DEF HeapSpec

LEMMA AtomicInvariant == Atomic!Spec => []AtomicInv
BY InitAtomic, StepAtomic, PTL DEF Atomic!Spec, Atomic!atomicVars, atomicVars

LEMMA ClientInvariant == Client!Spec => []ClientInv
BY InitClient, StepClient, PTL DEF Client!Spec

LEMMA TableInvariant == ASSUME OneThreadEach PROVE Table!Spec => []TableInv
BY InitTable, StepTable, PTL DEF Table!Spec

(* For any entries, validities and width of an age: osal_cache_read tells FRESH     *)
(* only of what was written less than its validity ago, or too long ago for its    *)
(* age to fit the word; STALE only of what is older or was invalidated; and         *)
(* osal_cache_get_stats counts what it tells.                                   *)
THEOREM ReadersAreToldRight == Fresh!Spec => []AnswersInTime
<1>1. FreshInv => AnswersInTime
    BY FreshAnswers
<1> QED
    BY <1>1, FreshInvariant, PTL

(* For any processes: what an object of osal_flock.c says of its lock is what    *)
(* the kernel has, and an exclusive one is alone.  For any threads and units:     *)
(* who is back from osal_cond_timedwait has the mutex, and its nanoseconds are   *)
(* fewer than a second has.                                                  *)
THEOREM LocksTellTheTruth == Flock!Spec /\ Wait!Spec => []LocksAreTrue
<1>1. FlockInv /\ WaitInv => LocksAreTrue
    BY WaitsAreTrue DEF FlockInv, LocksAreTrue
<1> QED
    BY <1>1, FlockInvariant, WaitInvariant, PTL

(* For any timeouts and units of time: a timed lock of a file is not given up a   *)
(* whole millisecond early nor while the file is free, and the three other waits  *)
(* end with a timeout only when all of it has passed, while nobody sets the time  *)
(* of day.                                                                   *)
THEOREM TimeoutsAreTrue == Flock!Spec /\ Wait!Spec => TimeoutsAreLate
<1>1. FlockInv /\ [Flock!Next]_(Flock!flockVars) =>
        [ \A p \in Lockers : Flock!GivesUp(p) =>
            /\ clock - start[p] > (timeout[p] - 1) * NsPerMs
            /\ Flock!Blockers(p, wish[p]) # {} ]_(Flock!flockVars)
    BY LockGivesUpLate, FlockVars
<1>2. WaitInv /\ [Wait!Next]_(Wait!waitVars) =>
        [ \A t \in Threads :
            ts[t] # NoOne /\ ts'[t] = NoOne /\ said'[t] = "timeout" => time >= due[t]
        ]_(Wait!waitVars)
    BY WaitGivesUpLate DEF Wait!waitVars, waitVars
<1> QED
    BY <1>1, <1>2, FlockInvariant, WaitInvariant, PTL
    DEF Flock!Spec, Wait!Spec, TimeoutsAreLate, Flock!TimeoutsAreLate,
        Wait!TimeoutsAreExact

(* For any devices, contexts and descriptors, and any processes of one thread:    *)
(* no descriptor of a device is shared or forgotten, an open by name ends on the   *)
(* device named while that one keeps its node, and every handle of shared memory  *)
(* has a descriptor of its own to the memory it was made for (pdi.c, osal_shm.c). *)
THEOREM DescriptorsAreOwned ==
    ASSUME OneThreadEach PROVE Client!Spec /\ Table!Spec => []DescriptorsExact
<1>1. ClientInv /\ TableInv => DescriptorsExact
    BY ClientCounts, TableCounts DEF DescriptorsExact
<1> QED
    BY <1>1, ClientInvariant, TableInvariant, PTL

(* For any threads, blocks, sizes, readings of /proc and amounts, as long as all   *)
(* the blocks together fit the figures: the bytes in use are those of the blocks   *)
(* handed out, each of its owner alone, the peak is the most there ever were and   *)
(* covers them also when /proc is read (osal_heap.c), and no addition to an        *)
(* atomic word is lost (osal_atomic.h).                                        *)
THEOREM FiguresAreRight ==
    ASSUME MemoryFits PROVE HeapSpec /\ Atomic!Spec => []FiguresExact
<1>1. HeapInv /\ AtomicInv => FiguresExact
    BY HeapIsExact DEF AtomicInv, FiguresExact
<1> QED
    BY <1>1, HeapInvariant, AtomicInvariant, PTL

(* For any threads that log, sizes, numbers of backups, levels and rates, and one   *)
(* thread that configures a started log, and the server while nobody logs: no     *)
(* FILE, socket or expression is lost or closed twice, backups are in order, the    *)
(* counters count every message, and what is sent reaches the server (osal_log.c). *)
THEOREM LogsAreKept ==
    ASSUME OneController PROVE Log!Spec /\ Remote!Spec => []LogIsSound
<1>1. LogInv /\ RemoteInv => LogIsSound
    BY ServerIsSound DEF LogInv, LogIsSound
<1> QED
    BY <1>1, LogInvariant, RemoteInvariant, PTL
=============================================================================
