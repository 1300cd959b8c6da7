------------------------------ MODULE MCUserOsal ------------------------------
(***************************************************************************)
(* Small instances of what user programs have: the shared memory cache, the    *)
(* times of its entries and the table of shared memory, the log file and the    *)
(* log server, the lock of a file, the waits with a timeout, the heap, the      *)
(* atomic word, times and checksums, and the clients of the PDM's devices.     *)
(* All but the times of sleeps and the checksums are those of UserOsal: two of     *)
(* everything, timed locks of a millisecond or two, waits that end at once or     *)
(* after a millisecond, of which a second has two, and two threads that log        *)
(* beside one that starts, stops and configures the log.                       *)
(* Each has its own state, so a behaviour is one of one of them: the part.     *)
(***************************************************************************)
EXTENDS UserOsal

VARIABLES
    part,
    call, asked, slept, outcome, readings,
    message, crc, burst, place

cacheVars == vars
timeVars == <<call, asked, slept, outcome, readings>>
crcVars == <<message, crc, burst, place>>

shmVars == <<cacheVars, freshVars, tableVars>>
logsVars == <<logVars, remoteVars, pdiVars>>
lockVars == <<flockVars, waitVars, atomicVars>>
dataVars == <<heapVars, timeVars, crcVars>>
allVars == <<part, shmVars, logsVars, lockVars, dataVars>>

(* The constants of the cache are two processes that use it as it is meant to    *)
(* be used.  Here they may die at any moment: with two values a write could mix, *)
(* and with a second object, which the name can stand for afterwards.           *)
Dying == INSTANCE ShmCache WITH
    Users <- {"p1", "p2"}, Objects <- {"o1"}, Values <- {1, 2},
    Freedoms <- {"crash"}, Null <- "none"
Again == INSTANCE ShmCache WITH
    Users <- {"p1", "p2"}, Objects <- {"o1", "o2"}, Values <- {1},
    Freedoms <- {"crash"}, Null <- "none"

(* Two processes with a thread and one entry of the table each, and a name; an    *)
(* MCU and an LED that come, go and change their numbers, and a context for each. *)
MCProcessOf == [t1 |-> "p1", t2 |-> "p2"]
MCTypeOf == [m1 |-> "MCU", l1 |-> "LED"]
MCKindOf == [cm |-> "MCU", cl |-> "LED"]

(* Two threads and two blocks; /proc cannot be read, or tells something, and then *)
(* all blocks are of one size.  And two calls of each thread, on a word of two    *)
(* bits.                                                                     *)
MCReadings == {[rss |-> 0, peak |-> 0], [rss |-> 2, peak |-> 3]}
OfOneSize == \A b \in Blocks : blockSize[b] <= 1

(* Units two apart, a word of four bits; every message of one byte, and some of  *)
(* two and three.                                                            *)
Sides == INSTANCE OsalSides WITH
    K <- 2, Word <- 16, Short <- 3, MaxExtra <- 2, MaxTime <- 100,
    Bytes <- {0, 1, 128}, Lengths <- {2, 3}, Starts <- {0, 65535, 4660},
    Bursts <- {1, 3, 128, 256, 257, 32769, 40961, 65535},
    Faulty <- {<<0, 0>>, <<1, 2, 3>>, <<255, 165, 90>>}, start <- crc, at <- place

ASSUME UserOsalAssumption ==
    /\ Dying!CacheAssumption /\ Again!CacheAssumption
    /\ OneThreadEach
    /\ OneController /\ MemoryFits /\ Sides!TimeAssumption

UserInit ==
    /\ part \in {"calm", "dying", "again", "fresh", "table", "log", "remote",
                 "client", "flock", "wait", "atomic", "heap", "time", "crc"}
    /\ Init /\ Fresh!Init /\ Table!Init
    /\ Log!Init /\ Remote!Init /\ Client!Init
    /\ Flock!Init
    /\ Wait!Init /\ (part # "wait" => units = 0)
    /\ Atomic!Init /\ (part # "atomic" => atomic = 0)
    /\ HeapInit /\ (part # "heap" => ~readable) /\ Sides!Init

ShmNext ==
    \/ part = "calm" /\ Next /\ UNCHANGED <<freshVars, tableVars>>
    \/ part = "dying" /\ Dying!Next /\ UNCHANGED <<freshVars, tableVars>>
    \/ part = "again" /\ Again!Next /\ UNCHANGED <<freshVars, tableVars>>
    \/ part = "fresh" /\ Fresh!Next /\ UNCHANGED <<cacheVars, tableVars>>
    \/ part = "table" /\ Table!Next /\ UNCHANGED <<cacheVars, freshVars>>

LogsNext ==
    \/ part = "log" /\ Log!Next /\ UNCHANGED <<remoteVars, pdiVars>>
    \/ part = "remote" /\ Remote!Next /\ UNCHANGED <<logVars, pdiVars>>
    \/ part = "client" /\ Client!Next /\ UNCHANGED <<logVars, remoteVars>>

LockNext ==
    \/ part = "flock" /\ Flock!Next /\ UNCHANGED <<waitVars, atomicVars>>
    \/ part = "wait" /\ Wait!Next /\ UNCHANGED <<flockVars, atomicVars>>
    \/ part = "atomic" /\ Atomic!Next /\ UNCHANGED <<flockVars, waitVars>>

DataNext ==
    \/ /\ part = "heap" /\ HeapNext /\ (readable => OfOneSize')
       /\ UNCHANGED <<timeVars, crcVars>>
    \/ part = "time" /\ Sides!TimeNext /\ UNCHANGED <<heapVars, crcVars>>
    \/ part = "crc" /\ Sides!CrcNext /\ UNCHANGED <<heapVars, timeVars>>

UserNext ==
    /\ UNCHANGED part
    /\ \/ ShmNext /\ UNCHANGED <<logsVars, lockVars, dataVars>>
       \/ LogsNext /\ UNCHANGED <<shmVars, lockVars, dataVars>>
       \/ LockNext /\ UNCHANGED <<shmVars, logsVars, dataVars>>
       \/ DataNext /\ UNCHANGED <<shmVars, logsVars, lockVars>>

(* Of the fair actions none is enabled in the initial state of its part, so     *)
(* they say nothing of the other parts.                                      *)
UserSpec == UserInit /\ [][UserNext]_allVars /\ Fairness /\ Flock!Fairness
-----------------------------------------------------------------------------
(* While nobody dies, the mutex of a cache does not stay locked: no return,    *)
(* early or not, forgets it; and a timed lock of a file ends, whoever has it   *)
(* locked (osal_flock_timed_lock).                                           *)
CallsEnd == (part = "calm" => MutexIsReleased) /\ Flock!TimedLockEnds

(* A sleep is as long as it was asked to be, and the clocks and the checksums     *)
(* of the kernel and of user programs agree; a checksum shows every burst.       *)
SidesAgree ==
    /\ Sides!SleepsEnough /\ Sides!ClocksAgree
    /\ Sides!CrcsAgree /\ Sides!PiecesMakeWhole /\ Sides!FaultsShow
=============================================================================
