------------------------------ MODULE KernelOsal ------------------------------
(***************************************************************************)
(* The objects of osal.ko that threads share: the read-write lock, the        *)
(* semaphore, the condition, the thread, the mutex, the atomic word and the    *)
(* heap.  Each has its own state, so a behaviour is one of one of them: the     *)
(* part.  What the condition and the thread promise is proved in their own      *)
(* modules, what the others promise here.                                    *)
(***************************************************************************)
EXTENDS OsalRwlock, OsalCond, OsalThread

CONSTANTS
    Start, MaxCount,                        (* the semaphore                  *)
    Timeouts, Tick, ClockWord, Slack,       (* the mutex                      *)
    Amounts, AtomicWord, MaxCalls,          (* the atomic word                *)
    Blocks, Sizes, Thresholds, Percent,     (* the heap                       *)
    HeapWord, NoBlock

VARIABLES
    part,
    count, semValue, semPc,
    type, holder, jiffies, mutexPc, limit, left,
    atomic, atomicPc, expected, amount, start, added, calls,
    inUse, size, magic, current, peak, threshold, alert, has, heapPc, block, old,
    highest, reading, purpose

semVars == <<count, semValue, semPc>>
mutexVars == <<type, holder, jiffies, mutexPc, limit, left>>
atomicVars == <<atomic, atomicPc, expected, amount, start, added, calls>>
heapVars == <<inUse, size, magic, current, peak, threshold, alert, has, heapPc, block,
              old, highest, reading, purpose>>
waitVars == <<vars, semVars, condVars, threadVars>>
wordVars == <<mutexVars, atomicVars, heapVars>>
allVars == <<part, waitVars, wordVars>>

Sem == INSTANCE OsalSem WITH value <- semValue, pc <- semPc

(* No thread locks a mutex that it has: Linux has no recursive one.            *)
Mutex == INSTANCE OsalMutex WITH Word <- ClockWord, Relocks <- FALSE

Atomic == INSTANCE OsalAtomic WITH Kernel <- TRUE, Word <- AtomicWord

(* The kernel has no /proc/self/status to read.                               *)
Heap == INSTANCE OsalHeap WITH Users <- Threads, Word <- HeapWord, Readings <- {}

(* All the memory there is, times 100, fits the word of the figures.           *)
MemoryFits ==
    \E n \in Sizes :
        /\ \A m \in Sizes : m <= n
        /\ Percent * (Cardinality(Blocks) * n) < HeapWord

ASSUME KernelOsalAssumption ==
    /\ IsFiniteSet(Procs)
    /\ Sem!SemAssumption /\ Mutex!MutexAssumption
    /\ Atomic!AtomicAssumption /\ Heap!HeapAssumption /\ MemoryFits

OsalInit ==
    /\ part \in {"rwlock", "sem", "cond", "thread", "mutex", "atomic", "heap"}
    /\ Init /\ Sem!Init /\ ThreadInit /\ Heap!Init
    /\ CondInit /\ (part # "cond" => generation = 0)
    /\ Mutex!Init /\ (part # "mutex" => type = "normal" /\ jiffies = 0)
    /\ Atomic!Init /\ (part # "atomic" => atomic = 0)

WaitNext ==
    \/ part = "rwlock" /\ Next /\ UNCHANGED <<semVars, condVars, threadVars>>
    \/ part = "sem" /\ Sem!Next /\ UNCHANGED <<vars, condVars, threadVars>>
    \/ part = "cond" /\ CondNext /\ UNCHANGED <<vars, semVars, threadVars>>
    \/ part = "thread" /\ ThreadNext /\ UNCHANGED <<vars, semVars, condVars>>

WordNext ==
    \/ part = "mutex" /\ Mutex!Next /\ UNCHANGED <<atomicVars, heapVars>>
    \/ part = "atomic" /\ Atomic!Next /\ UNCHANGED <<mutexVars, heapVars>>
    \/ part = "heap" /\ Heap!Next /\ UNCHANGED <<mutexVars, atomicVars>>

OsalNext ==
    /\ UNCHANGED part
    /\ \/ WaitNext /\ UNCHANGED wordVars
       \/ WordNext /\ UNCHANGED waitVars

(* That of OsalMutex, in its part only: its clock can always go on.           *)
MutexFairness ==
    /\ WF_mutexVars(part = "mutex" /\ Mutex!Clock)
    /\ \A t \in Threads : WF_mutexVars(part = "mutex" /\ Mutex!Step(t))

OsalSpec ==
    /\ OsalInit /\ [][OsalNext]_allVars
    /\ CondFairness /\ ThreadFairness /\ MutexFairness
-----------------------------------------------------------------------------
(* osal_sem_get_value never reports fewer units than there are, but for the   *)
(* posts that are being counted (osal_sem_wait, osal_sem_post); an atomic word *)
(* has all that was added to it, whichever exchange failed and was tried again *)
(* (osal_atomic_compare_exchange); the heap counts the bytes of the blocks     *)
(* that are handed out, and the most there ever were (osal_heap_add_usage);    *)
(* and a pointer to a block is good and its owner's alone (osal_realloc,       *)
(* osal_free).                                                               *)
NothingIsLost ==
    /\ Sem!NeverUnderreports /\ Atomic!NothingIsLost
    /\ Heap!FiguresExact /\ Heap!BlocksAreOwned

(* What a call reports is so: a timed lock of a mutex gives up only when all    *)
(* its ticks have passed, also across the wrap of the clock                    *)
(* (osal_mutex_timed_lock), and the alert of the heap changes only to what the  *)
(* figures say (osal_heap_check_threshold).                                   *)
ReportsAreTrue == Mutex!TimeoutsAreLate /\ Heap!AlertIsTrue

(* A wait that an item was put after returns, whoever else is awake; a join     *)
(* returns once the routine can, and a cancel once the routine follows the      *)
(* request to stop; a timed lock returns even if the mutex is never unlocked.   *)
CallsReturn ==
    /\ WaitReturns
    /\ JoinEnds /\ CancelEnds
    /\ Mutex!TimedLockEnds
-----------------------------------------------------------------------------
(* Arithmetic of a word that wraps.                                          *)
LEMMA RemainderIs ==
    ASSUME NEW w \in Nat \ {0}, NEW a \in Int, NEW q \in Int, NEW r \in 0 .. w - 1,
           a = q * w + r
    PROVE  a % w = r
<1>1. PICK k \in Int : a = k * w + (a % w)
    <2>1. a = (a \div w) * w + (a % w) /\ a \div w \in Int
        OBVIOUS
    <2> QED
        BY <2>1
<1>2. a % w \in 0 .. w - 1
    OBVIOUS
<1>3. (q - k) * w = (a % w) - r
    BY <1>1, <1>2
<1>4. q - k <= 0
    <2> SUFFICES ASSUME q - k >= 1 PROVE FALSE
        OBVIOUS
    <2>1. (q - k) * w >= w
        OBVIOUS
    <2> QED
        BY <2>1, <1>2, <1>3
<1>5. q - k >= 0
    <2> SUFFICES ASSUME k - q >= 1 PROVE FALSE
        OBVIOUS
    <2>1. (k - q) * w >= w
        OBVIOUS
    <2>2. (k - q) * w = r - (a % w)
        BY <1>3, <1>2
    <2> QED
        BY <2>1, <2>2, <1>2
<1>6. q = k
    BY <1>4, <1>5
<1> QED
    BY <1>1, <1>2, <1>6

(* A remainder may be taken before an addition.                              *)
LEMMA RemainderOfSum ==
    ASSUME NEW w \in Nat \ {0}, NEW a \in Int, NEW b \in Int
    PROVE  ((a % w) + b) % w = (a + b) % w
<1>1. PICK k \in Int : a = k * w + (a % w)
    <2>1. a = (a \div w) * w + (a % w) /\ a \div w \in Int
        OBVIOUS
    <2> QED
        BY <2>1
<1> DEFINE c == (a % w) + b
<1>2. PICK n \in Int : c = n * w + (c % w)
    <2>1. c \in Int
        OBVIOUS
    <2>2. c = (c \div w) * w + (c % w) /\ c \div w \in Int
        BY <2>1
    <2> QED
        BY <2>2
<1>3. c % w \in 0 .. w - 1
    OBVIOUS
<1>4. a + b = (k + n) * w + (c % w)
    <2>1. a + b = k * w + c
        BY <1>1
    <2>2. (k + n) * w = k * w + n * w
        OBVIOUS
    <2> QED
        BY <2>1, <2>2, <1>2, <1>3
<1>5. k + n \in Int /\ a + b \in Int
    OBVIOUS
<1> HIDE DEF c
<1>6. (a + b) % w = c % w
    BY <1>3, <1>4, <1>5, RemainderIs
<1> QED
    BY <1>6 DEF c
-----------------------------------------------------------------------------
(* The semaphore.  Its property is kept by every step by itself: a thread       *)
(* between the two counters is accounted for by where it is.                  *)
SemPlaces == {"idle", "took", "posted"}

SemInv ==
    /\ count \in Nat /\ semValue \in Nat
    /\ semPc \in [Procs -> SemPlaces]
    /\ Sem!NeverUnderreports

LEMMA SemFinite ==
    ASSUME NEW place
    PROVE  /\ IsFiniteSet(Sem!At(place))
           /\ Cardinality(Sem!At(place)) \in Nat
<1>1. Sem!At(place) \in SUBSET Procs
    BY DEF Sem!At
<1> QED
    BY <1>1, KernelOsalAssumption, FS_Subset, FS_CardinalityType

(* The instance counts as everybody does.                                    *)
LEMMA SemCounts == \A S : Sem!Cardinality(S) = Cardinality(S)
BY DEF Sem!Cardinality, Cardinality

LEMMA InitSem == Sem!Init => SemInv
<1> SUFFICES ASSUME Sem!Init PROVE SemInv
    OBVIOUS
<1>1. Sem!At("took") = {}
    BY DEF Sem!Init, Sem!At
<1>2. Cardinality(Sem!At("took")) = 0
    BY <1>1, FS_EmptySet
<1> QED
    BY <1>2, SemFinite, SemCounts, KernelOsalAssumption
    DEF Sem!Init, SemInv, SemPlaces, Sem!NeverUnderreports, Sem!SemAssumption

(* A step of one process moves it from one place to another.                 *)
LEMMA SemMoves ==
    ASSUME semPc \in [Procs -> SemPlaces], NEW p \in Procs, NEW to \in SemPlaces,
           semPc[p] # to, semPc' = [semPc EXCEPT ![p] = to], NEW place
    PROVE  Cardinality(Sem!At(place))' =
             IF place = to THEN Cardinality(Sem!At(place)) + 1
             ELSE IF place = semPc[p] THEN Cardinality(Sem!At(place)) - 1
             ELSE Cardinality(Sem!At(place))
<1>1. CASE place = to
    <2>1. Sem!At(place)' = Sem!At(place) \cup {p} /\ p \notin Sem!At(place)
        BY <1>1 DEF Sem!At
    <2> QED
        BY <1>1, <2>1, SemFinite, FS_AddElement
<1>2. CASE place # to /\ place = semPc[p]
    <2>1. Sem!At(place)' = Sem!At(place) \ {p} /\ p \in Sem!At(place)
        BY <1>2 DEF Sem!At
    <2> QED
        BY <1>2, <2>1, SemFinite, FS_RemoveElement
<1>3. CASE place # to /\ place # semPc[p]
    <2>1. Sem!At(place)' = Sem!At(place)
        BY <1>3 DEF Sem!At
    <2> QED
        BY <1>3, <2>1
<1> QED
    BY <1>1, <1>2, <1>3

LEMMA StepSem == SemInv /\ [Sem!Next]_semVars => SemInv'
<1> SUFFICES ASSUME SemInv, [Sem!Next]_semVars PROVE SemInv'
    OBVIOUS
<1> DEFINE took == Cardinality(Sem!At("took"))
           posted == Cardinality(Sem!At("posted"))
<1>1. took \in Nat /\ posted \in Nat /\ count + took <= semValue + posted
    BY SemFinite, SemCounts DEF SemInv, Sem!NeverUnderreports
<1>2. count \in Nat /\ semValue \in Nat /\ semPc \in [Procs -> SemPlaces]
    BY DEF SemInv
<1>3. SUFFICES /\ count' \in Nat /\ semValue' \in Nat
               /\ semPc' \in [Procs -> SemPlaces]
               /\ count' + took' <= semValue' + posted'
    BY SemCounts DEF SemInv, Sem!NeverUnderreports
<1>4. CASE UNCHANGED semVars
    <2>1. took' = took /\ posted' = posted
        BY <1>4 DEF semVars, Sem!At
    <2> QED
        BY <1>1, <1>2, <1>4, <2>1 DEF semVars
<1>5. ASSUME NEW p \in Procs, Sem!Down(p) PROVE <1>3!1
    <2>1. took' = took + 1 /\ posted' = posted
        BY <1>2, <1>5, SemMoves DEF Sem!Down, SemPlaces
    <2> HIDE DEF took, posted
    <2> QED
        BY <1>1, <1>2, <1>5, <2>1 DEF Sem!Down, SemPlaces
<1>6. ASSUME NEW p \in Procs, Sem!CountDown(p) PROVE <1>3!1
    <2>1. took' = took - 1 /\ posted' = posted
        BY <1>2, <1>6, SemMoves DEF Sem!CountDown, SemPlaces
    <2> HIDE DEF took, posted
    <2> QED
        BY <1>1, <1>2, <1>6, <2>1 DEF Sem!CountDown, SemPlaces
<1>7. ASSUME NEW p \in Procs, Sem!Up(p) PROVE <1>3!1
    <2>1. took' = took /\ posted' = posted + 1
        BY <1>2, <1>7, SemMoves DEF Sem!Up, SemPlaces
    <2> HIDE DEF took, posted
    <2> QED
        BY <1>1, <1>2, <1>7, <2>1 DEF Sem!Up, SemPlaces
<1>8. ASSUME NEW p \in Procs, Sem!CountUp(p) PROVE <1>3!1
    <2>1. took' = took /\ posted' = posted - 1
        BY <1>2, <1>8, SemMoves DEF Sem!CountUp, SemPlaces
    <2> HIDE DEF took, posted
    <2> QED
        BY <1>1, <1>2, <1>8, <2>1 DEF Sem!CountUp, SemPlaces
<1> QED
    BY <1>4, <1>5, <1>6, <1>7, <1>8 DEF Sem!Next
-----------------------------------------------------------------------------
(* The atomic word: an exchange that succeeds has found what it expected, so     *)
(* that every change is an addition to what is there.                         *)
AtomicInv ==
    /\ atomic \in 0 .. AtomicWord - 1 /\ start \in 0 .. AtomicWord - 1
    /\ added \in 0 .. AtomicWord - 1
    /\ amount \in [Threads -> 0 .. AtomicWord - 1]
    /\ Atomic!NothingIsLost

LEMMA AtomicConstants == AtomicWord \in Nat \ {0} /\ Amounts \subseteq 0 .. AtomicWord - 1
BY KernelOsalAssumption DEF Atomic!AtomicAssumption

LEMMA InitAtomic == Atomic!Init => AtomicInv
<1> SUFFICES ASSUME Atomic!Init PROVE AtomicInv
    OBVIOUS
<1>1. atomic \in 0 .. AtomicWord - 1 /\ start = atomic /\ added = 0
    BY DEF Atomic!Init
<1>2. amount \in [Threads -> 0 .. AtomicWord - 1]
    BY AtomicConstants DEF Atomic!Init, Atomic!Each
<1>3. (start + added) % AtomicWord = atomic
    BY <1>1, AtomicConstants, RemainderIs
<1> QED
    BY <1>1, <1>2, <1>3, AtomicConstants DEF AtomicInv, Atomic!NothingIsLost

(* To add n to the word and to the history is to add the same to both sides.  *)
LEMMA AdditionsAgree ==
    ASSUME AtomicInv, NEW n \in Int
    PROVE  (atomic + n) % AtomicWord
             = (start + ((added + n) % AtomicWord)) % AtomicWord
<1> DEFINE w == AtomicWord
<1>0. w \in Nat \ {0} /\ atomic \in Int /\ start \in Int /\ added \in Int
    BY AtomicConstants DEF AtomicInv
<1>1. atomic = (start + added) % w
    BY DEF AtomicInv, Atomic!NothingIsLost
<1> HIDE DEF w
<1>a. start + added \in Int /\ added + n \in Int
    BY <1>0
<1>2. (((start + added) % w) + n) % w = ((start + added) + n) % w
    BY <1>0, <1>a, RemainderOfSum, Zenon
<1>3. (((added + n) % w) + start) % w = ((added + n) + start) % w
    BY <1>0, <1>a, RemainderOfSum, Zenon
<1>4. (start + added) + n = (added + n) + start
    BY <1>0
<1>5. ((added + n) % w) + start = start + ((added + n) % w)
    <2>1. (added + n) % w \in Int
        BY <1>0
    <2> QED
        BY <1>0, <2>1
<1>6. (atomic + n) % w = (start + ((added + n) % w)) % w
    BY <1>1, <1>2, <1>3, <1>4, <1>5
<1> QED
    BY <1>6 DEF w

LEMMA AdditionKeeps ==
    ASSUME AtomicInv, NEW n \in Int, atomic' = (atomic + n) % AtomicWord,
           added' = (added + n) % AtomicWord, UNCHANGED <<start, amount>>
    PROVE  AtomicInv'
<1>1. atomic' \in 0 .. AtomicWord - 1 /\ added' \in 0 .. AtomicWord - 1
    BY AtomicConstants DEF AtomicInv
<1> QED
    BY <1>1, AdditionsAgree DEF AtomicInv, Atomic!NothingIsLost

LEMMA StepAtomic == AtomicInv /\ [Atomic!Next]_atomicVars => AtomicInv'
<1> SUFFICES ASSUME AtomicInv, [Atomic!Next]_atomicVars PROVE AtomicInv'
    OBVIOUS
<1>0. atomic \in Int /\ added \in Int /\ amount \in [Threads -> 0 .. AtomicWord - 1]
    BY AtomicConstants DEF AtomicInv
<1>1. CASE UNCHANGED atomicVars
    BY <1>1 DEF atomicVars, AtomicInv, Atomic!NothingIsLost
<1>2. ASSUME NEW t \in Threads, Atomic!FetchAdd(t) PROVE AtomicInv'
    <2>1. PICK n \in Amounts : /\ atomic' = (atomic + n) % AtomicWord
                               /\ added' = (added + n) % AtomicWord
        BY <1>2 DEF Atomic!FetchAdd, Atomic!Counts
    <2>2. n \in Int
        BY AtomicConstants
    <2> QED
        BY <1>2, <2>1, <2>2, AdditionKeeps DEF Atomic!FetchAdd
<1>3. ASSUME NEW t \in Threads, Atomic!FetchSub(t) PROVE AtomicInv'
    <2>1. PICK n \in Amounts : /\ atomic' = (atomic - n) % AtomicWord
                               /\ added' = (added + (AtomicWord - n)) % AtomicWord
        BY <1>3 DEF Atomic!FetchSub, Atomic!Counts
    <2>2. n \in Int /\ AtomicWord - n \in Int /\ AtomicWord \in Nat \ {0}
        BY AtomicConstants
    <2>3. (atomic - n) % AtomicWord = (atomic + (AtomicWord - n)) % AtomicWord
        <3> DEFINE a == atomic - n
        <3>1. a \in Int /\ a % AtomicWord \in 0 .. AtomicWord - 1
            BY <1>0, <2>2
        <3>2. a = (a \div AtomicWord) * AtomicWord + (a % AtomicWord) /\ a \div AtomicWord \in Int
            <4>1. a \in Int
                BY <1>0, <2>2
            <4> HIDE DEF a
            <4> QED
                BY <4>1, <2>2
        <3>3. atomic + (AtomicWord - n) = a + AtomicWord
            BY <1>0, <2>2
        <3> HIDE DEF a
        <3>4. PICK k \in Int : a = k * AtomicWord + (a % AtomicWord)
            BY <3>2
        <3>5. (k + 1) * AtomicWord = k * AtomicWord + AtomicWord
            BY <2>2
        <3>6. a + AtomicWord = (k + 1) * AtomicWord + (a % AtomicWord)
            BY <3>1, <3>4, <3>5, <2>2
        <3>7. (a + AtomicWord) % AtomicWord = a % AtomicWord
            <4>1. k + 1 \in Int /\ a + AtomicWord \in Int
                BY <3>1, <2>2
            <4> QED
                BY <4>1, <3>1, <3>6, <2>2, RemainderIs, Zenon
        <3> QED
            BY <3>3, <3>7 DEF a
    <2>4. UNCHANGED <<start, amount>>
        BY <1>3 DEF Atomic!FetchSub
    <2> QED
        BY <2>1, <2>2, <2>3, <2>4, AdditionKeeps
<1>4. ASSUME NEW t \in Threads, Atomic!Load(t) PROVE AtomicInv'
    <2>1. amount' \in [Threads -> 0 .. AtomicWord - 1]
        BY <1>0, <1>4, AtomicConstants DEF Atomic!Load
    <2> QED
        BY <1>4, <2>1 DEF Atomic!Load, AtomicInv, Atomic!NothingIsLost
<1>5. ASSUME NEW t \in Threads, Atomic!Exchange(t) PROVE AtomicInv'
    <2>1. CASE atomic = expected[t]
        <3>1. amount[t] \in Int
            BY <1>0
        <3> QED
            BY <1>5, <2>1, <3>1, AdditionKeeps DEF Atomic!Exchange, Atomic!Counts
    <2>2. CASE atomic # expected[t]
        BY <1>5, <2>2 DEF Atomic!Exchange, AtomicInv, Atomic!NothingIsLost
    <2> QED
        BY <2>1, <2>2
<1>6. ASSUME NEW t \in Threads, Atomic!Reread(t) PROVE AtomicInv'
    BY <1>6 DEF Atomic!Reread, AtomicInv, Atomic!NothingIsLost
<1> QED
    BY <1>1, <1>2, <1>3, <1>4, <1>5, <1>6 DEF Atomic!Next, Atomic!Compare
-----------------------------------------------------------------------------
(* The mutex: the time a call gives up at is as far from the clock as the ticks  *)
(* it still has to wait, and those are less than half of what the clock counts.  *)
MutexPlaces == {"out", "lock", "try", "look", "asleep", "in"}

MutexInv ==
    /\ holder \in Threads \cup {None} /\ jiffies \in 0 .. ClockWord - 1
    /\ mutexPc \in [Threads -> MutexPlaces]
    /\ limit \in [Threads -> 0 .. ClockWord - 1] /\ left \in [Threads -> Int]
    /\ \A t \in Threads : holder = t => mutexPc[t] = "in"
    /\ \A t \in Threads : Mutex!Timed(t) =>
          /\ limit[t] = (jiffies + left[t]) % ClockWord
          /\ 2 * left[t] < ClockWord

LEMMA MutexConstants ==
    /\ None \notin Threads
    /\ ClockWord \in Nat \ {0} /\ Tick \in Nat \ {0} /\ Timeouts \subseteq Nat
BY KernelOsalAssumption DEF Mutex!MutexAssumption

(* The rounding of milliseconds to ticks never asks for half the clock.        *)
LEMMA TicksAreFew ==
    ASSUME NEW ms \in Timeouts
    PROVE  Mutex!Ticks(ms) \in Nat /\ 2 * Mutex!Ticks(ms) < ClockWord
<1> DEFINE q == ms \div Tick
           n == (ms + Tick - 1) \div Tick
<1>1. ms \in Nat /\ Tick \in Nat \ {0} /\ ClockWord \in Nat \ {0}
    BY MutexConstants
<1>2. q \in Nat /\ ms < (q + 1) * Tick
    <2>1. ms = q * Tick + (ms % Tick) /\ ms % Tick \in 0 .. Tick - 1
        BY <1>1
    <2>2. q \in Nat
        BY <1>1
    <2>3. (q + 1) * Tick = q * Tick + Tick
        BY <1>1, <2>2
    <2> HIDE DEF q
    <2> QED
        BY <1>1, <2>1, <2>2, <2>3
<1>3. n \in Nat /\ n * Tick <= ms + Tick - 1
    <2> DEFINE m == ms + Tick - 1
    <2>1. m \in Nat
        BY <1>1
    <2> HIDE DEF m
    <2>2. m = (m \div Tick) * Tick + (m % Tick) /\ m % Tick \in 0 .. Tick - 1
        BY <1>1, <2>1
    <2>3. m \div Tick \in Nat
        BY <1>1, <2>1
    <2>4. (m \div Tick) * Tick <= m
        BY <2>1, <2>2, <2>3, <1>1
    <2> QED
        BY <2>3, <2>4 DEF m
<1>4. 2 * (q + 1 + Slack) < ClockWord /\ Slack \in Nat
    BY KernelOsalAssumption DEF Mutex!MutexAssumption
<1> HIDE DEF q, n
<1>5. n <= q + 1
    <2> SUFFICES ASSUME n >= q + 2 PROVE FALSE
        BY <1>2, <1>3
    <2>1. n * Tick >= (q + 2) * Tick
        BY <1>1, <1>2, <1>3
    <2>2. (q + 2) * Tick = (q + 1) * Tick + Tick
        BY <1>1, <1>2
    <2>3. n * Tick \in Int /\ (q + 1) * Tick \in Int
        BY <1>1, <1>2, <1>3
    <2> QED
        BY <1>1, <1>2, <1>3, <2>1, <2>2, <2>3
<1>6. n \in Nat /\ 2 * n < ClockWord
    BY <1>1, <1>2, <1>3, <1>4, <1>5
<1> QED
    BY <1>6 DEF n, Mutex!Ticks

LEMMA InitMutex == Mutex!Init => MutexInv
BY MutexConstants DEF Mutex!Init, MutexInv, MutexPlaces, Mutex!Timed

(* What is time_after_eq of a time that has not come is FALSE, as long as it is  *)
(* less than half of the clock away.                                         *)
LEMMA LateIsLate ==
    ASSUME MutexInv, NEW t \in Threads, Mutex!Timed(t),
           Mutex!AfterEq(jiffies, limit[t])
    PROVE  left[t] <= 0
<1> SUFFICES ASSUME left[t] > 0 PROVE FALSE
    BY DEF MutexInv
<1> DEFINE w == ClockWord
           d == left[t]
<1>1. w \in Nat \ {0} /\ d \in Int /\ jiffies \in 0 .. w - 1 /\ limit[t] \in 0 .. w - 1
    BY MutexConstants DEF MutexInv
<1>2. limit[t] = (jiffies + d) % w /\ 2 * d < w
    BY DEF MutexInv
<1>3. 2 * ((jiffies - limit[t]) % w) < w
    BY DEF Mutex!AfterEq
<1> HIDE DEF w, d
<1>4. 0 < d
    BY DEF d
<1>5. CASE jiffies + d < w
    <2>1. limit[t] = jiffies + d
        <3>1. jiffies + d = 0 * w + (jiffies + d) /\ jiffies + d \in 0 .. w - 1
            BY <1>1, <1>4, <1>5
        <3> QED
            BY <1>1, <1>2, <3>1, RemainderIs
    <2>2. jiffies - limit[t] = (-1) * w + (w - d) /\ w - d \in 0 .. w - 1
        BY <1>1, <1>2, <1>4, <2>1
    <2>3. (jiffies - limit[t]) % w = w - d
        <3>1. jiffies - limit[t] \in Int /\ -1 \in Int /\ 0 \in Int
            BY <1>1
        <3> QED
            BY <3>1, <1>1, <2>2, RemainderIs, Zenon
    <2> QED
        BY <1>1, <1>2, <1>3, <2>3
<1>6. CASE jiffies + d >= w
    <2>1. limit[t] = jiffies + d - w
        <3>1. jiffies + d = 1 * w + (jiffies + d - w) /\ jiffies + d - w \in 0 .. w - 1
            BY <1>1, <1>2, <1>4, <1>6
        <3> QED
            BY <1>1, <1>2, <3>1, RemainderIs
    <2>2. jiffies - limit[t] = 0 * w + (w - d) /\ w - d \in 0 .. w - 1
        BY <1>1, <1>2, <1>4, <2>1
    <2>3. (jiffies - limit[t]) % w = w - d
        <3>1. jiffies - limit[t] \in Int /\ -1 \in Int /\ 0 \in Int
            BY <1>1
        <3> QED
            BY <3>1, <1>1, <2>2, RemainderIs, Zenon
    <2> QED
        BY <1>1, <1>2, <1>3, <2>3
<1> QED
    BY <1>1, <1>5, <1>6
LEMMA StepMutex == MutexInv /\ [Mutex!Next]_mutexVars => MutexInv'
<1> SUFFICES ASSUME MutexInv, [Mutex!Next]_mutexVars PROVE MutexInv'
    OBVIOUS
<1>0. /\ holder \in Threads \cup {None} /\ jiffies \in 0 .. ClockWord - 1
      /\ mutexPc \in [Threads -> MutexPlaces]
      /\ limit \in [Threads -> 0 .. ClockWord - 1] /\ left \in [Threads -> Int]
    BY DEF MutexInv
<1>1. CASE UNCHANGED mutexVars
    BY <1>1 DEF mutexVars, MutexInv, Mutex!Timed
<1>2. ASSUME NEW t \in Threads, Mutex!Lock(t) PROVE MutexInv'
    BY <1>2 DEF Mutex!Lock, Mutex!Goto, MutexInv, MutexPlaces, Mutex!Timed
<1>3. ASSUME NEW t \in Threads, Mutex!Locked(t) PROVE MutexInv'
    BY <1>3, MutexConstants DEF Mutex!Locked, Mutex!Goto, MutexInv, MutexPlaces, Mutex!Timed
<1>4. ASSUME NEW t \in Threads, Mutex!TryLock(t) PROVE MutexInv'
    BY <1>4, MutexConstants DEF Mutex!TryLock, Mutex!Goto, MutexInv, MutexPlaces, Mutex!Timed
<1>5. ASSUME NEW t \in Threads, Mutex!TimedLock(t) PROVE MutexInv'
    <2>1. PICK ms \in Timeouts :
             /\ limit' = [limit EXCEPT ![t] = (jiffies + Mutex!Ticks(ms)) % ClockWord]
             /\ left' = [left EXCEPT ![t] = Mutex!Ticks(ms)]
        BY <1>5 DEF Mutex!TimedLock
    <2>2. PICK n \in Nat : n = Mutex!Ticks(ms) /\ 2 * n < ClockWord
        BY TicksAreFew
    <2>3. PICK l \in 0 .. ClockWord - 1 : l = (jiffies + n) % ClockWord
        BY <1>0, <2>2, MutexConstants
    <2>4. limit' = [limit EXCEPT ![t] = l] /\ left' = [left EXCEPT ![t] = n]
        BY <2>1, <2>2, <2>3
    <2>5. /\ UNCHANGED <<holder, jiffies>>
          /\ mutexPc[t] = "out" /\ mutexPc' = [mutexPc EXCEPT ![t] = "try"]
        BY <1>5 DEF Mutex!TimedLock, Mutex!Goto
    <2>6. /\ limit' \in [Threads -> 0 .. ClockWord - 1] /\ left' \in [Threads -> Int]
          /\ mutexPc' \in [Threads -> MutexPlaces]
        BY <1>0, <2>4, <2>5 DEF MutexPlaces
    <2>7. ASSUME NEW s \in Threads, Mutex!Timed(s)'
          PROVE  limit'[s] = (jiffies' + left'[s]) % ClockWord /\ 2 * left'[s] < ClockWord
        BY <1>0, <2>2, <2>3, <2>4, <2>5, <2>7 DEF MutexInv, Mutex!Timed
    <2>8. ASSUME NEW s \in Threads, holder' = s PROVE mutexPc'[s] = "in"
        BY <1>0, <2>5, <2>8 DEF MutexInv
    <2> QED
        BY <1>0, <2>5, <2>6, <2>7, <2>8 DEF MutexInv
<1>6. ASSUME NEW t \in Threads, Mutex!TimedTry(t) PROVE MutexInv'
    <2>1. CASE holder = None
        BY <1>6, <2>1, MutexConstants
        DEF Mutex!TimedTry, Mutex!Leave, Mutex!Goto, MutexInv, MutexPlaces, Mutex!Timed
    <2>2. CASE holder # None
        BY <1>6, <2>2
        DEF Mutex!TimedTry, Mutex!Goto, MutexInv, MutexPlaces, Mutex!Timed
    <2> QED
        BY <2>1, <2>2
<1>7. ASSUME NEW t \in Threads, Mutex!TimedLook(t) PROVE MutexInv'
    <2>1. CASE Mutex!AfterEq(jiffies, limit[t])
        BY <1>7, <2>1, MutexConstants
        DEF Mutex!TimedLook, Mutex!Leave, Mutex!Goto, MutexInv, MutexPlaces, Mutex!Timed
    <2>2. CASE ~ Mutex!AfterEq(jiffies, limit[t])
        BY <1>7, <2>2
        DEF Mutex!TimedLook, Mutex!Goto, MutexInv, MutexPlaces, Mutex!Timed
    <2> QED
        BY <2>1, <2>2
<1>8. ASSUME NEW t \in Threads, Mutex!Unlock(t) PROVE MutexInv'
    BY <1>8, MutexConstants DEF Mutex!Unlock, Mutex!Goto, MutexInv, MutexPlaces, Mutex!Timed
<1>9. ASSUME Mutex!Clock PROVE MutexInv'
    <2>1. /\ jiffies' = (jiffies + 1) % ClockWord
          /\ left' = [t \in Threads |-> IF Mutex!Timed(t) THEN left[t] - 1 ELSE left[t]]
          /\ mutexPc' = [t \in Threads |->
                           IF mutexPc[t] = "asleep" THEN "try" ELSE mutexPc[t]]
          /\ UNCHANGED <<holder, limit>>
        BY <1>9 DEF Mutex!Clock
    <2>2. left' \in [Threads -> Int] /\ mutexPc' \in [Threads -> MutexPlaces]
        BY <1>0, <2>1 DEF MutexPlaces
    <2>3. jiffies' \in 0 .. ClockWord - 1
        BY <1>0, <2>1, MutexConstants
    <2>4. ASSUME NEW t \in Threads, Mutex!Timed(t)'
          PROVE  limit'[t] = (jiffies' + left'[t]) % ClockWord /\ 2 * left'[t] < ClockWord
        <3>1. Mutex!Timed(t) /\ left'[t] = left[t] - 1
            BY <1>0, <2>1, <2>4 DEF Mutex!Timed, MutexPlaces
        <3>2. limit[t] = (jiffies + left[t]) % ClockWord /\ 2 * left[t] < ClockWord
            BY <3>1 DEF MutexInv
        <3>3. PICK d \in Int : d = left[t] - 1
            BY <1>0
        <3>4. jiffies + 1 \in Int
            BY <1>0
        <3>5. (((jiffies + 1) % ClockWord) + d) % ClockWord = ((jiffies + 1) + d) % ClockWord
            BY <3>3, <3>4, MutexConstants, RemainderOfSum, Zenon
        <3>6. (jiffies + 1) + d = jiffies + left[t]
            BY <1>0, <3>3
        <3>7. left'[t] = d /\ limit'[t] = limit[t]
            BY <2>1, <3>1, <3>3
        <3>8. limit'[t] = (jiffies' + left'[t]) % ClockWord
            BY <2>1, <3>2, <3>5, <3>6, <3>7, Zenon
        <3>9. 2 * left'[t] < ClockWord
            BY <1>0, <3>2, <3>3, <3>7, MutexConstants
        <3> QED
            BY <3>8, <3>9
    <2>5. ASSUME NEW t \in Threads, holder' = t PROVE mutexPc'[t] = "in"
        BY <1>0, <2>1, <2>5 DEF MutexInv
    <2> QED
        BY <1>0, <2>1, <2>2, <2>3, <2>4, <2>5 DEF MutexInv
<1> QED
    BY <1>1, <1>2, <1>3, <1>4, <1>5, <1>6, <1>7, <1>8, <1>9
    DEF Mutex!Next, Mutex!Call, Mutex!Step

(* Only who has looked at the clock and found it late leaves without the mutex. *)
LEMMA GivesUpLate ==
    ASSUME MutexInv, [Mutex!Next]_mutexVars, NEW t \in Threads,
           mutexPc[t] = "look", mutexPc'[t] = "out"
    PROVE  left[t] <= 0 /\ holder # t
<1>0. mutexPc \in [Threads -> MutexPlaces] /\ Mutex!Timed(t)
    BY DEF MutexInv, Mutex!Timed
<1>1. Mutex!TimedLook(t)
    <2>1. ~ UNCHANGED mutexVars
        BY DEF mutexVars
    <2>2. ASSUME NEW s \in Threads, Mutex!Call(s) PROVE FALSE
        BY <1>0, <2>2 DEF Mutex!Call, Mutex!Lock, Mutex!TryLock, Mutex!TimedLock,
                          Mutex!Unlock, Mutex!Goto
    <2>3. ASSUME NEW s \in Threads, Mutex!Locked(s) PROVE FALSE
        BY <1>0, <2>3 DEF Mutex!Locked, Mutex!Goto
    <2>4. ASSUME NEW s \in Threads, Mutex!TimedTry(s) PROVE FALSE
        BY <1>0, <2>4 DEF Mutex!TimedTry, Mutex!Leave, Mutex!Goto
    <2>5. ASSUME NEW s \in Threads, Mutex!TimedLook(s), s # t PROVE FALSE
        BY <1>0, <2>5 DEF Mutex!TimedLook, Mutex!Leave, Mutex!Goto
    <2>6. ~ Mutex!Clock
        BY <1>0 DEF Mutex!Clock
    <2> QED
        BY <2>1, <2>2, <2>3, <2>4, <2>5, <2>6 DEF Mutex!Next, Mutex!Step
<1>2. Mutex!AfterEq(jiffies, limit[t])
    BY <1>0, <1>1 DEF Mutex!TimedLook, Mutex!Goto
<1> QED
    BY <1>0, <1>2, LateIsLate DEF MutexInv
-----------------------------------------------------------------------------
(* The heap.  The bytes of a set of blocks are counted one by one, so that what  *)
(* is known of finite sets says what a block adds to them.                    *)
HeapPlaces == {"idle", "count", "copy", "free", "sub", "release"}

HeapTypes ==
    /\ inUse \subseteq Blocks
    /\ size \in [Blocks -> Sizes \cup {0}] /\ magic \in [Blocks -> BOOLEAN]
    /\ current \in Nat /\ peak \in Nat /\ highest \in Nat /\ threshold \in 0 .. Percent
    /\ has \in [Threads -> SUBSET Blocks]
    /\ heapPc \in [Threads -> HeapPlaces]
    /\ block \in [Threads -> Blocks \cup {NoBlock}]
    /\ old \in [Threads -> Blocks \cup {NoBlock}]

LEMMA HeapConstants ==
    /\ IsFiniteSet(Blocks) /\ Cardinality(Blocks) \in Nat /\ NoBlock \notin Blocks
    /\ Sizes \subseteq Nat /\ Percent \in Nat \ {0} /\ HeapWord \in Nat \ {0}
    /\ Thresholds \subseteq 0 .. Percent
<1>1. Heap!IsFiniteSet(Blocks) => IsFiniteSet(Blocks)
    BY DEF Heap!IsFiniteSet, IsFiniteSet
<1> QED
    BY <1>1, KernelOsalAssumption, FS_CardinalityType DEF Heap!HeapAssumption

LEMMA SizesCount == ASSUME HeapTypes PROVE \A b \in Blocks : size[b] \in Nat
<1>1. \A b \in Blocks : size[b] \in Sizes \cup {0}
    BY DEF HeapTypes
<1>2. \A n \in Sizes \cup {0} : n \in Nat
    BY HeapConstants
<1> QED
    BY <1>1, <1>2

LEMMA HeapCounts == \A S : Heap!Cardinality(S) = Cardinality(S)
BY DEF Heap!Cardinality, Cardinality

(* All the blocks together have fewer bytes than the word can count, also when   *)
(* multiplied by 100.                                                        *)
LEMMA BytesFit ==
    ASSUME HeapTypes, NEW S \in SUBSET Blocks
    PROVE  LET n == Cardinality(Heap!Bytes(S)) IN
           /\ IsFiniteSet(Heap!Bytes(S))
           /\ n \in Nat /\ n * Percent < HeapWord /\ n < HeapWord
<1>1. PICK m \in Nat : /\ \A k \in Sizes : k <= m
                       /\ Percent * (Cardinality(Blocks) * m) < HeapWord
    BY KernelOsalAssumption, HeapConstants DEF MemoryFits
<1>2. Heap!Bytes(S) \in SUBSET (Blocks \X (1 .. m))
    <2>1. \A b \in Blocks : size[b] \in Sizes \cup {0}
        BY DEF HeapTypes
    <2>2. \A n \in Sizes \cup {0} : n <= m
        BY <1>1
    <2>3. \A b \in Blocks : 1 .. size[b] \subseteq 1 .. m
        BY <2>1, <2>2, <1>1, SizesCount
    <2> QED
        BY <2>3 DEF Heap!Bytes
<1>3. IsFiniteSet(1 .. m) /\ Cardinality(1 .. m) = m
    BY <1>1, FS_Interval
<1>4. /\ IsFiniteSet(Blocks \X (1 .. m))
      /\ Cardinality(Blocks \X (1 .. m)) = Cardinality(Blocks) * m
    BY <1>3, HeapConstants, FS_Product
<1> DEFINE n == Cardinality(Heap!Bytes(S))
           c == Cardinality(Blocks) * m
<1>5. IsFiniteSet(Heap!Bytes(S)) /\ n <= c
    BY <1>2, <1>4, FS_Subset
<1>6. n \in Nat
    BY <1>5, FS_CardinalityType
<1>7. c \in Nat /\ Percent \in Nat \ {0} /\ HeapWord \in Nat /\ Percent * c < HeapWord
    BY <1>1, HeapConstants
<1> HIDE DEF n, c
<1>8. n * Percent <= Percent * c /\ n <= n * Percent
    BY <1>5, <1>6, <1>7
<1>9. n * Percent \in Nat /\ Percent * c \in Nat
    BY <1>6, <1>7
<1>10. n * Percent < HeapWord /\ n < HeapWord
    BY <1>6, <1>7, <1>8, <1>9
<1> QED
    BY <1>5, <1>6, <1>10 DEF n

(* A block adds its size.                                                    *)
LEMMA BlockAdds ==
    ASSUME HeapTypes, NEW S \in SUBSET Blocks, NEW b \in Blocks \ S
    PROVE  Cardinality(Heap!Bytes(S \cup {b})) = Cardinality(Heap!Bytes(S)) + size[b]
<1> DEFINE own == {b} \X (1 .. size[b])
<1>1. Heap!Bytes(S \cup {b}) = Heap!Bytes(S) \cup own
    BY DEF Heap!Bytes
<1>2. Heap!Bytes(S) \cap own = {}
    BY DEF Heap!Bytes
<1>3. size[b] \in Nat
    BY SizesCount
<1>4. IsFiniteSet({b}) /\ Cardinality({b}) = 1
    BY FS_Singleton
<1>5. IsFiniteSet(1 .. size[b]) /\ Cardinality(1 .. size[b]) = size[b]
    BY <1>3, FS_Interval
<1>6. IsFiniteSet(own) /\ Cardinality(own) = size[b]
    <2>1. IsFiniteSet(own) /\ Cardinality(own) = Cardinality({b}) * Cardinality(1 .. size[b])
        BY <1>4, <1>5, FS_Product
    <2> HIDE DEF own
    <2> QED
        BY <1>3, <1>4, <1>5, <2>1
<1>7. IsFiniteSet(Heap!Bytes(S)) /\ Cardinality(Heap!Bytes(S)) \in Nat
    BY BytesFit
<1> HIDE DEF own
<1>8. Cardinality(Heap!Bytes(S) \cup own)
        = Cardinality(Heap!Bytes(S)) + size[b] - Cardinality({})
    BY <1>2, <1>6, <1>7, FS_Union
<1>9. Cardinality({}) = 0
    BY FS_EmptySet
<1> QED
    <2> DEFINE c == Cardinality(Heap!Bytes(S))
               d == Cardinality(Heap!Bytes(S) \cup own)
               e == Cardinality({})
    <2>1. c \in Nat /\ d = c + size[b] - e /\ e = 0 /\ size[b] \in Nat
        BY <1>3, <1>7, <1>8, <1>9
    <2> HIDE DEF c, d, e
    <2>2. d = c + size[b]
        BY <2>1
    <2> QED
        BY <1>1, <2>2 DEF c, d

LEMMA SameBytes ==
    ASSUME NEW S, \A b \in S : size'[b] = size[b]
    PROVE  Heap!Bytes(S)' = Heap!Bytes(S)
BY DEF Heap!Bytes

(* What a thread has of the memory: its pointers and the block of its call.    *)
Owns(u) == has[u] \cup ({block[u]} \ {NoBlock})

(* The allocator has given away what somebody has, and nobody else has it.      *)
OwnersInv ==
    /\ inUse = UNION {Owns(u) : u \in Threads}
    /\ \A u, v \in Threads : u # v => Owns(u) \cap Owns(v) = {}

(* Where a thread is in a call says which blocks it works on.                  *)
CallIsSound(u) ==
    /\ heapPc[u] = "idle" <=> block[u] = NoBlock
    /\ heapPc[u] \in {"count", "free", "sub", "release"} => block[u] \notin has[u]
    /\ heapPc[u] \in {"count", "free"} => magic[block[u]]
    /\ heapPc[u] = "copy" => /\ block[u] \in has[u] /\ old[u] \in has[u]
                             /\ old[u] # block[u]
    /\ heapPc[u] = "count" => old[u] \in has[u] \cup {NoBlock}
    /\ heapPc[u] \in {"idle", "free", "sub", "release"} => old[u] = NoBlock
    /\ \A b \in has[u] : magic[b]

FiguresInv ==
    /\ current = Cardinality(Heap!Bytes(Heap!Counted))
    /\ peak = highest

HeapInv ==
    /\ HeapTypes /\ OwnersInv /\ FiguresInv
    /\ \A u \in Threads : CallIsSound(u)

LEMMA CountedIsOwned ==
    ASSUME HeapTypes, OwnersInv, \A u \in Threads : CallIsSound(u)
    PROVE  Heap!Counted \in SUBSET Blocks /\ Heap!Counted \subseteq inUse
<1>1. \A u \in Threads : heapPc[u] \in {"free", "sub"} => block[u] \in Owns(u)
    BY DEF Owns, CallIsSound
<1>2. \A u \in Threads : has[u] \subseteq Owns(u)
    BY DEF Owns
<1>3. Heap!Counted \subseteq inUse
    <2> SUFFICES ASSUME NEW b \in Heap!Counted PROVE b \in inUse
        OBVIOUS
    <2> DEFINE leaving == {v \in Threads : heapPc[v] \in {"free", "sub"}}
    <2>0. b \in UNION {has[u] : u \in Threads} \/ b \in {block[u] : u \in leaving}
        BY DEF Heap!Counted
    <2>1. PICK u \in Threads :
             b \in has[u] \/ (heapPc[u] \in {"free", "sub"} /\ b = block[u])
        BY <2>0
    <2>2. b \in Owns(u)
        BY <1>1, <1>2, <2>1
    <2> QED
        BY <2>2 DEF OwnersInv
<1> QED
    BY <1>3 DEF HeapTypes

LEMMA InitHeap == Heap!Init => HeapInv
<1> SUFFICES ASSUME Heap!Init PROVE HeapInv
    OBVIOUS
<1>1. HeapTypes
    <2>1. Percent - Percent \div 5 \in 0 .. Percent
        BY HeapConstants
    <2> QED
        BY <2>1 DEF Heap!Init, HeapTypes, HeapPlaces
<1>2. \A u \in Threads : has[u] = {} /\ block[u] = NoBlock /\ heapPc[u] = "idle"
                           /\ old[u] = NoBlock
    BY DEF Heap!Init
<1>3. OwnersInv
    BY <1>2 DEF OwnersInv, Owns, Heap!Init
<1>4. \A u \in Threads : CallIsSound(u)
    BY <1>2 DEF CallIsSound
<1>5. Heap!Counted = {}
    BY <1>2 DEF Heap!Counted
<1>6. Heap!Bytes({}) = {}
    BY DEF Heap!Bytes
<1>7. FiguresInv
    BY <1>5, <1>6, FS_EmptySet DEF FiguresInv, Heap!Init
<1> QED
    BY <1>1, <1>3, <1>4, <1>7 DEF HeapInv

(* A step is of one thread, and leaves those of the others as they are.        *)
Alone(u) ==
    \A v \in Threads \ {u} : /\ has'[v] = has[v] /\ block'[v] = block[v]
                             /\ old'[v] = old[v] /\ heapPc'[v] = heapPc[v]

(* Of its memory the figure includes the pointers and a block on its way out.  *)
Counts(u) == has[u] \cup {b \in Blocks : heapPc[u] \in {"free", "sub"} /\ b = block[u]}

LEMMA OwnsCounts ==
    ASSUME HeapInv, NEW u \in Threads
    PROVE  Counts(u) \subseteq Owns(u) /\ Owns(u) \subseteq inUse /\ inUse \subseteq Blocks
<1>1. Counts(u) \subseteq Owns(u)
    BY HeapConstants DEF Counts, Owns
<1>2. Owns(u) \subseteq inUse /\ inUse \subseteq Blocks
    BY DEF HeapInv, HeapTypes, OwnersInv
<1> QED
    BY <1>1, <1>2

LEMMA CountedIs ==
    ASSUME HeapTypes, \A u \in Threads : CallIsSound(u)
    PROVE  \A b : b \in Heap!Counted <=> \E u \in Threads : b \in Counts(u)
<1>1. ASSUME NEW b, NEW u \in Threads, b \in Counts(u) PROVE b \in Heap!Counted
    <2>1. b \in has[u] \/ (heapPc[u] \in {"free", "sub"} /\ b = block[u])
        BY <1>1 DEF Counts
    <2> QED
        BY <2>1 DEF Heap!Counted
<1>2. ASSUME NEW b \in Heap!Counted PROVE \E u \in Threads : b \in Counts(u)
    <2>1. PICK u \in Threads :
             b \in has[u] \/ (heapPc[u] \in {"free", "sub"} /\ b = block[u])
        BY <1>2 DEF Heap!Counted
    <2>2. b \in Blocks
        BY <2>1 DEF HeapTypes, CallIsSound
    <2> QED
        BY <2>1, <2>2 DEF Counts
<1> QED
    BY <1>1, <1>2

LEMMA CallsStay ==
    ASSUME HeapInv, NEW u \in Threads, Alone(u), CallIsSound(u)',
           \A b \in inUse \ Owns(u) : magic'[b] = magic[b]
    PROVE  \A v \in Threads : CallIsSound(v)'
<1> SUFFICES ASSUME NEW v \in Threads \ {u} PROVE CallIsSound(v)'
    OBVIOUS
<1>1. \A b \in Owns(v) : b \in inUse \ Owns(u)
    BY DEF HeapInv, OwnersInv
<1>2. \A b \in Owns(v) : magic'[b] = magic[b]
    BY <1>1
<1>3. /\ has'[v] = has[v] /\ block'[v] = block[v]
      /\ old'[v] = old[v] /\ heapPc'[v] = heapPc[v]
    BY DEF Alone
<1>4. CallIsSound(v)
    BY DEF HeapInv
<1>5. has[v] \subseteq Owns(v) /\ (block[v] # NoBlock => block[v] \in Owns(v))
    BY DEF Owns
<1> QED
    BY <1>2, <1>3, <1>4, <1>5 DEF CallIsSound

LEMMA OwnersMove ==
    ASSUME HeapInv, NEW u \in Threads, Alone(u),
           \/ Owns(u)' = Owns(u) /\ inUse' = inUse
           \/ \E b : b \notin inUse /\ Owns(u)' = Owns(u) \cup {b} /\ inUse' = inUse \cup {b}
           \/ \E b : b \in Owns(u) /\ Owns(u)' = Owns(u) \ {b} /\ inUse' = inUse \ {b}
    PROVE  OwnersInv'
<1>1. \A v \in Threads \ {u} : Owns(v)' = Owns(v)
    BY DEF Alone, Owns
<1>2. OwnersInv
    BY DEF HeapInv
<1>3. CASE Owns(u)' = Owns(u) /\ inUse' = inUse
    BY <1>1, <1>2, <1>3 DEF OwnersInv
<1>4. ASSUME NEW b, b \notin inUse, Owns(u)' = Owns(u) \cup {b}, inUse' = inUse \cup {b}
      PROVE  OwnersInv'
    BY <1>1, <1>2, <1>4 DEF OwnersInv
<1>5. ASSUME NEW b, b \in Owns(u), Owns(u)' = Owns(u) \ {b}, inUse' = inUse \ {b}
      PROVE  OwnersInv'
    BY <1>1, <1>2, <1>5 DEF OwnersInv
<1> QED
    BY <1>3, <1>4, <1>5

LEMMA CountedMoves ==
    ASSUME HeapInv, NEW u \in Threads, Alone(u), HeapTypes', \A v \in Threads : CallIsSound(v)'
    PROVE  /\ Counts(u)' = Counts(u) => Heap!Counted' = Heap!Counted
           /\ \A b : Counts(u)' = Counts(u) \cup {b} => Heap!Counted' = Heap!Counted \cup {b}
           /\ \A b : b \in Counts(u) /\ Counts(u)' = Counts(u) \ {b} =>
                       Heap!Counted' = Heap!Counted \ {b}
<1>1. \A v \in Threads \ {u} : Counts(v)' = Counts(v)
    BY DEF Alone, Counts
<1>2. \A b : b \in Heap!Counted <=> \E v \in Threads : b \in Counts(v)
    BY CountedIs DEF HeapInv
<1>3. \A b : b \in Heap!Counted' <=> \E v \in Threads : b \in Counts(v)'
    <2> SUFFICES ASSUME NEW b PROVE b \in Heap!Counted' <=> \E v \in Threads : b \in Counts(v)'
        OBVIOUS
    <2>1. ASSUME NEW v \in Threads, b \in Counts(v)' PROVE b \in Heap!Counted'
        <3>1. b \in has'[v] \/ (heapPc'[v] \in {"free", "sub"} /\ b = block'[v])
            BY <2>1 DEF Counts
        <3> QED
            BY <3>1 DEF Heap!Counted
    <2>2. ASSUME b \in Heap!Counted' PROVE \E v \in Threads : b \in Counts(v)'
        <3>1. PICK v \in Threads :
                 b \in has'[v] \/ (heapPc'[v] \in {"free", "sub"} /\ b = block'[v])
            BY <2>2 DEF Heap!Counted
        <3>2. b \in Blocks
            BY <3>1 DEF HeapTypes, CallIsSound
        <3> QED
            BY <3>1, <3>2 DEF Counts
    <2> QED
        BY <2>1, <2>2
<1>4. Counts(u)' = Counts(u) => Heap!Counted' = Heap!Counted
    BY <1>1, <1>2, <1>3
<1>5. ASSUME NEW b, Counts(u)' = Counts(u) \cup {b} PROVE Heap!Counted' = Heap!Counted \cup {b}
    BY <1>1, <1>2, <1>3, <1>5
<1>6. ASSUME NEW b, b \in Counts(u), Counts(u)' = Counts(u) \ {b}
      PROVE  Heap!Counted' = Heap!Counted \ {b}
    <2>1. \A v \in Threads \ {u} : b \notin Counts(v)
        BY <1>6, OwnsCounts DEF HeapInv, OwnersInv
    <2> QED
        BY <1>1, <1>2, <1>3, <1>6, <2>1
<1> QED
    BY <1>4, <1>5, <1>6

LEMMA FiguresStay ==
    ASSUME HeapInv, Heap!Counted' = Heap!Counted,
           \A b \in Heap!Counted : size'[b] = size[b], UNCHANGED <<current, peak, highest>>
    PROVE  FiguresInv'
<1>1. PICK S : S = Heap!Counted
    OBVIOUS
<1>2. Heap!Bytes(S)' = Heap!Bytes(S)
    BY <1>1, SameBytes
<1>3. FiguresInv
    BY DEF HeapInv
<1>4. Heap!Counted' = S
    BY <1>1
<1>5. Heap!Bytes(Heap!Counted)' = Heap!Bytes(S)'
    BY <1>4 DEF Heap!Bytes
<1> QED
    BY <1>1, <1>2, <1>3, <1>5 DEF FiguresInv

(* osal_malloc, and the allocation of osal_realloc, which keeps o.             *)
LEMMA AllocationKeeps ==
    ASSUME HeapInv, NEW u \in Threads, Heap!At(u, "idle", "count"),
           NEW n \in Sizes, Heap!Allocate(u, n),
           NEW o \in has[u] \cup {NoBlock}, old' = [old EXCEPT ![u] = o],
           UNCHANGED <<current, peak, threshold, has, highest>>
    PROVE  HeapInv'
<1>0. HeapTypes /\ heapPc[u] = "idle" /\ heapPc' = [heapPc EXCEPT ![u] = "count"]
    BY DEF HeapInv, Heap!At
<1>1. PICK b \in Blocks \ inUse : /\ inUse' = inUse \cup {b}
                                  /\ size' = [size EXCEPT ![b] = n]
                                  /\ magic' = [magic EXCEPT ![b] = TRUE]
                                  /\ block' = [block EXCEPT ![u] = b]
    BY DEF Heap!Allocate
<1>2. HeapTypes'
    <2>1. has[u] \subseteq Blocks
        BY <1>0 DEF HeapTypes
    <2>2. old' \in [Threads -> Blocks \cup {NoBlock}] /\ block' \in [Threads -> Blocks \cup {NoBlock}]
        BY <1>0, <1>1, <2>1 DEF HeapTypes
    <2>3. size' \in [Blocks -> Sizes \cup {0}] /\ magic' \in [Blocks -> BOOLEAN] /\ inUse' \subseteq Blocks
        BY <1>0, <1>1 DEF HeapTypes
    <2>4. heapPc' \in [Threads -> HeapPlaces]
        BY <1>0 DEF HeapTypes, HeapPlaces
    <2> QED
        BY <1>0, <2>2, <2>3, <2>4 DEF HeapTypes
<1>3. Alone(u)
    BY <1>0, <1>1 DEF Alone, HeapTypes
<1>4. block'[u] = b /\ old'[u] = o /\ heapPc'[u] = "count" /\ block[u] = NoBlock /\ b # NoBlock
    BY <1>0, <1>1, HeapConstants DEF HeapTypes, HeapInv, CallIsSound
<1>5. Owns(u)' = Owns(u) \cup {b}
    BY <1>4 DEF Owns
<1>6. OwnersInv'
    BY <1>1, <1>3, <1>5, OwnersMove
<1>7. CallIsSound(u)'
    <2>1. has[u] \subseteq inUse
        BY OwnsCounts DEF Owns
    <2>2. \A c \in has[u] : c # b /\ magic[c]
        BY <1>1, <2>1 DEF HeapInv, CallIsSound
    <2>3. \A c \in has[u] : magic'[c]
        BY <1>0, <1>1, <2>1, <2>2 DEF HeapTypes
    <2>4. magic'[b]
        BY <1>0, <1>1 DEF HeapTypes
    <2> QED
        BY <1>4, <2>2, <2>3, <2>4 DEF CallIsSound
<1>8. \A v \in Threads : CallIsSound(v)'
    <2>1. \A c \in inUse : magic'[c] = magic[c]
        BY <1>0, <1>1 DEF HeapTypes
    <2> QED
        BY <1>3, <1>7, <2>1, CallsStay
<1>9. Heap!Counted' = Heap!Counted
    <2>1. Counts(u)' = Counts(u)
        BY <1>0, <1>4 DEF Counts
    <2> QED
        BY <1>2, <1>3, <1>8, <2>1, CountedMoves
<1>10. FiguresInv'
    <2>1. \A c \in Heap!Counted : size'[c] = size[c]
        BY <1>0, <1>1, CountedIsOwned DEF HeapInv, HeapTypes
    <2> QED
        BY <1>9, <2>1, FiguresStay
<1> QED
    BY <1>2, <1>6, <1>8, <1>10 DEF HeapInv

(* Of two numbers Max takes the larger.                                      *)
LEMMA MaxOfTwo ==
    ASSUME NEW a \in Int, NEW b \in Int
    PROVE  Heap!Max({a, b}) = IF a > b THEN a ELSE b
<1> DEFINE m == IF a > b THEN a ELSE b
<1>1. m \in {a, b} /\ \A y \in {a, b} : m >= y
    OBVIOUS
<1>2. \A x \in {a, b} : (\A y \in {a, b} : x >= y) => x = m
    OBVIOUS
<1> HIDE DEF m
<1>3. (CHOOSE x \in {a, b} : \A y \in {a, b} : x >= y) = m
    BY <1>1, <1>2
<1> QED
    BY <1>3 DEF m, Heap!Max

(* osal_heap_add_usage.                                                      *)
LEMMA CountKeeps ==
    ASSUME HeapInv, NEW u \in Threads, Heap!Count(u)
    PROVE  HeapInv'
<1>0. HeapTypes /\ heapPc[u] = "count" /\ CallIsSound(u)
    BY DEF HeapInv, Heap!Count, Heap!At
<1>1. PICK b \in Blocks : b = block[u]
    BY <1>0 DEF CallIsSound, HeapTypes
<1>2. /\ heapPc' = [heapPc EXCEPT ![u] = IF old[u] = NoBlock THEN "idle" ELSE "copy"]
      /\ current' = (current + size[b]) % HeapWord
      /\ peak' = (IF current' > peak THEN current' ELSE peak)
      /\ highest' = Heap!Max({highest, current'})
      /\ has' = [has EXCEPT ![u] = @ \cup {b}]
      /\ block' = (IF old[u] = NoBlock THEN [block EXCEPT ![u] = NoBlock] ELSE block)
      /\ UNCHANGED <<inUse, size, magic, threshold, old>>
    BY <1>1 DEF Heap!Count, Heap!At, Heap!memVars
<1>3. b \notin has[u] /\ magic[b] /\ b # NoBlock /\ (old[u] = NoBlock \/ old[u] \in has[u])
    BY <1>0, <1>1, HeapConstants DEF CallIsSound
<1>4. current' \in Nat
    <2>1. size[b] \in Nat /\ current \in Nat /\ HeapWord \in Nat \ {0}
        BY <1>0, SizesCount, HeapConstants DEF HeapTypes
    <2> QED
        BY <1>2, <2>1
<1>5. peak' \in Nat /\ highest' = (IF highest > current' THEN highest ELSE current')
    <2>1. peak \in Nat /\ highest \in Nat
        BY <1>0 DEF HeapTypes
    <2> QED
        BY <1>2, <1>4, <2>1, MaxOfTwo
<1>6. HeapTypes'
    <2>1. has' \in [Threads -> SUBSET Blocks]
        BY <1>0, <1>2 DEF HeapTypes
    <2>2. block' \in [Threads -> Blocks \cup {NoBlock}]
        BY <1>0, <1>2 DEF HeapTypes
    <2>3. heapPc' \in [Threads -> HeapPlaces]
        BY <1>0, <1>2 DEF HeapTypes, HeapPlaces
    <2>4. highest' \in Nat
        BY <1>0, <1>4, <1>5 DEF HeapTypes
    <2> QED
        BY <1>0, <1>2, <1>4, <1>5, <2>1, <2>2, <2>3, <2>4 DEF HeapTypes
<1>7. Alone(u)
    BY <1>0, <1>2 DEF Alone, HeapTypes
<1>8. has'[u] = has[u] \cup {b} /\ block'[u] = (IF old[u] = NoBlock THEN NoBlock ELSE b)
    BY <1>0, <1>1, <1>2 DEF HeapTypes
<1>9. Owns(u)' = Owns(u)
    BY <1>1, <1>3, <1>8 DEF Owns
<1>10. OwnersInv'
    BY <1>2, <1>7, <1>9, OwnersMove
<1>11. CallIsSound(u)'
    <2>1. heapPc'[u] = IF old[u] = NoBlock THEN "idle" ELSE "copy"
        BY <1>0, <1>2 DEF HeapTypes
    <2>2. \A c \in has'[u] : magic'[c]
        BY <1>0, <1>2, <1>3, <1>8 DEF CallIsSound
    <2>3. CASE old[u] = NoBlock
        BY <1>2, <1>8, <2>1, <2>2, <2>3 DEF CallIsSound
    <2>4. CASE old[u] # NoBlock
        BY <1>2, <1>3, <1>8, <2>1, <2>2, <2>4 DEF CallIsSound
    <2> QED
        BY <2>3, <2>4
<1>12. \A v \in Threads : CallIsSound(v)'
    BY <1>2, <1>7, <1>11, CallsStay
<1>13. PICK S \in SUBSET Blocks : S = Heap!Counted
    BY CountedIsOwned DEF HeapInv
<1>14. Heap!Counted' = S \cup {b}
    <2>1. heapPc'[u] \notin {"free", "sub"} /\ heapPc[u] \notin {"free", "sub"}
        BY <1>0, <1>2 DEF HeapTypes
    <2>2. Counts(u)' = Counts(u) \cup {b}
        BY <1>8, <2>1 DEF Counts
    <2> QED
        BY <1>6, <1>7, <1>12, <1>13, <2>2, CountedMoves
<1>15. b \notin S
    <2>1. b \in Owns(u) /\ b \notin Counts(u)
        BY <1>0, <1>1, <1>3 DEF Owns, Counts
    <2>2. \A v \in Threads \ {u} : b \notin Counts(v)
        BY <2>1, OwnsCounts DEF HeapInv, OwnersInv
    <2> QED
        BY <1>13, <2>1, <2>2, CountedIs DEF HeapInv
<1>16. current' = Cardinality(Heap!Bytes(S \cup {b}))
    <2> DEFINE c == Cardinality(Heap!Bytes(S))
               d == Cardinality(Heap!Bytes(S \cup {b}))
    <2>1. d = c + size[b]
        BY <1>0, <1>15, BlockAdds
    <2>2. current = c
        BY <1>13 DEF HeapInv, FiguresInv
    <2>3. d \in Nat /\ d < HeapWord
        BY <1>0, BytesFit
    <2> HIDE DEF c, d
    <2>4. current' = d % HeapWord
        BY <1>2, <2>1, <2>2
    <2>5. d % HeapWord = d
        <3>1. d = 0 * HeapWord + d /\ d \in 0 .. HeapWord - 1 /\ d \in Int
            BY <2>3, HeapConstants
        <3> QED
            BY <3>1, HeapConstants, RemainderIs
    <2> QED
        BY <2>4, <2>5 DEF d
<1>17. FiguresInv'
    <2>1. Heap!Bytes(Heap!Counted)' = Heap!Bytes(S \cup {b})
        BY <1>2, <1>14 DEF Heap!Bytes
    <2>2. peak = highest /\ peak \in Nat
        BY <1>0 DEF HeapInv, FiguresInv, HeapTypes
    <2>3. peak' = highest'
        <3>1. peak' = (IF current' > peak THEN current' ELSE peak)
            BY <1>2
        <3>2. highest' = (IF peak > current' THEN peak ELSE current')
            BY <1>5, <2>2
        <3> QED
            BY <1>4, <2>2, <3>1, <3>2
    <2> QED
        BY <1>16, <2>1, <2>3 DEF FiguresInv
<1> QED
    BY <1>6, <1>10, <1>12, <1>17 DEF HeapInv

(* osal_realloc, after its memcpy: the free of the old block begins.           *)
LEMMA CopyKeeps ==
    ASSUME HeapInv, NEW u \in Threads, Heap!Copy(u)
    PROVE  HeapInv'
<1>0. HeapTypes /\ heapPc[u] = "copy" /\ CallIsSound(u)
    BY DEF HeapInv, Heap!Copy, Heap!At
<1>1. PICK b \in Blocks : b = old[u] /\ b \in has[u] /\ b # NoBlock /\ b # block[u]
    <2>1. old[u] \in has[u] /\ old[u] # block[u]
        BY <1>0 DEF CallIsSound
    <2> QED
        BY <1>0, <2>1, HeapConstants DEF HeapTypes
<1>2. /\ heapPc' = [heapPc EXCEPT ![u] = "free"]
      /\ block' = [block EXCEPT ![u] = b] /\ old' = [old EXCEPT ![u] = NoBlock]
      /\ has' = [has EXCEPT ![u] = @ \ {b}]
      /\ UNCHANGED <<inUse, size, magic, current, peak, threshold, highest>>
    BY <1>1 DEF Heap!Copy, Heap!At, Heap!memVars, Heap!figureVars
<1>3. HeapTypes'
    <2>1. has' \in [Threads -> SUBSET Blocks]
        BY <1>0, <1>2 DEF HeapTypes
    <2>2. heapPc' \in [Threads -> HeapPlaces]
        BY <1>0, <1>2 DEF HeapTypes, HeapPlaces
    <2> QED
        BY <1>0, <1>2, <2>1, <2>2 DEF HeapTypes
<1>4. Alone(u)
    BY <1>0, <1>2 DEF Alone, HeapTypes
<1>5. /\ has'[u] = has[u] \ {b} /\ block'[u] = b /\ old'[u] = NoBlock
      /\ heapPc'[u] = "free"
    BY <1>0, <1>2 DEF HeapTypes
<1>6. Owns(u)' = Owns(u)
    <2>1. block[u] \in has[u]
        BY <1>0 DEF CallIsSound
    <2> QED
        BY <1>1, <1>5, <2>1 DEF Owns
<1>7. OwnersInv'
    BY <1>2, <1>4, <1>6, OwnersMove
<1>8. CallIsSound(u)'
    BY <1>0, <1>1, <1>2, <1>5 DEF CallIsSound
<1>9. \A v \in Threads : CallIsSound(v)'
    BY <1>2, <1>4, <1>8, CallsStay
<1>10. Counts(u)' = Counts(u)
    BY <1>0, <1>1, <1>5 DEF Counts
<1>11. FiguresInv'
    BY <1>2, <1>3, <1>4, <1>9, <1>10, CountedMoves, FiguresStay
<1> QED
    BY <1>3, <1>7, <1>9, <1>11 DEF HeapInv

(* osal_free begins.                                                         *)
LEMMA FreeKeeps ==
    ASSUME HeapInv, NEW u \in Threads, Heap!Free(u)
    PROVE  HeapInv'
<1>0. HeapTypes /\ heapPc[u] = "idle" /\ CallIsSound(u)
    BY DEF HeapInv, Heap!Free, Heap!At
<1>1. PICK b \in has[u] : /\ block' = [block EXCEPT ![u] = b]
                          /\ has' = [has EXCEPT ![u] = @ \ {b}]
    BY DEF Heap!Free
<1>2. /\ heapPc' = [heapPc EXCEPT ![u] = "free"]
      /\ UNCHANGED <<inUse, size, magic, current, peak, threshold, old, highest>>
    BY DEF Heap!Free, Heap!At, Heap!memVars, Heap!figureVars
<1>3. b \in Blocks /\ b # NoBlock
    BY <1>0, HeapConstants DEF HeapTypes
<1>4. HeapTypes'
    <2>1. has' \in [Threads -> SUBSET Blocks]
        BY <1>0, <1>1 DEF HeapTypes
    <2>2. heapPc' \in [Threads -> HeapPlaces]
        BY <1>0, <1>2 DEF HeapTypes, HeapPlaces
    <2>3. block' \in [Threads -> Blocks \cup {NoBlock}]
        BY <1>0, <1>1, <1>3 DEF HeapTypes
    <2> QED
        BY <1>0, <1>2, <2>1, <2>2, <2>3 DEF HeapTypes
<1>5. Alone(u)
    BY <1>0, <1>1, <1>2 DEF Alone, HeapTypes
<1>6. /\ has'[u] = has[u] \ {b} /\ block'[u] = b /\ old'[u] = NoBlock
      /\ heapPc'[u] = "free" /\ block[u] = NoBlock
    BY <1>0, <1>1, <1>2 DEF HeapTypes, CallIsSound
<1>7. Owns(u)' = Owns(u)
    BY <1>3, <1>6 DEF Owns
<1>8. OwnersInv'
    BY <1>2, <1>5, <1>7, OwnersMove
<1>9. CallIsSound(u)'
    BY <1>0, <1>2, <1>3, <1>6 DEF CallIsSound
<1>10. \A v \in Threads : CallIsSound(v)'
    BY <1>2, <1>5, <1>9, CallsStay
<1>11. Counts(u)' = Counts(u)
    BY <1>0, <1>3, <1>6 DEF Counts
<1>12. FiguresInv'
    BY <1>2, <1>4, <1>5, <1>10, <1>11, CountedMoves, FiguresStay
<1> QED
    BY <1>4, <1>8, <1>10, <1>12 DEF HeapInv

(* ... its magic number is cleared, ...                                       *)
LEMMA FreeCheckKeeps ==
    ASSUME HeapInv, NEW u \in Threads, Heap!FreeCheck(u)
    PROVE  HeapInv'
<1>0. HeapTypes /\ heapPc[u] = "free" /\ CallIsSound(u)
    BY DEF HeapInv, Heap!FreeCheck, Heap!At
<1>1. PICK b \in Blocks : b = block[u] /\ b \notin has[u] /\ b # NoBlock
    BY <1>0, HeapConstants DEF CallIsSound, HeapTypes
<1>2. /\ heapPc' = [heapPc EXCEPT ![u] = "sub"]
      /\ magic' = [magic EXCEPT ![b] = FALSE]
      /\ UNCHANGED <<inUse, size, current, peak, threshold, has, block, old, highest>>
    BY <1>1 DEF Heap!FreeCheck, Heap!At, Heap!figureVars
<1>3. HeapTypes'
    <2>1. heapPc' \in [Threads -> HeapPlaces]
        BY <1>0, <1>2 DEF HeapTypes, HeapPlaces
    <2>2. magic' \in [Blocks -> BOOLEAN]
        BY <1>0, <1>2 DEF HeapTypes
    <2> QED
        BY <1>0, <1>2, <2>1, <2>2 DEF HeapTypes
<1>4. Alone(u)
    BY <1>0, <1>2 DEF Alone, HeapTypes
<1>5. heapPc'[u] = "sub"
    BY <1>0, <1>2 DEF HeapTypes
<1>6. OwnersInv'
    BY <1>2, <1>4, OwnersMove DEF Owns
<1>7. \A c \in Blocks : c # b => magic'[c] = magic[c]
    BY <1>0, <1>2 DEF HeapTypes
<1>8. CallIsSound(u)'
    <2>1. \A c \in has[u] : c \in Blocks /\ c # b
        BY <1>0, <1>1 DEF HeapTypes
    <2>2. \A c \in has'[u] : magic'[c]
        BY <1>0, <1>2, <1>7, <2>1 DEF CallIsSound
    <2> QED
        BY <1>0, <1>1, <1>2, <1>5, <2>2 DEF CallIsSound
<1>9. \A v \in Threads : CallIsSound(v)'
    <2>1. b \in Owns(u)
        BY <1>1 DEF Owns
    <2>2. \A c \in inUse \ Owns(u) : c \in Blocks /\ c # b
        BY <2>1, <1>0 DEF HeapTypes
    <2> QED
        BY <1>4, <1>7, <1>8, <2>2, CallsStay
<1>10. Counts(u)' = Counts(u)
    BY <1>0, <1>2, <1>5 DEF Counts
<1>11. FiguresInv'
    BY <1>2, <1>3, <1>4, <1>9, <1>10, CountedMoves, FiguresStay
<1> QED
    BY <1>3, <1>6, <1>9, <1>11 DEF HeapInv

(* ... osal_heap_sub_usage, ...                                               *)
LEMMA FreeCountKeeps ==
    ASSUME HeapInv, NEW u \in Threads, Heap!FreeCount(u)
    PROVE  HeapInv'
<1>0. HeapTypes /\ heapPc[u] = "sub" /\ CallIsSound(u)
    BY DEF HeapInv, Heap!FreeCount, Heap!At
<1>1. PICK b \in Blocks : b = block[u] /\ b \notin has[u] /\ b # NoBlock
    BY <1>0, HeapConstants DEF CallIsSound, HeapTypes
<1>2. /\ heapPc' = [heapPc EXCEPT ![u] = "release"]
      /\ current' = Heap!Less(size[b])
      /\ UNCHANGED <<inUse, size, magic, peak, threshold, has, block, old, highest>>
    BY <1>1 DEF Heap!FreeCount, Heap!At, Heap!memVars
<1>3. size[b] \in Nat /\ current \in Nat
    BY <1>0, SizesCount DEF HeapTypes
<1>4. HeapTypes'
    <2>1. heapPc' \in [Threads -> HeapPlaces]
        BY <1>0, <1>2 DEF HeapTypes, HeapPlaces
    <2>2. current' \in Nat
        BY <1>2, <1>3 DEF Heap!Less
    <2> QED
        BY <1>0, <1>2, <2>1, <2>2 DEF HeapTypes
<1>5. Alone(u)
    BY <1>0, <1>2 DEF Alone, HeapTypes
<1>6. heapPc'[u] = "release"
    BY <1>0, <1>2 DEF HeapTypes
<1>7. OwnersInv'
    BY <1>2, <1>5, OwnersMove DEF Owns
<1>8. CallIsSound(u)'
    BY <1>0, <1>1, <1>2, <1>6 DEF CallIsSound
<1>9. \A v \in Threads : CallIsSound(v)'
    BY <1>2, <1>5, <1>8, CallsStay
<1>10. PICK S \in SUBSET Blocks : S = Heap!Counted \ {b}
    BY CountedIsOwned DEF HeapInv
<1>11. b \in Counts(u) /\ Counts(u)' = Counts(u) \ {b}
    BY <1>0, <1>1, <1>2, <1>6 DEF Counts
<1>12. Heap!Counted = S \cup {b}
    BY <1>10, <1>11, CountedIs DEF HeapInv
<1>13. Heap!Counted' = S
    BY <1>4, <1>5, <1>9, <1>10, <1>11, CountedMoves
<1>14. current' = Cardinality(Heap!Bytes(S))
    <2> DEFINE c == Cardinality(Heap!Bytes(S))
               d == Cardinality(Heap!Bytes(S \cup {b}))
    <2>1. d = c + size[b]
        BY <1>0, <1>10, BlockAdds
    <2>2. current = d
        BY <1>12 DEF HeapInv, FiguresInv
    <2>3. c \in Nat
        BY <1>0, BytesFit
    <2> HIDE DEF c, d
    <2>4. current' = c
        BY <1>2, <1>3, <2>1, <2>2, <2>3 DEF Heap!Less
    <2> QED
        BY <2>4 DEF c
<1>15. FiguresInv'
    <2>1. Heap!Bytes(Heap!Counted)' = Heap!Bytes(S)
        BY <1>2, <1>13 DEF Heap!Bytes
    <2> QED
        BY <1>2, <1>14, <2>1 DEF HeapInv, FiguresInv
<1> QED
    BY <1>4, <1>7, <1>9, <1>15 DEF HeapInv

(* ... and kfree.                                                            *)
LEMMA FreeEndsKeeps ==
    ASSUME HeapInv, NEW u \in Threads, Heap!FreeEnds(u)
    PROVE  HeapInv'
<1>0. HeapTypes /\ heapPc[u] = "release" /\ CallIsSound(u)
    BY DEF HeapInv, Heap!FreeEnds, Heap!At
<1>1. PICK b \in Blocks : b = block[u] /\ b \notin has[u] /\ b # NoBlock
    BY <1>0, HeapConstants DEF CallIsSound, HeapTypes
<1>2. /\ heapPc' = [heapPc EXCEPT ![u] = "idle"]
      /\ inUse' = inUse \ {b}
      /\ size' = [size EXCEPT ![b] = 0]
      /\ block' = [block EXCEPT ![u] = NoBlock]
      /\ UNCHANGED <<magic, current, peak, threshold, has, old, highest>>
    BY <1>1 DEF Heap!FreeEnds, Heap!At, Heap!figureVars
<1>3. HeapTypes'
    <2>1. heapPc' \in [Threads -> HeapPlaces]
        BY <1>0, <1>2 DEF HeapTypes, HeapPlaces
    <2>2. size' \in [Blocks -> Sizes \cup {0}]
        BY <1>0, <1>2 DEF HeapTypes
    <2>3. block' \in [Threads -> Blocks \cup {NoBlock}]
        BY <1>0, <1>2 DEF HeapTypes
    <2> QED
        BY <1>0, <1>2, <2>1, <2>2, <2>3 DEF HeapTypes
<1>4. Alone(u)
    BY <1>0, <1>2 DEF Alone, HeapTypes
<1>5. heapPc'[u] = "idle" /\ block'[u] = NoBlock
    BY <1>0, <1>2 DEF HeapTypes
<1>6. b \in Owns(u) /\ Owns(u)' = Owns(u) \ {b}
    BY <1>1, <1>2, <1>5 DEF Owns
<1>7. OwnersInv'
    BY <1>2, <1>4, <1>6, OwnersMove
<1>8. CallIsSound(u)'
    BY <1>0, <1>2, <1>5 DEF CallIsSound
<1>9. \A v \in Threads : CallIsSound(v)'
    BY <1>2, <1>4, <1>8, CallsStay
<1>10. Counts(u)' = Counts(u)
    BY <1>0, <1>2, <1>5 DEF Counts
<1>11. b \notin Heap!Counted
    <2>1. b \notin Counts(u)
        BY <1>0, <1>1 DEF Counts
    <2>2. \A v \in Threads \ {u} : b \notin Counts(v)
        BY <1>6, OwnsCounts DEF HeapInv, OwnersInv
    <2> QED
        BY <2>1, <2>2, CountedIs DEF HeapInv
<1>12. \A c \in Heap!Counted : size'[c] = size[c]
    BY <1>0, <1>2, <1>11, CountedIsOwned DEF HeapInv, HeapTypes
<1>13. FiguresInv'
    <2>1. Heap!Counted' = Heap!Counted
        BY <1>3, <1>4, <1>9, <1>10, CountedMoves
    <2> QED
        BY <1>2, <1>12, <2>1, FiguresStay
<1> QED
    BY <1>3, <1>7, <1>9, <1>13 DEF HeapInv

LEMMA StepHeap == HeapInv /\ [Heap!Next]_heapVars => HeapInv'
<1> SUFFICES ASSUME HeapInv, [Heap!Next]_heapVars PROVE HeapInv'
    OBVIOUS
<1>1. CASE /\ UNCHANGED <<inUse, size, magic, current, peak, has, heapPc, block, old, highest>>
           /\ threshold' \in 0 .. Percent
    BY <1>1
    DEF HeapInv, HeapTypes, OwnersInv, Owns, FiguresInv,
        Heap!Counted, Heap!Bytes, CallIsSound
<1>2. CASE UNCHANGED heapVars
    <2>1. threshold \in 0 .. Percent
        BY DEF HeapInv, HeapTypes
    <2> QED
        BY <1>1, <1>2, <2>1 DEF heapVars
<1>3. ASSUME Heap!SetThreshold \/ Heap!CheckThreshold PROVE HeapInv'
    <2>1. threshold \in 0 .. Percent /\ Thresholds \subseteq 0 .. Percent
        BY HeapConstants DEF HeapInv, HeapTypes
    <2> QED
        BY <1>1, <1>3, <2>1
        DEF Heap!SetThreshold, Heap!CheckThreshold, Heap!memVars, Heap!heapCallVars
<1>4. ASSUME NEW u \in Threads, Heap!Malloc(u) PROVE HeapInv'
    <2>1. PICK n \in Sizes : Heap!Allocate(u, n)
        BY <1>4 DEF Heap!Malloc
    <2>2. Heap!At(u, "idle", "count") /\ UNCHANGED <<current, peak, threshold, has, old, highest>>
        BY <1>4 DEF Heap!Malloc, Heap!figureVars
    <2>3. old[u] = NoBlock /\ old \in [Threads -> Blocks \cup {NoBlock}]
        BY <2>2 DEF HeapInv, HeapTypes, CallIsSound, Heap!At
    <2>4. old' = [old EXCEPT ![u] = NoBlock]
        BY <2>2, <2>3
    <2> QED
        BY <2>1, <2>2, <2>4, AllocationKeeps
<1>5. ASSUME NEW u \in Threads, Heap!Realloc(u) PROVE HeapInv'
    <2>1. PICK b \in has[u], n \in Sizes : Heap!Allocate(u, n) /\ old' = [old EXCEPT ![u] = b]
        BY <1>5 DEF Heap!Realloc
    <2>2. Heap!At(u, "idle", "count") /\ UNCHANGED <<current, peak, threshold, has, highest>>
        BY <1>5 DEF Heap!Realloc, Heap!figureVars
    <2> QED
        BY <2>1, <2>2, AllocationKeeps
<1> QED
    BY <1>2, <1>3, <1>4, <1>5, CountKeeps, CopyKeeps, FreeKeeps, FreeCheckKeeps,
       FreeCountKeeps, FreeEndsKeeps
    DEF Heap!Next, Heap!HeapCall

(* What the properties of the heap say follows.                               *)
LEMMA HeapIsExact == HeapInv => Heap!FiguresExact /\ Heap!BlocksAreOwned
<1> SUFFICES ASSUME HeapInv PROVE Heap!FiguresExact /\ Heap!BlocksAreOwned
    OBVIOUS
<1>0. HeapTypes /\ OwnersInv /\ FiguresInv /\ \A u \in Threads : CallIsSound(u)
    BY DEF HeapInv
<1>1. Heap!FiguresExact
    <2>1. current < HeapWord /\ current \in Nat
        BY <1>0, CountedIsOwned, BytesFit DEF FiguresInv
    <2>2. current % HeapWord = current
        <3>1. current = 0 * HeapWord + current /\ current \in 0 .. HeapWord - 1 /\ current \in Int
            BY <2>1, HeapConstants
        <3> QED
            BY <3>1, HeapConstants, RemainderIs
    <2> QED
        BY <1>0, <2>2, HeapCounts DEF Heap!FiguresExact, FiguresInv
<1>2. ASSUME NEW u \in Threads, NEW b \in has[u]
      PROVE  b \in inUse /\ magic[b] /\ \A v \in Threads \ {u} : b \notin has[v]
    BY <1>0, <1>2 DEF OwnersInv, Owns, CallIsSound
<1>3. inUse = ((UNION {has[u] : u \in Threads}) \cup {block[u] : u \in Threads}) \ {NoBlock}
    <2> DEFINE owned == ((UNION {has[u] : u \in Threads}) \cup {block[u] : u \in Threads}) \ {NoBlock}
    <2>1. \A b : b \in owned <=> \E u \in Threads : b \in has[u] \cup {block[u]} /\ b # NoBlock
        OBVIOUS
    <2>2. \A u \in Threads : \A b : b \in has[u] \cup {block[u]} /\ b # NoBlock <=> b \in Owns(u)
        BY <1>0, HeapConstants DEF Owns, HeapTypes
    <2> HIDE DEF owned
    <2>3. \A b : b \in inUse <=> b \in owned
        BY <1>0, <2>1, <2>2 DEF OwnersInv
    <2>4. inUse = owned
        BY <2>3
    <2> QED
        BY <2>4 DEF owned
<1> QED
    BY <1>1, <1>2, <1>3 DEF Heap!BlocksAreOwned

(* Percentages are cut off, which no comparison with a whole number notices.    *)
LEMMA QuotientReaches ==
    ASSUME NEW a \in Nat, NEW p \in Nat \ {0}, NEW h \in Nat
    PROVE  (a \div p) >= h <=> a >= h * p
<1>1. PICK q \in Nat, r \in 0 .. p - 1 : a = q * p + r /\ q = a \div p
    <2>1. a = (a \div p) * p + (a % p) /\ a \div p \in Nat /\ a % p \in 0 .. p - 1
        OBVIOUS
    <2> QED
        BY <2>1
<1>2. q * p \in Nat /\ h * p \in Nat
    BY <1>1
<1>3. ASSUME q >= h PROVE a >= h * p
    <2>1. q * p >= h * p
        BY <1>1, <1>3
    <2> QED
        BY <1>1, <1>2, <2>1
<1>4. ASSUME ~(q >= h) PROVE ~(a >= h * p)
    <2>1. (q + 1) * p <= h * p
        BY <1>1, <1>4
    <2>2. (q + 1) * p = q * p + p
        BY <1>1
    <2> QED
        BY <1>1, <1>2, <2>1, <2>2
<1> QED
    BY <1>1, <1>3, <1>4

LEMMA AlertTells ==
    ASSUME HeapInv, [Heap!Next]_heapVars, alert' # alert
    PROVE  alert' <=> threshold = 0 \/ (peak > 0 /\ current * Percent >= threshold * peak)
<1>1. Heap!CheckThreshold
    <2>1. ~ UNCHANGED heapVars
        BY DEF heapVars
    <2>2. ~ Heap!SetThreshold
        BY DEF Heap!SetThreshold
    <2>3. ASSUME NEW u \in Threads, Heap!HeapCall(u) PROVE FALSE
        BY <2>3
        DEF Heap!HeapCall, Heap!Malloc, Heap!Count, Heap!Realloc, Heap!Copy, Heap!Free,
            Heap!FreeCheck, Heap!FreeCount, Heap!FreeEnds, Heap!figureVars
    <2> QED
        BY <2>1, <2>2, <2>3 DEF Heap!Next
<1>2. alert' = (Heap!UsagePercent >= threshold)
    BY <1>1 DEF Heap!CheckThreshold
<1>3. current \in Nat /\ peak \in Nat /\ threshold \in Nat /\ Percent \in Nat
    BY HeapConstants DEF HeapInv, HeapTypes
<1>4. (current * Percent) % HeapWord = current * Percent
    <2>1. current * Percent < HeapWord /\ current * Percent \in Nat
        BY <1>3, CountedIsOwned, BytesFit DEF HeapInv, FiguresInv
    <2>2. PICK a \in Nat : a = current * Percent
        BY <2>1
    <2>3. a = 0 * HeapWord + a /\ a \in 0 .. HeapWord - 1 /\ a \in Int
        BY <2>1, <2>2, HeapConstants
    <2> QED
        BY <2>2, <2>3, HeapConstants, RemainderIs
<1>5. CASE peak = 0
    <2>1. Heap!UsagePercent = 0
        BY <1>5 DEF Heap!UsagePercent
    <2>2. (0 >= threshold) <=> threshold = 0
        BY <1>3
    <2>3. ~(peak > 0)
        BY <1>5
    <2>4. alert' = (0 >= threshold)
        BY <1>2, <2>1
    <2> QED
        BY <2>2, <2>3, <2>4, Zenon
<1>6. CASE peak # 0
    <2>1. PICK a \in Nat : a = current * Percent
        BY <1>3
    <2>2. Heap!UsagePercent = a \div peak
        BY <1>4, <1>6, <2>1 DEF Heap!UsagePercent
    <2>3. (a \div peak) >= threshold <=> a >= threshold * peak
        BY <1>3, <1>6, QuotientReaches
    <2>4. threshold = 0 => threshold * peak = 0
        BY <1>3
    <2>5. peak > 0 /\ (threshold = 0 => a >= threshold * peak)
        BY <1>3, <1>6, <2>1, <2>4
    <2> QED
        BY <1>2, <2>1, <2>2, <2>3, <2>5
<1> QED
    BY <1>5, <1>6
-----------------------------------------------------------------------------
(* The read-write lock, for any number of processes.                          *)

(* Where a process is says what it holds. *)
PlaceTellsHold ==
    \A p \in Procs :
        /\ pc[p] = "out" <=> holds[p] = "none"
        /\ pc[p] = "flag" => holds[p] = "write"
        /\ pc[p] = "up" => mode[p] = holds[p]

(* What the rw_semaphore excludes. *)
WriterAlone ==
    \A p, q \in Procs : holds[p] = "write" /\ q # p => holds[q] = "none"

(* The flag tells a process that is inside what it holds itself: this is     *)
(* what the exchange in the unlock relies on. *)
FlagTellsMode ==
    \A p \in Procs : pc[p] = "in" => (writer <=> holds[p] = "write")

RwlockInv == TypeOK /\ PlaceTellsHold /\ WriterAlone /\ FlagTellsMode

LEMMA InitRwlock == Init => RwlockInv
BY DEF Init, RwlockInv, TypeOK, PlaceTellsHold, WriterAlone, FlagTellsMode

(* One step per action; the fields of the invariant are few enough to go     *)
(* together. *)
LEMMA StepRwlock == RwlockInv /\ [Next]_vars => RwlockInv'
<1> SUFFICES ASSUME RwlockInv, [Next]_vars PROVE RwlockInv'
  OBVIOUS
<1> USE DEF RwlockInv, TypeOK, PlaceTellsHold, WriterAlone, FlagTellsMode
<1>1. ASSUME NEW p \in Procs, ReadLock(p) PROVE RwlockInv'
  BY <1>1 DEF ReadLock
<1>2. ASSUME NEW p \in Procs, WriteLock(p) PROVE RwlockInv'
  BY <1>2 DEF WriteLock
<1>3. ASSUME NEW p \in Procs, WriteFlag(p) PROVE RwlockInv'
  BY <1>3 DEF WriteFlag
<1>4. ASSUME NEW p \in Procs, Unlock(p) PROVE RwlockInv'
  <2>1. /\ pc[p] = "in" /\ pc' = [pc EXCEPT ![p] = "up"] /\ holds' = holds
        /\ mode' = [mode EXCEPT ![p] = IF writer THEN "write" ELSE "read"]
        /\ writer' = FALSE
    BY <1>4 DEF Unlock
  <2>2. TypeOK'
    BY <2>1
  <2>3. PlaceTellsHold'
    BY <2>1
  <2>4. WriterAlone'
    BY <2>1
  <2>5. FlagTellsMode'
    <3>1. \A q \in Procs : q # p /\ pc[q] = "in" => holds[q] # "write"
      BY <2>1
    <3>2. QED
      BY <2>1, <3>1
  <2>6. QED
    BY <2>2, <2>3, <2>4, <2>5
<1>5. ASSUME NEW p \in Procs, Release(p) PROVE RwlockInv'
  BY <1>5 DEF Release
<1>6. CASE UNCHANGED vars
  BY <1>6 DEF vars
<1>7. QED
  BY <1>1, <1>2, <1>3, <1>4, <1>5, <1>6 DEF Next

(* The invariant holds in every reachable state. *)
THEOREM RwlockInvariant == Spec => []RwlockInv
BY InitRwlock, StepRwlock, PTL DEF Spec

(* osal_rwlock_unlock never calls up_write for a reader or up_read for a     *)
(* writer, however many processes use the lock. *)
THEOREM UnlockMatchesLock == Spec => []ReleasesWhatItHolds
<1>1. RwlockInv => ReleasesWhatItHolds
  BY DEF RwlockInv, PlaceTellsHold, ReleasesWhatItHolds
<1>2. QED
  BY <1>1, RwlockInvariant, PTL

(* The flag is set only while a writer is inside. *)
THEOREM RwlockTypes == Spec => []TypeOK
<1>1. RwlockInv => TypeOK
  BY DEF RwlockInv
<1>2. QED
  BY <1>1, RwlockInvariant, PTL
-----------------------------------------------------------------------------
(* The whole: a step is a step of one of the objects, and leaves the others.    *)
LEMMA StepsOfObjects ==
    ASSUME [OsalNext]_allVars
    PROVE  /\ [Next]_vars /\ [Sem!Next]_semVars /\ [Mutex!Next]_mutexVars
           /\ [Atomic!Next]_atomicVars /\ [Heap!Next]_heapVars
<1>1. CASE UNCHANGED allVars
    BY <1>1 DEF allVars, waitVars, wordVars
<1>2. CASE WaitNext /\ UNCHANGED wordVars
    BY <1>2 DEF WaitNext, wordVars
<1>3. CASE WordNext /\ UNCHANGED waitVars
    BY <1>3 DEF WordNext, waitVars
<1> QED
    BY <1>1, <1>2, <1>3 DEF OsalNext

OsalInv == RwlockInv /\ SemInv /\ MutexInv /\ AtomicInv /\ HeapInv

THEOREM OsalInvariant == OsalSpec => []OsalInv
<1>1. OsalInit => OsalInv
    BY InitRwlock, InitSem, InitMutex, InitAtomic, InitHeap DEF OsalInit, OsalInv
<1>2. OsalInv /\ [OsalNext]_allVars => OsalInv'
    BY StepsOfObjects, StepRwlock, StepSem, StepMutex, StepAtomic, StepHeap DEF OsalInv
<1> QED
    BY <1>1, <1>2, PTL DEF OsalSpec

(* For any number of processes and threads: osal_sem_get_value never reports     *)
(* fewer units than there are but for the posts that are being counted; no       *)
(* addition to an atomic word is lost or made twice; the bytes in use are those   *)
(* of the blocks handed out, as long as all memory fits the word, and a pointer  *)
(* is good and its owner's.                                                  *)
THEOREM UpdatesAreKept == OsalSpec => []NothingIsLost
<1>1. OsalInv => NothingIsLost
    BY HeapIsExact DEF OsalInv, SemInv, AtomicInv, NothingIsLost
<1> QED
    BY <1>1, OsalInvariant, PTL

(* For any timeouts and wherever the clock wraps: osal_mutex_timed_lock gives up  *)
(* only when all its ticks have passed and not with the mutex; and for any sizes *)
(* and thresholds the alert of the heap says what the figures say.             *)
THEOREM ReportsAreRight == OsalSpec => ReportsAreTrue
<1>1. OsalInv /\ [OsalNext]_allVars =>
        [ \A t \in Threads : mutexPc[t] = "look" /\ mutexPc'[t] = "out" =>
              left[t] <= 0 /\ holder # t ]_(Mutex!mutexVars)
    BY StepsOfObjects, GivesUpLate DEF OsalInv
<1>2. OsalInv /\ [OsalNext]_allVars =>
        [ alert' # alert =>
            (alert' <=> threshold = 0 \/ (peak > 0 /\ current * Percent >= threshold * peak))
        ]_(Heap!heapVars)
    BY StepsOfObjects, AlertTells DEF OsalInv
<1> QED
    BY <1>1, <1>2, OsalInvariant, PTL
    DEF OsalSpec, ReportsAreTrue, Mutex!TimeoutsAreLate, Heap!AlertIsTrue
=============================================================================
