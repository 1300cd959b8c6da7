------------------------------- MODULE OsalHeap -------------------------------
(***************************************************************************)
(* The heaps of the OSAL (kernel/osal/src/lib/osal_heap.c and                 *)
(* user/osal/src/lib/osal_heap.c): a header with a size and a magic number     *)
(* before each block, and under a mutex the bytes in use, their peak and an    *)
(* alert.  A block is allocated and counted, cleared, counted off and given    *)
(* back in steps of their own, so the figures and the blocks are apart in      *)
(* between.  The heap of user programs counts a block off before its header is  *)
(* cleared, and osal_heap_get_info takes the bytes in use from                *)
(* /proc/self/status when it can: read before the mutex is taken, and then     *)
(* written over the figure that malloc and free count.  Which free block the    *)
(* allocator takes makes no difference to its callers, who free what they have  *)
(* and nothing else.                                                         *)
(***************************************************************************)
EXTENDS Integers, FiniteSets, FiniteSetsExt

CONSTANTS
  Users,       (* threads                                                   *)
  Blocks,      (* memory the allocator has for headers and data               *)
  Sizes,       (* sizes that are asked for                                    *)
  Thresholds,  (* values for osal_heap_set_threshold                          *)
  Percent,     (* 100                                                         *)
  Word,        (* 2^32: what a uint32_t holds                                 *)
  Readings,    (* what VmRSS and VmPeak may read as; both 0: unreadable       *)
  NoBlock

HeapAssumption ==
  /\ IsFiniteSet(Blocks) /\ Sizes \subseteq Nat /\ NoBlock \notin Blocks
  /\ Percent \in Nat \ {0} /\ Word \in Nat \ {0} /\ Thresholds \subseteq 0 .. Percent
  /\ Readings \subseteq [rss : 0 .. Word - 1, peak : 0 .. Word - 1]

VARIABLES
  inUse,       (* blocks the allocator has given away                         *)
  size, magic, (* their headers; magic as: is it OSAL_HEAP_MAGIC              *)
  current, peak, threshold, alert,   (* g_heap_...                            *)
  has,         (* the pointers each thread has                                *)
  heapPc,      (* where it is in a call                                       *)
  block, old,  (* the block a call works on, and the one a realloc replaces    *)
  highest,     (* history: the most that was ever counted                     *)
  reading,     (* user programs: vm_rss and vm_peak of a call, and             *)
  purpose      (* whether it is osal_heap_get_info or osal_heap_check_threshold *)

memVars == <<inUse, size, magic>>
figureVars == <<current, peak, threshold, alert>>
heapCallVars == <<has, heapPc, block, old>>
readVars == <<reading, purpose>>
heapVars == <<memVars, figureVars, heapCallVars, highest, readVars>>

Unread == [rss |-> 0, peak |-> 0]

(* OS_HeapInit, or the initializers of the variables.                         *)
Init ==
  /\ inUse = {}
  /\ size = [b \in Blocks |-> 0] /\ magic = [b \in Blocks |-> FALSE]
  /\ current = 0 /\ peak = 0 /\ alert = FALSE
  /\ threshold = Percent - Percent \div 5
  /\ has = [u \in Users |-> {}]
  /\ heapPc = [u \in Users |-> "idle"]
  /\ block = [u \in Users |-> NoBlock] /\ old = [u \in Users |-> NoBlock]
  /\ highest = 0
  /\ reading = [u \in Users |-> Unread]
  /\ purpose = [u \in Users |-> "info"]

At(u, from, to) == heapPc[u] = from /\ heapPc' = [heapPc EXCEPT ![u] = to]

(* kmalloc and the header of the block.                                      *)
Allocate(u, n) ==
  /\ Blocks \ inUse # {}
  /\ LET b == CHOOSE b \in Blocks \ inUse : TRUE IN
    /\ inUse' = inUse \cup {b}
    /\ size' = [size EXCEPT ![b] = n]
    /\ magic' = [magic EXCEPT ![b] = TRUE]
    /\ block' = [block EXCEPT ![u] = b]

(* osal_malloc; one that finds no memory returns NULL and changes nothing.    *)
Malloc(u) ==
  /\ At(u, "idle", "count")
  /\ \E n \in Sizes : Allocate(u, n)
  /\ UNCHANGED <<figureVars, has, old, highest>>

(* A slip: the peak is what was in use before.                               *)
CountPeakBefore(u) ==
  /\ At(u, "count", IF old[u] = NoBlock THEN "idle" ELSE "copy")
  /\ current' = (current + size[block[u]]) % Word
  /\ peak' = IF current > peak THEN current ELSE peak
  /\ highest' = Max({highest, current'})
  /\ has' = [has EXCEPT ![u] = @ \cup {block[u]}]
  /\ block' = IF old[u] = NoBlock THEN [block EXCEPT ![u] = NoBlock] ELSE block
  /\ UNCHANGED <<memVars, threshold, alert, old>>

(* osal_heap_add_usage, and the pointer is the caller's.                     *)
Count(u) ==
  /\ At(u, "count", IF old[u] = NoBlock THEN "idle" ELSE "copy")
  /\ current' = (current + size[block[u]]) % Word
  /\ peak' = IF current' > peak THEN current' ELSE peak
  /\ highest' = Max({highest, current'})
  /\ has' = [has EXCEPT ![u] = @ \cup {block[u]}]
  /\ block' = IF old[u] = NoBlock THEN [block EXCEPT ![u] = NoBlock] ELSE block
  /\ UNCHANGED <<memVars, threshold, alert, old>>

(* osal_realloc with a pointer and a size: a block of the new size is         *)
(* allocated first; without memory the old one stays as it is.                *)
Realloc(u) ==
  /\ At(u, "idle", "count")
  /\ \E b \in has[u], n \in Sizes \ {0} :
       magic[b] /\ Allocate(u, n) /\ old' = [old EXCEPT ![u] = b]
  /\ UNCHANGED <<figureVars, has, highest>>

(* ... its memcpy, and the free of the old block begins.                     *)
Copy(u) ==
  /\ At(u, "copy", "free")
  /\ block' = [block EXCEPT ![u] = old[u]]
  /\ old' = [old EXCEPT ![u] = NoBlock]
  /\ has' = [has EXCEPT ![u] = @ \ {old[u]}]
  /\ UNCHANGED <<memVars, figureVars, highest>>

(* osal_free, and osal_realloc to nothing.                                   *)
Free(u) ==
  /\ At(u, "idle", "free")
  /\ \E b \in has[u] :
       /\ block' = [block EXCEPT ![u] = b]
       /\ has' = [has EXCEPT ![u] = @ \ {b}]
  /\ UNCHANGED <<memVars, figureVars, old, highest>>

(* The magic number is looked at and cleared, ...                             *)
FreeCheck(u) ==
  /\ At(u, "free", "sub")
  /\ magic[block[u]]
  /\ magic' = [magic EXCEPT ![block[u]] = FALSE]
  /\ UNCHANGED <<inUse, size, figureVars, has, block, old, highest>>

Less(n) == IF n > current THEN 0 ELSE current - n

(* ... osal_heap_sub_usage, ...                                              *)
FreeCount(u) ==
  /\ At(u, "sub", "release")
  /\ current' = Less(size[block[u]])
  /\ UNCHANGED <<memVars, peak, threshold, alert, has, block, old, highest>>

(* ... kfree.                                                                *)
FreeEnds(u) ==
  /\ At(u, "release", "idle")
  /\ inUse' = inUse \ {block[u]}
  /\ size' = [size EXCEPT ![block[u]] = 0]
  /\ block' = [block EXCEPT ![u] = NoBlock]
  /\ UNCHANGED <<magic, figureVars, has, old, highest>>

SetThreshold ==
  /\ threshold' \in Thresholds
  /\ UNCHANGED <<memVars, current, peak, alert, heapCallVars, highest>>

(* usage * 100U / peak, in 32 bits.                                          *)
UsagePercent == IF peak = 0 THEN 0 ELSE ((current * Percent) % Word) \div peak

(* osal_heap_check_threshold: all of it under the mutex.                     *)
CheckThreshold ==
  /\ alert' = (UsagePercent >= threshold)
  /\ UNCHANGED <<memVars, current, peak, threshold, heapCallVars, highest>>

HeapCall(u) ==
  \/ Malloc(u) \/ Count(u) \/ Realloc(u) \/ Copy(u)
  \/ Free(u) \/ FreeCheck(u) \/ FreeCount(u) \/ FreeEnds(u)

Next ==
  /\ (\E u \in Users : HeapCall(u)) \/ SetThreshold \/ CheckThreshold
  /\ UNCHANGED readVars

Spec == Init /\ [][Next]_heapVars
-------------------------------------------------------------------------------
(* osal_malloc, in two steps as in the kernel.                                *)
UserMalloc(u) == (Malloc(u) \/ Count(u)) /\ UNCHANGED readVars

(* osal_realloc.                                                             *)
UserRealloc(u) == (Realloc(u) \/ Copy(u)) /\ UNCHANGED readVars

(* A slip: the header is cleared first and the size read from nothing.         *)
UserFreeClearsFirst(u) ==
  /\ At(u, "free", "release")
  /\ magic[block[u]]
  /\ size' = [size EXCEPT ![block[u]] = 0]
  /\ current' = Less(size'[block[u]])
  /\ UNCHANGED <<inUse, magic, peak, threshold, alert, has, block, old,
                 highest, readVars>>

(* osal_free: the magic number is looked at, the size counted off under the    *)
(* mutex, ...                                                               *)
UserFreeCount(u) ==
  /\ At(u, "free", "release")
  /\ magic[block[u]]
  /\ current' = Less(size[block[u]])
  /\ UNCHANGED <<memVars, peak, threshold, alert, has, block, old,
                 highest, readVars>>

(* ... the magic number cleared and the block given back.                     *)
UserFreeEnds(u) ==
  /\ At(u, "release", "idle")
  /\ magic' = [magic EXCEPT ![block[u]] = FALSE]
  /\ inUse' = inUse \ {block[u]}
  /\ size' = [size EXCEPT ![block[u]] = 0]
  /\ block' = [block EXCEPT ![u] = NoBlock]
  /\ UNCHANGED <<figureVars, has, old, highest, readVars>>

(* _read_memory_from_proc, without the mutex.                                *)
ReadProc(u) ==
  /\ At(u, "idle", "apply")
  /\ \E r \in Readings : reading' = [reading EXCEPT ![u] = r]
  /\ \E p \in {"info", "check"} : purpose' = [purpose EXCEPT ![u] = p]
  /\ UNCHANGED <<memVars, figureVars, has, block, old, highest>>

(* A slip: the peak is not raised with what was read.                         *)
ApplyNoPeak(u) ==
  LET internal == [rss |-> current, peak |-> peak]
      r == IF reading[u] = Unread THEN internal ELSE reading[u]
  IN
  /\ At(u, "apply", IF purpose[u] = "check" THEN "alert" ELSE "idle")
  /\ current' = r.rss
  /\ peak' = peak
  /\ highest' = Max({highest, r.rss})
  /\ reading' = [reading EXCEPT ![u] = IF purpose[u] = "check" THEN r ELSE Unread]
  /\ UNCHANGED <<memVars, threshold, alert, has, block, old, purpose>>

(* The rest of osal_heap_get_info: what was read takes the place of the figure, *)
(* or the figure of what could not be read.                                  *)
Apply(u) ==
  LET internal == [rss |-> current, peak |-> peak]
      r == IF reading[u] = Unread THEN internal ELSE reading[u]
  IN
  /\ At(u, "apply", IF purpose[u] = "check" THEN "alert" ELSE "idle")
  /\ current' = r.rss
  /\ peak' = Max({peak, r.rss})
  /\ highest' = Max({highest, r.rss})
  /\ reading' = [reading EXCEPT ![u] = IF purpose[u] = "check" THEN r ELSE Unread]
  /\ UNCHANGED <<memVars, threshold, alert, has, block, old, purpose>>

(* The percentage of osal_heap_check_threshold: total less free bytes.        *)
ReadPercent(r) == ((Min({r.rss, r.peak}) * Percent) % Word) \div r.peak

(* The rest of osal_heap_check_threshold, under the mutex again; nothing was    *)
(* ever allocated when there is no peak.                                     *)
UserCheck(u) ==
  /\ At(u, "alert", "idle")
  /\ LET r == reading[u] IN
       alert' = IF r.peak = 0 THEN alert ELSE ReadPercent(r) >= threshold
  /\ reading' = [reading EXCEPT ![u] = Unread]
  /\ purpose' = [purpose EXCEPT ![u] = "info"]
  /\ UNCHANGED <<memVars, current, peak, threshold, has, block, old, highest>>

UserSetThreshold == SetThreshold /\ UNCHANGED readVars

UserHeapCall(u) ==
  \/ UserMalloc(u) \/ UserRealloc(u) \/ UserFreeCount(u) \/ UserFreeEnds(u)
  \/ Free(u) /\ UNCHANGED readVars
  \/ ReadProc(u) \/ Apply(u) \/ UserCheck(u)

UserNext == UserSetThreshold \/ \E u \in Users : UserHeapCall(u)

UserSpec == Init /\ [][UserNext]_heapVars
-------------------------------------------------------------------------------
TypeOK ==
  /\ inUse \subseteq Blocks
  /\ size \in [Blocks -> Sizes \cup {0}] /\ magic \in [Blocks -> BOOLEAN]
  /\ current \in 0 .. Word - 1 /\ peak \in 0 .. Word - 1 /\ highest \in Nat
  /\ threshold \in 0 .. Percent /\ alert \in BOOLEAN
  /\ has \in [Users -> SUBSET Blocks]
  /\ heapPc \in [Users -> {"idle", "count", "copy", "free", "sub", "release",
                         "apply", "alert"}]
  /\ block \in [Users -> Blocks \cup {NoBlock}] /\ old \in [Users -> Blocks \cup {NoBlock}]
  /\ reading \in [Users -> [rss : 0 .. Word - 1, peak : 0 .. Word - 1]]
  /\ purpose \in [Users -> {"info", "check"}]

(* The blocks whose size the figure includes: those the threads have, and     *)
(* those on the way out that are not counted off yet.                        *)
Counted ==
  (UNION {has[u] : u \in Users})
    \cup {block[u] : u \in {v \in Users : heapPc[v] \in {"free", "sub"}}}

Bytes(blocks) == UNION {{b} \X (1 .. size[b]) : b \in blocks}

(* The bytes in use are those of the blocks that were handed out, whatever     *)
(* the threads are doing, and the peak is the most there ever were.            *)
FiguresExact ==
  /\ current = Cardinality(Bytes(Counted)) % Word
  /\ peak = highest

(* A pointer a thread has is good, and its own: allocated, with a header, of   *)
(* nobody else; and nothing the allocator has given away is forgotten.         *)
BlocksAreOwned ==
  /\ \A u \in Users : \A b \in has[u] :
       b \in inUse /\ magic[b] /\ \A v \in Users \ {u} : b \notin has[v]
  /\ inUse = ((UNION {has[u] : u \in Users}) \cup {block[u] : u \in Users}) \ {NoBlock}

(* osal_heap.h: the check reports when the usage reaches the threshold.  It      *)
(* does, until usage * 100 exceeds 32 bits, at 42.9 MB.                        *)
AlertIsTrue ==
  [][ alert' # alert =>
        (alert' <=> threshold = 0 \/ (peak > 0 /\ current * Percent >= threshold * peak))
    ]_heapVars

(* Whatever is read into the figures and whoever counts at the same time, the   *)
(* peak is never below the bytes in use, and a pointer is good and its owner's. *)
PeakCovers == current <= peak /\ BlocksAreOwned
===============================================================================
