----------------------------- MODULE OsalThread -----------------------------
(***************************************************************************)
(* The thread service of the kernel OSAL (kernel/osal/src/sys/             *)
(* osal_thread.c): a context per thread, freed by whoever is last to need   *)
(* it, a registry of the running contexts, and create, join, detach, cancel *)
(* and exit.                                                                *)
(*                                                                          *)
(* Every thread has one owner, who makes one call at a time and none after  *)
(* the join or the detach that ends its right to the handle; owners of      *)
(* different threads run at the same time.  kthread_create, kthread_stop    *)
(* and the completion are Linux and are modelled by what they do: a task    *)
(* that is stopped before it first ran never calls its function, and the    *)
(* memory of a task that has exited is given to the next one.               *)
(***************************************************************************)
EXTENDS Integers, Sequences, SequenceTheorems, TLAPS

CONSTANTS
    Threads,    \* contexts
    Tasks,      \* addresses of task structures
    Servers,    \* threads whose routine returns only when it should stop
    Results,    \* what a routine returns
    None

ASSUME ThreadAssumption ==
    /\ Servers \subseteq Threads
    /\ None \notin Threads \union Tasks \union Results

VARIABLES
    ctx,        \* state and fields of a context
    registry,   \* g_thread_registry: contexts in the order of creation
    task,       \* [Threads -> Tasks or None]: ctx->task
    th,         \* where the kernel thread is
    cx,         \* context the thread completes
    value,      \* what the routine returned
    frees,      \* free_thread of osal_thread_trampoline
    stop,       \* KTHREAD_SHOULD_STOP
    op,         \* where the owner is
    got,        \* what join returned
    stray       \* history: kthread_stop was called for a thread that had not
                \* begun, or whose task was gone

threadVars == <<ctx, registry, task, th, cx, value, frees, stop, op, got, stray>>

-----------------------------------------------------------------------------
(* The life of a kernel thread: "off", "made" (created, asleep), "woken",   *)
(* "routine", then osal_thread_complete: "ended", "unregistered",           *)
(* "completed" (holds the lock, has signalled), "unlocking", "freeing";     *)
(* "exiting", and "gone" when the task structure is freed.  The owner:      *)
(* "none", "made", "listed" (inside create), "idle", "join", "copy",        *)
(* "free", "stop", "stopping", "await" (inside join, detach and cancel),    *)
(* "over" (the handle is not his any more).                                 *)

NoContext == [mem |-> "none", detached |-> FALSE, joined |-> FALSE,
              completed |-> FALSE, retval |-> None, lock |-> None]

ThreadInit ==
    /\ ctx = [t \in Threads |-> NoContext]
    /\ registry = <<>>
    /\ task = [t \in Threads |-> None]
    /\ th = [t \in Threads |-> "off"]
    /\ cx = [t \in Threads |-> None]
    /\ value = [t \in Threads |-> None]
    /\ frees = [t \in Threads |-> FALSE]
    /\ stop = [t \in Threads |-> FALSE]
    /\ op = [t \in Threads |-> "none"]
    /\ got = [t \in Threads |-> None]
    /\ stray = FALSE

(* kthread_stop holds a reference to the task it waits for.                 *)
Alive(t) == th[t] \notin {"off", "gone"} \/ op[t] = "stopping"
FreeTasks == Tasks \ {task[t] : t \in {u \in Threads : Alive(u)}}

-----------------------------------------------------------------------------
(* osal_thread_create: the context, the sleeping kernel thread, the         *)
(* registry, the wake-up.  When the allocation or kthread_create fails      *)
(* nothing is left behind.                                                  *)

Create(t, det) ==
    /\ op[t] = "none"
    /\ \E k \in FreeTasks : task' = [task EXCEPT ![t] = k]
    /\ ctx' = [ctx EXCEPT ![t] = [NoContext EXCEPT !.mem = "live",
                                                   !.detached = det]]
    /\ th' = [th EXCEPT ![t] = "made"]
    /\ op' = [op EXCEPT ![t] = "made"]
    /\ UNCHANGED <<registry, cx, value, frees, stop, got, stray>>

CreateList(t) ==
    /\ op[t] = "made"
    /\ registry' = Append(registry, t)
    /\ op' = [op EXCEPT ![t] = "listed"]
    /\ UNCHANGED <<ctx, task, th, cx, value, frees, stop, got, stray>>

CreateWake(t) ==
    /\ op[t] = "listed"
    /\ th' = [th EXCEPT ![t] = "woken"]
    /\ op' = [op EXCEPT ![t] = IF ctx[t].detached THEN "over" ELSE "idle"]
    /\ UNCHANGED <<ctx, registry, task, cx, value, frees, stop, got, stray>>

-----------------------------------------------------------------------------
(* The kernel thread.                                                       *)

(* kthread() calls the function unless the thread was stopped before.       *)
Begin(t) ==
    /\ th[t] = "woken"
    /\ th' = [th EXCEPT ![t] = IF stop[t] THEN "exiting" ELSE "routine"]
    /\ UNCHANGED <<ctx, registry, task, cx, value, frees, stop, op, got, stray>>

(* osal_thread_find_current: the first registered context with this task.   *)
Found(t) == {k \in DOMAIN registry : task[registry[k]] = task[t]}
FindCurrent(t) ==
    IF Found(t) = {} THEN None
    ELSE registry[CHOOSE k \in Found(t) : \A j \in Found(t) : k <= j]

(* The routine returns to osal_thread_trampoline, which completes its own   *)
(* context, or calls osal_thread_exit, which completes the one it finds.    *)
Ends(t, r) ==
    /\ th[t] = "routine"
    /\ t \in Servers => stop[t]
    /\ value' = [value EXCEPT ![t] = r]
    /\ \E c \in {t, FindCurrent(t)} :
          /\ cx' = [cx EXCEPT ![t] = c]
          /\ th' = [th EXCEPT ![t] = IF c = None THEN "exiting" ELSE "ended"]
    /\ UNCHANGED <<ctx, registry, task, frees, stop, op, got, stray>>

(* A faulty Unregister that leaves the context of the thread registered.    *)
UnregisterNothing(t) ==
    /\ th[t] = "ended"
    /\ th' = [th EXCEPT ![t] = "unregistered"]
    /\ UNCHANGED <<ctx, registry, task, cx, value, frees, stop, op, got, stray>>

(* osal_thread_complete: osal_thread_unregister, which leaves alone a context *)
(* that is not on the list.                                                 *)
Unregister(t) ==
    /\ th[t] = "ended"
    /\ \/ \E k \in DOMAIN registry :
             /\ registry[k] = cx[t]
             /\ registry' = SubSeq(registry, 1, k - 1)
                            \o SubSeq(registry, k + 1, Len(registry))
       \/ (\A k \in DOMAIN registry : registry[k] # cx[t]) /\ UNCHANGED registry
    /\ th' = [th EXCEPT ![t] = "unregistered"]
    /\ UNCHANGED <<ctx, task, cx, value, frees, stop, op, got, stray>>

(* osal_thread_complete: lock, result, completed, complete_all.             *)
Complete(t) ==
    LET c == cx[t] IN
    /\ th[t] = "unregistered"
    /\ ctx[c].lock = None
    /\ ctx' = [ctx EXCEPT ![c].lock = t, ![c].completed = TRUE,
                          ![c].retval = value[t]]
    /\ th' = [th EXCEPT ![t] = "completed"]
    /\ UNCHANGED <<registry, task, cx, value, frees, stop, op, got, stray>>

(* A faulty Decide that does not look at detached.                          *)
DecideJoined(t) ==
    /\ th[t] = "completed"
    /\ frees' = [frees EXCEPT ![t] = ~ctx[cx[t]].joined]
    /\ th' = [th EXCEPT ![t] = "unlocking"]
    /\ UNCHANGED <<ctx, registry, task, cx, value, stop, op, got, stray>>

(* free_thread = detached && !joined; anything when the joiner has already  *)
(* freed the context.                                                       *)
Decide(t) ==
    LET c == ctx[cx[t]] IN
    /\ th[t] = "completed"
    /\ \E f \in BOOLEAN :
          /\ c.mem = "live" => f = (c.detached /\ ~c.joined)
          /\ frees' = [frees EXCEPT ![t] = f]
    /\ th' = [th EXCEPT ![t] = "unlocking"]
    /\ UNCHANGED <<ctx, registry, task, cx, value, stop, op, got, stray>>

(* mutex_unlock, and kfree or not.                                          *)
CompleteUnlock(t) ==
    /\ th[t] = "unlocking"
    /\ ctx' = [ctx EXCEPT ![cx[t]].lock = None]
    /\ th' = [th EXCEPT ![t] = IF frees[t] THEN "freeing" ELSE "exiting"]
    /\ UNCHANGED <<registry, task, cx, value, frees, stop, op, got, stray>>

FreeOwn(t) ==
    /\ th[t] = "freeing"
    /\ ctx' = [ctx EXCEPT ![cx[t]].mem = "freed"]
    /\ th' = [th EXCEPT ![t] = "exiting"]
    /\ UNCHANGED <<registry, task, cx, value, frees, stop, op, got, stray>>

(* The kernel thread exits and its task is freed.                           *)
Exit(t) ==
    /\ th[t] = "exiting"
    /\ th' = [th EXCEPT ![t] = "gone"]
    /\ UNCHANGED <<ctx, registry, task, cx, value, frees, stop, op, got, stray>>

-----------------------------------------------------------------------------
(* The owner's calls.  The critical sections of join, detach and cancel     *)
(* touch nothing but the context, so each is one step.                      *)

(* osal_thread_join: claims the join; the owner has stopped a server before. *)
(* A call that is refused (OSAL_ERR_INVALID_STATE) changes nothing.          *)
Join(t) ==
    /\ op[t] = "idle"
    /\ ctx[t].lock = None
    /\ ~ctx[t].detached /\ ~ctx[t].joined
    /\ t \in Servers => stop[t]
    /\ ctx' = [ctx EXCEPT ![t].joined = TRUE]
    /\ op' = [op EXCEPT ![t] = "join"]
    /\ UNCHANGED <<registry, task, th, cx, value, frees, stop, got, stray>>

(* A faulty JoinCopy that has to be waiting when the thread signals.        *)
JoinCopyWoken(t) ==
    /\ op[t] = "join"
    /\ th[t] = "completed"
    /\ got' = [got EXCEPT ![t] = ctx[t].retval]
    /\ op' = [op EXCEPT ![t] = "free"]
    /\ UNCHANGED <<ctx, registry, task, th, cx, value, frees, stop, stray>>

(* wait_for_completion(&thread->done), and the result.                      *)
JoinCopy(t) ==
    /\ op[t] = "join"
    /\ ctx[t].completed
    /\ got' = [got EXCEPT ![t] = ctx[t].retval]
    /\ op' = [op EXCEPT ![t] = "free"]
    /\ UNCHANGED <<ctx, registry, task, th, cx, value, frees, stop, stray>>

(* kfree(thread) at the end of join and of detach.                          *)
OwnerFree(t) ==
    /\ op[t] = "free"
    /\ ctx' = [ctx EXCEPT ![t].mem = "freed"]
    /\ op' = [op EXCEPT ![t] = "over"]
    /\ UNCHANGED <<registry, task, th, cx, value, frees, stop, got, stray>>

(* A faulty Detach that does not wait for the lock.                         *)
DetachUnlocked(t) ==
    /\ op[t] = "idle"
    /\ ~ctx[t].joined
    /\ ctx' = [ctx EXCEPT ![t].detached = TRUE]
    /\ op' = [op EXCEPT ![t] = IF ctx[t].completed THEN "free" ELSE "over"]
    /\ UNCHANGED <<registry, task, th, cx, value, frees, stop, got, stray>>

(* osal_thread_detach: the thread frees its context, unless it is done.     *)
Detach(t) ==
    /\ op[t] = "idle"
    /\ ctx[t].lock = None
    /\ ~ctx[t].joined
    /\ ctx' = [ctx EXCEPT ![t].detached = TRUE]
    /\ op' = [op EXCEPT ![t] = IF ctx[t].completed THEN "free" ELSE "over"]
    /\ UNCHANGED <<registry, task, th, cx, value, frees, stop, got, stray>>

(* osal_thread_cancel: the check under the lock.                            *)
Cancel(t) ==
    /\ op[t] = "idle"
    /\ ctx[t].lock = None
    /\ ~ctx[t].detached /\ ~ctx[t].joined
    /\ op' = [op EXCEPT ![t] = "stop"]
    /\ UNCHANGED <<ctx, registry, task, th, cx, value, frees, stop, got, stray>>

(* kthread_stop(thread->task) marks the thread that has this task now; a    *)
(* task that is gone and not reused is read after it was freed.             *)
CancelStop(t) ==
    /\ op[t] = "stop"
    /\ stop' = [u \in Threads |->
                  stop[u] \/ (task[u] = task[t] /\ th[u] \notin {"off", "gone"})]
    /\ op' = [op EXCEPT ![t] = "stopping"]
    /\ stray' = (stray \/ th[t] \in {"woken", "gone"})
    /\ UNCHANGED <<ctx, registry, task, th, cx, value, frees, got>>

(* kthread_stop waits until the task has exited.                            *)
CancelStopped(t) ==
    /\ op[t] = "stopping"
    /\ \A u \in Threads : task[u] = task[t] => th[u] \in {"off", "gone"}
    /\ op' = [op EXCEPT ![t] = "await"]
    /\ UNCHANGED <<ctx, registry, task, th, cx, value, frees, stop, got, stray>>

(* wait_for_completion(&thread->done); the handle stays the owner's.        *)
CancelDone(t) ==
    /\ op[t] = "await"
    /\ ctx[t].completed
    /\ op' = [op EXCEPT ![t] = "idle"]
    /\ UNCHANGED <<ctx, registry, task, th, cx, value, frees, stop, got, stray>>

-----------------------------------------------------------------------------
(* Every owner is done; every thread has exited or serves without an owner.  *)
Finished ==
    /\ \A t \in Threads : /\ op[t] = "over"
                          /\ \/ th[t] = "gone"
                             \/ th[t] = "routine" /\ t \in Servers /\ ~stop[t]
    /\ UNCHANGED threadVars

ThreadStep(t) ==
    \/ Begin(t) \/ (\E r \in Results : Ends(t, r)) \/ Unregister(t)
    \/ Complete(t) \/ Decide(t) \/ CompleteUnlock(t) \/ FreeOwn(t) \/ Exit(t)

OwnerStep(t) ==
    \/ CreateList(t) \/ CreateWake(t) \/ JoinCopy(t) \/ OwnerFree(t)
    \/ CancelStop(t) \/ CancelStopped(t) \/ CancelDone(t)

Call(t) ==
    \/ \E det \in BOOLEAN : Create(t, det)
    \/ Join(t) \/ Detach(t) \/ Cancel(t)

ThreadNext ==
    \/ \E t \in Threads : ThreadStep(t) \/ OwnerStep(t) \/ Call(t)
    \/ Finished

ThreadSpec == ThreadInit /\ [][ThreadNext]_threadVars

(* Both sides are scheduled; a routine returns, a server when told to stop. *)
ThreadFairness ==
    \A t \in Threads : WF_threadVars(ThreadStep(t)) /\ WF_threadVars(OwnerStep(t))

FairThreadSpec == ThreadSpec /\ ThreadFairness

-----------------------------------------------------------------------------
ThreadPlaces == {"off", "made", "woken", "routine", "ended", "unregistered",
                 "completed", "unlocking", "freeing", "exiting", "gone"}
OwnerPlaces == {"none", "made", "listed", "idle", "join", "free", "stop",
                "stopping", "await", "over"}

Contexts == [mem : {"none", "live", "freed"}, detached : BOOLEAN, joined : BOOLEAN,
             completed : BOOLEAN, retval : Results \union {None},
             lock : Threads \union {None}]

(* Every field has its type, a context is registered at most once and the   *)
(* lock of a context is held by the thread that is completing it.           *)
ThreadTypeOK ==
    /\ ctx \in [Threads -> Contexts]
    /\ registry \in Seq(Threads)
    /\ \A j, k \in DOMAIN registry : registry[j] = registry[k] => j = k
    /\ task \in [Threads -> Tasks \union {None}]
    /\ th \in [Threads -> ThreadPlaces]
    /\ cx \in [Threads -> Threads \union {None}]
    /\ value \in [Threads -> Results \union {None}]
    /\ frees \in [Threads -> BOOLEAN]
    /\ stop \in [Threads -> BOOLEAN]
    /\ op \in [Threads -> OwnerPlaces]
    /\ got \in [Threads -> Results \union {None}]
    /\ \A t \in Threads :
          ctx[t].lock # None => /\ cx[ctx[t].lock] = t
                                /\ th[ctx[t].lock] \in {"completed", "unlocking"}

(* A context nobody joins is freed once: by the thread that completes it or  *)
(* by the detach that finds it completed, whichever comes last, and neither  *)
(* works on it afterwards (osal_thread_complete against osal_thread_detach). *)
DetachedFreedOnce ==
    \A t \in Threads : ctx[t].mem # "none" /\ ~ctx[t].joined =>
       LET threads == {u \in Threads : cx[u] = t /\ th[u] \in
                          {"ended", "unregistered", "completed", "unlocking",
                           "freeing"}}
           freeing == {u \in threads : th[u] = "freeing"}
       IN /\ ctx[t].mem = "freed" => threads = {} /\ op[t] # "free"
          /\ op[t] = "free" => freeing = {}

(* When the owner has given the handle up and the thread has exited, the    *)
(* context is freed: no order of completion, detach and join leaks it.      *)
NothingLeaks ==
    \A t \in Threads : op[t] = "over" /\ th[t] = "gone" => ctx[t].mem = "freed"

(* The owner never works on a freed context, whatever the thread does       *)
(* between his calls: a handle that was neither joined nor detached is good.*)
HandleIsLive ==
    \A t \in Threads : op[t] \notin {"none", "over"} => ctx[t].mem = "live"

(* A join that has returned has the value its own thread's routine returned. *)
JoinReturnsResult ==
    \A t \in Threads : op[t] \in {"free", "over"} /\ ctx[t].joined =>
       got[t] = value[t] /\ got[t] # None

(* What an owner may rely on, in whatever order he, the thread and the owners *)
(* of the others go on (osal_thread_join, _detach, osal_thread_complete),     *)
(* until a cancel, of any thread, is for one that has not begun or is gone:   *)
(* the context of the first stays registered, for a thread that gets its task *)
(* to complete as its own; the second is no task any more.                   *)
OwnerHandleIsGood ==
    \/ stray
    \/ HandleIsLive /\ JoinReturnsResult /\ DetachedFreedOnce /\ NothingLeaks

(* osal_thread_self and osal_thread_exit find the context of the thread that *)
(* calls them, from its first instruction on, also when the task structure  *)
(* of an earlier thread has been reused for it; with the same exception.     *)
SelfIsFound ==
    stray \/ \A t \in Threads : th[t] = "routine" => FindCurrent(t) = t

(* A join returns once the routine can: the wake-up is never missed.         *)
JoinEnds == \A t \in Threads : op[t] = "join" ~> op[t] = "over" \/ stray

(* A cancel returns once the routine follows the request to stop; with the   *)
(* same exception.                                                          *)
CancelEnds == \A t \in Threads : op[t] = "stop" ~> op[t] = "idle" \/ stray

(* osal_thread_complete works on its context, which it has locked, until it  *)
(* has unlocked it: the context is there.                                   *)
CompleterHasContext ==
    \A t \in Threads : th[t] \in {"completed", "unlocking", "freeing"} =>
       ctx[cx[t]].mem = "live"

(* kthread_stop is called for a task that still exists.                      *)
StopsItsTask == \A t \in Threads : op[t] = "stop" => th[t] # "gone"
-----------------------------------------------------------------------------
(* Why it holds until a cancel goes astray.  A thread completes its own context, *)
(* and its context, the two positions and the tasks determine each other.    *)

(* The positions after the routine, and those at which the result is there.   *)
Past == {"ended", "unregistered", "completed", "unlocking", "freeing", "exiting",
         "gone"}
Done == {"completed", "unlocking", "freeing", "exiting", "gone"}

(* Thread and owner begin together, and the thread completes its own context. *)
LifeInv(t) ==
    /\ op[t] = "none" <=> th[t] = "off"
    /\ op[t] \in {"made", "listed"} <=> th[t] = "made"
    /\ op[t] = "none" <=> ctx[t].mem = "none"
    /\ cx[t] = IF th[t] \in Past THEN t ELSE None
    /\ th[t] \in Past => value[t] \in Results

(* A thread is told to stop once it runs, and a server stays until it is told. *)
StopInv(t) ==
    /\ stop[t] => th[t] \notin {"off", "made", "woken"}
    /\ t \in Servers /\ ~stop[t] => th[t] \in {"off", "made", "woken", "routine"}

(* The lock is the completing thread's; a completed context has the result.   *)
LockInv(t) ==
    /\ ctx[t].lock = IF th[t] \in {"completed", "unlocking"} THEN t ELSE None
    /\ ctx[t].completed <=> th[t] \in Done
    /\ ctx[t].completed => ctx[t].retval = value[t]

(* Join and detach exclude each other, and each is the owner's last call.     *)
OwnerInv(t) ==
    /\ ctx[t].joined => ~ctx[t].detached /\ op[t] \in {"join", "free", "over"}
    /\ op[t] = "join" => ctx[t].joined
    /\ op[t] \in {"free", "over"} => ctx[t].joined \/ ctx[t].detached
    /\ ctx[t].detached => op[t] \in {"made", "listed", "free", "over"}
    /\ ctx[t].joined /\ op[t] \in {"free", "over"} =>
          ctx[t].completed /\ got[t] = value[t]

(* Who frees the context: the joiner, or the later one of thread and detach.  *)
FreeInv(t) ==
    /\ ctx[t].mem = "freed" => op[t] = "over"
    /\ th[t] = "freeing" => frees[t]
    /\ ctx[t].joined =>
          /\ op[t] = "over" => ctx[t].mem = "freed"
          /\ frees[t] /\ th[t] \in {"unlocking", "freeing"} => ctx[t].mem = "freed"
    /\ ~ctx[t].joined =>
          /\ op[t] = "free" => th[t] \in {"exiting", "gone"}
          /\ ctx[t].mem = "freed" => th[t] \in {"exiting", "gone"}
          /\ op[t] = "over" /\ th[t] \in {"exiting", "gone"} => ctx[t].mem = "freed"
          /\ th[t] = "unlocking" => frees[t] = ctx[t].detached
          /\ th[t] = "freeing" => ctx[t].detached /\ op[t] = "over"

(* A task is one thread's, and the list has the threads that can be found.    *)
TaskInv ==
    \A t, u \in Threads : Alive(t) /\ Alive(u) /\ task[t] = task[u] => t = u

Registered(t) == \E k \in DOMAIN registry : registry[k] = t

OnList(t) == op[t] = "listed" \/ th[t] \in {"woken", "routine", "ended"}

ListInv == \A t \in Threads : Registered(t) <=> OnList(t)

OneInv(t) == LifeInv(t) /\ StopInv(t) /\ LockInv(t) /\ OwnerInv(t) /\ FreeInv(t)

ThreadInv == ThreadTypeOK /\ TaskInv /\ ListInv /\ \A t \in Threads : OneInv(t)

LEMMA InitThreadInv == ThreadInit => ThreadInv
<1> SUFFICES ASSUME ThreadInit PROVE ThreadInv
    OBVIOUS
<1> USE ThreadAssumption DEF ThreadInit, NoContext
<1>1. ThreadTypeOK
    BY DEF ThreadTypeOK, Contexts, ThreadPlaces, OwnerPlaces
<1>2. TaskInv
    BY DEF TaskInv, Alive
<1>3. ListInv
    BY DEF ListInv, Registered, OnList
<1>4. ASSUME NEW t \in Threads PROVE OneInv(t)
    BY DEF OneInv, LifeInv, StopInv, LockInv, OwnerInv, FreeInv, Past, Done
<1> QED
    BY <1>1, <1>2, <1>3, <1>4 DEF ThreadInv

(* What the steps make of a context is one.                                  *)
LEMMA ContextTyping ==
    ASSUME NEW c \in Contexts, NEW u \in Threads, NEW r \in Results \union {None}
    PROVE  /\ [c EXCEPT !.joined = TRUE] \in Contexts
           /\ [c EXCEPT !.detached = TRUE] \in Contexts
           /\ [c EXCEPT !.mem = "freed"] \in Contexts
           /\ [c EXCEPT !.lock = None] \in Contexts
           /\ [c EXCEPT !.lock = u, !.completed = TRUE, !.retval = r] \in Contexts
BY DEF Contexts

(* The fields of the threads have their types.                               *)
FieldsOK ==
    /\ ctx \in [Threads -> Contexts]
    /\ task \in [Threads -> Tasks \union {None}]
    /\ th \in [Threads -> ThreadPlaces]
    /\ cx \in [Threads -> Threads \union {None}]
    /\ value \in [Threads -> Results \union {None}]
    /\ frees \in [Threads -> BOOLEAN]
    /\ stop \in [Threads -> BOOLEAN]
    /\ op \in [Threads -> OwnerPlaces]
    /\ got \in [Threads -> Results \union {None}]

LEMMA FieldsSuffice ==
    ASSUME ThreadTypeOK, registry' = registry, FieldsOK',
           \A u \in Threads :
              ctx'[u].lock # None => /\ cx'[ctx'[u].lock] = u
                                     /\ th'[ctx'[u].lock] \in {"completed", "unlocking"}
    PROVE  ThreadTypeOK'
BY DEF ThreadTypeOK, FieldsOK

(* A step of one thread or its owner leaves the others alone.                *)
Same(u) ==
    /\ ctx'[u] = ctx[u] /\ task'[u] = task[u] /\ th'[u] = th[u] /\ cx'[u] = cx[u]
    /\ value'[u] = value[u] /\ frees'[u] = frees[u] /\ stop'[u] = stop[u]
    /\ op'[u] = op[u] /\ got'[u] = got[u]

LEMMA SameOne ==
    ASSUME NEW u \in Threads, OneInv(u), Same(u)
    PROVE  OneInv(u)'
BY DEF Same, OneInv, LifeInv, StopInv, LockInv, OwnerInv, FreeInv

(* Neither the list nor the tasks: what there is to show of such a step.     *)
LEMMA QuietStep ==
    ASSUME ThreadInv, NEW t \in Threads, ThreadTypeOK', OneInv(t)',
           \A u \in Threads \ {t} : Same(u),
           registry' = registry, task' = task,
           Alive(t)' => Alive(t), OnList(t)' <=> OnList(t)
    PROVE  ThreadInv'
<1>1. ASSUME NEW u \in Threads PROVE OneInv(u)'
    BY SameOne DEF ThreadInv
<1>2. ASSUME NEW u \in Threads PROVE Alive(u)' => Alive(u)
    BY DEF Alive, Same
<1>3. TaskInv'
    BY <1>2 DEF ThreadInv, TaskInv
<1>4. ASSUME NEW u \in Threads PROVE OnList(u)' <=> OnList(u)
    BY DEF OnList, Same
<1>5. ListInv'
    BY <1>4 DEF ThreadInv, ListInv, Registered
<1> QED
    BY <1>1, <1>3, <1>5 DEF ThreadInv

LEMMA CreateKeeps ==
    ASSUME ThreadInv, NEW t \in Threads, NEW det \in BOOLEAN, Create(t, det)
    PROVE  ThreadInv'
<1> USE ThreadAssumption DEF Create, NoContext
<1>0. OneInv(t) /\ ThreadTypeOK
    BY DEF ThreadInv
<1>2. ASSUME NEW u \in Threads, u # t PROVE Same(u)
    BY <1>0, <1>2 DEF Same, ThreadTypeOK
<1>3. OneInv(t)'
    BY <1>0 DEF OneInv, LifeInv, StopInv, LockInv, OwnerInv, FreeInv, Past, Done, ThreadTypeOK
<1>4. ASSUME NEW u \in Threads PROVE OneInv(u)'
    BY <1>2, <1>3, SameOne DEF ThreadInv
<1>5. ASSUME NEW u \in Threads, u # t, Alive(u)' PROVE Alive(u) /\ task'[u] # task'[t]
    BY <1>0, <1>2, <1>5 DEF Same, Alive, FreeTasks, ThreadTypeOK
<1>6. TaskInv'
    BY <1>2, <1>5 DEF TaskInv, ThreadInv, Same
<1>7. ListInv'
    BY <1>0 DEF ListInv, Registered, OnList, ThreadInv, ThreadTypeOK, OneInv, LifeInv
<1>8. ThreadTypeOK'
    <2>1. \A u \in Threads :
             ctx'[u].lock # None => /\ cx'[ctx'[u].lock] = u
                                    /\ th'[ctx'[u].lock] \in {"completed", "unlocking"}
        BY <1>4 DEF OneInv, LockInv, LifeInv, Past
    <2>2. task' \in [Threads -> Tasks \union {None}]
        BY <1>0 DEF ThreadTypeOK, FreeTasks
    <2>3. ctx' \in [Threads -> Contexts]
        BY <1>0 DEF ThreadTypeOK, Contexts
    <2> QED
        BY <1>0, <2>1, <2>2, <2>3 DEF ThreadTypeOK, ThreadPlaces, OwnerPlaces
<1> QED
    BY <1>4, <1>6, <1>7, <1>8 DEF ThreadInv

LEMMA CreateListKeeps ==
    ASSUME ThreadInv, NEW t \in Threads, CreateList(t)
    PROVE  ThreadInv'
<1> USE ThreadAssumption DEF CreateList
<1>0. OneInv(t) /\ ThreadTypeOK
    BY DEF ThreadInv
<1>1. ~Registered(t)
    BY <1>0 DEF ThreadInv, ListInv, OnList, OneInv, LifeInv
<1>2. /\ registry' \in Seq(Threads)
      /\ DOMAIN registry' = DOMAIN registry \union {Len(registry) + 1}
      /\ registry'[Len(registry) + 1] = t
      /\ Len(registry) + 1 \notin DOMAIN registry
      /\ \A k \in DOMAIN registry : registry'[k] = registry[k]
    BY <1>0 DEF ThreadTypeOK
<1>3. ThreadTypeOK'
    BY <1>0, <1>1, <1>2 DEF ThreadTypeOK, ThreadPlaces, OwnerPlaces, Registered
<1>4. ASSUME NEW u \in Threads, u # t PROVE Same(u)
    BY <1>0, <1>4 DEF Same, ThreadTypeOK
<1>5. OneInv(t)'
    BY <1>0 DEF OneInv, LifeInv, StopInv, LockInv, OwnerInv, FreeInv, Past, Done, ThreadTypeOK
<1>6. ASSUME NEW u \in Threads PROVE OneInv(u)'
    BY <1>4, <1>5, SameOne DEF ThreadInv
<1>7. TaskInv'
    BY <1>0 DEF TaskInv, ThreadInv, Alive, ThreadTypeOK
<1>8. ASSUME NEW u \in Threads PROVE Registered(u)' <=> Registered(u) \/ u = t
    BY <1>2 DEF Registered
<1>9. ASSUME NEW u \in Threads PROVE OnList(u)' <=> OnList(u) \/ u = t
    BY <1>0 DEF OnList, ThreadTypeOK
<1>10. ListInv'
    BY <1>8, <1>9 DEF ListInv, ThreadInv
<1> QED
    BY <1>3, <1>6, <1>7, <1>10 DEF ThreadInv

(* Taking an element out of a sequence: what is left, and that an element    *)
(* which was there once is gone.                                             *)
LEMMA UnlinkFacts ==
    ASSUME NEW S, NEW s \in Seq(S), NEW k \in 1 .. Len(s)
    PROVE  LET r == SubSeq(s, 1, k - 1) \o SubSeq(s, k + 1, Len(s))
           IN  /\ r \in Seq(S) /\ Len(r) = Len(s) - 1
               /\ \A i \in 1 .. Len(r) : r[i] = IF i < k THEN s[i] ELSE s[i + 1]
<1> DEFINE a == SubSeq(s, 1, k - 1)
           b == SubSeq(s, k + 1, Len(s))
<1>0. Len(s) \in Nat /\ \A i \in 1 .. Len(s) : s[i] \in S
    BY LenProperties, ElementOfSeq
<1>1. /\ a \in Seq(S) /\ Len(a) = k - 1
      /\ \A i \in 1 .. k - 1 : a[i] = s[i]
    BY <1>0, SubSeqProperties
<1>2. /\ b \in Seq(S) /\ Len(b) = Len(s) - k
      /\ \A i \in 1 .. Len(s) - k : b[i] = s[k + i]
    BY <1>0, SubSeqProperties
<1> HIDE DEF a, b
<1>3. /\ a \o b \in Seq(S) /\ Len(a \o b) = Len(s) - 1
      /\ \A i \in 1 .. Len(s) - 1 : (a \o b)[i] = IF i <= k - 1 THEN a[i] ELSE b[i - (k - 1)]
    BY <1>0, <1>1, <1>2, ConcatProperties
<1>4. ASSUME NEW i \in 1 .. Len(s) - 1
      PROVE  (a \o b)[i] = IF i < k THEN s[i] ELSE s[i + 1]
    <2>1. CASE i < k
        BY <2>1, <1>0, <1>1, <1>3
    <2>2. CASE ~(i < k)
        <3>1. i - (k - 1) \in 1 .. Len(s) - k /\ k + (i - (k - 1)) = i + 1
            BY <2>2, <1>0
        <3> QED
            BY <3>1, <2>2, <1>0, <1>2, <1>3
    <2> QED
        BY <2>1, <2>2
<1> QED
    BY <1>3, <1>4 DEF a, b

LEMMA Unlinked ==
    ASSUME NEW S, NEW s \in Seq(S), NEW k \in 1 .. Len(s),
           \A i, j \in 1 .. Len(s) : s[i] = s[j] => i = j
    PROVE  LET r == SubSeq(s, 1, k - 1) \o SubSeq(s, k + 1, Len(s))
           IN  /\ \A i, j \in 1 .. Len(r) : r[i] = r[j] => i = j
               /\ \A x : (\E i \in 1 .. Len(r) : r[i] = x)
                         <=> (\E i \in 1 .. Len(s) : s[i] = x) /\ x # s[k]
<1> DEFINE r == SubSeq(s, 1, k - 1) \o SubSeq(s, k + 1, Len(s))
<1>0. Len(s) \in Nat
    BY LenProperties
<1>1. /\ Len(r) = Len(s) - 1
      /\ \A i \in 1 .. Len(r) : r[i] = IF i < k THEN s[i] ELSE s[i + 1]
    BY UnlinkFacts
<1> HIDE DEF r
<1>6. ASSUME NEW i \in 1 .. Len(r), NEW j \in 1 .. Len(r), r[i] = r[j] PROVE i = j
    BY <1>6, <1>0, <1>1
<1>7. ASSUME NEW i \in 1 .. Len(r) PROVE r[i] # s[k] /\ \E j \in 1 .. Len(s) : s[j] = r[i]
    BY <1>0, <1>1
<1>8. ASSUME NEW i \in 1 .. Len(s), i # k PROVE \E j \in 1 .. Len(r) : r[j] = s[i]
    <2>1. CASE i < k
        BY <2>1, <1>0, <1>1
    <2>2. CASE i > k
        <3>1. i - 1 \in 1 .. Len(r) /\ ~(i - 1 < k) /\ i - 1 + 1 = i
            BY <2>2, <1>0, <1>1
        <3> QED
            BY <3>1, <1>1
    <2> QED
        BY <1>8, <2>1, <2>2
<1>9. ASSUME NEW x
      PROVE  (\E i \in 1 .. Len(r) : r[i] = x)
             <=> (\E i \in 1 .. Len(s) : s[i] = x) /\ x # s[k]
    <2>1. ASSUME NEW i \in 1 .. Len(r), r[i] = x
          PROVE  (\E j \in 1 .. Len(s) : s[j] = x) /\ x # s[k]
        BY <2>1, <1>7
    <2>2. ASSUME NEW i \in 1 .. Len(s), s[i] = x, x # s[k]
          PROVE  \E j \in 1 .. Len(r) : r[j] = x
        BY <2>2, <1>8
    <2> QED
        BY <2>1, <2>2
<1> QED
    BY <1>6, <1>9 DEF r

LEMMA UnregisterKeeps ==
    ASSUME ThreadInv, NEW t \in Threads, Unregister(t)
    PROVE  ThreadInv'
<1> USE ThreadAssumption
<1>0. OneInv(t) /\ ThreadTypeOK
    BY DEF ThreadInv
<1>1. cx[t] = t /\ th[t] = "ended"
    BY <1>0 DEF OneInv, LifeInv, Past, Unregister
<1>2. Registered(t)
    BY <1>1 DEF ThreadInv, ListInv, OnList
<1>3. PICK k \in 1 .. Len(registry) :
         /\ registry[k] = t
         /\ registry' = SubSeq(registry, 1, k - 1)
                        \o SubSeq(registry, k + 1, Len(registry))
    <2>1. DOMAIN registry = 1 .. Len(registry)
        BY <1>0 DEF ThreadTypeOK
    <2>2. \E k \in DOMAIN registry : registry[k] = cx[t]
        BY <1>1, <1>2 DEF Registered
    <2> QED
        BY <1>1, <2>1, <2>2 DEF Unregister
<1>4. registry \in Seq(Threads)
    BY <1>0 DEF ThreadTypeOK
<1>5. /\ registry' \in Seq(Threads) /\ Len(registry') = Len(registry) - 1
      /\ \A i \in 1 .. Len(registry') :
            registry'[i] = IF i < k THEN registry[i] ELSE registry[i + 1]
    BY <1>3, <1>4, UnlinkFacts
<1>6. DOMAIN registry = 1 .. Len(registry) /\ DOMAIN registry' = 1 .. Len(registry')
    BY <1>4, <1>5
<1>7. \A i, j \in 1 .. Len(registry) : registry[i] = registry[j] => i = j
    BY <1>0, <1>6 DEF ThreadTypeOK
<1>8. /\ \A i, j \in 1 .. Len(registry') : registry'[i] = registry'[j] => i = j
      /\ \A x : (\E i \in 1 .. Len(registry') : registry'[i] = x)
                <=> (\E i \in 1 .. Len(registry) : registry[i] = x) /\ x # registry[k]
    <2> DEFINE r == SubSeq(registry, 1, k - 1) \o SubSeq(registry, k + 1, Len(registry))
    <2>1. k \in 1 .. Len(registry)
        BY <1>3
    <2>2. /\ \A i, j \in 1 .. Len(r) : r[i] = r[j] => i = j
          /\ \A x : (\E i \in 1 .. Len(r) : r[i] = x)
                    <=> (\E i \in 1 .. Len(registry) : registry[i] = x) /\ x # registry[k]
        BY <1>4, <1>7, <2>1, Unlinked
    <2>3. registry' = r
        BY <1>3
    <2> HIDE DEF r
    <2> QED
        BY <2>2, <2>3
<1>9. ThreadTypeOK'
    <2>1. \A j, i \in DOMAIN registry' : registry'[j] = registry'[i] => j = i
        BY <1>6, <1>8
    <2>2. th' \in [Threads -> ThreadPlaces]
        BY <1>0 DEF ThreadTypeOK, ThreadPlaces, Unregister
    <2>3. \A u \in Threads :
             ctx[u].lock # None => /\ cx[ctx[u].lock] = u
                                   /\ th'[ctx[u].lock] \in {"completed", "unlocking"}
        BY <1>0, <1>1 DEF ThreadTypeOK, Unregister
    <2> QED
        BY <1>0, <1>5, <2>1, <2>2, <2>3 DEF ThreadTypeOK, Unregister
<1>10. ASSUME NEW u \in Threads, u # t PROVE Same(u)
    BY <1>0, <1>10 DEF Same, ThreadTypeOK, Unregister
<1>11. OneInv(t)'
    BY <1>0 DEF OneInv, LifeInv, StopInv, LockInv, OwnerInv, FreeInv, Past, Done,
                ThreadTypeOK, Unregister
<1>12. ASSUME NEW u \in Threads PROVE OneInv(u)'
    BY <1>10, <1>11, SameOne DEF ThreadInv
<1>13. TaskInv'
    BY <1>0 DEF TaskInv, ThreadInv, Alive, ThreadTypeOK, Unregister
<1>14. ASSUME NEW u \in Threads PROVE Registered(u)' <=> Registered(u) /\ u # t
    <2>1. registry[k] = t
        BY <1>3
    <2> QED
        BY <2>1, <1>6, <1>8 DEF Registered
<1>15. ASSUME NEW u \in Threads PROVE OnList(u)' <=> OnList(u) /\ u # t
    BY <1>0, <1>1 DEF OnList, ThreadTypeOK, Unregister, OneInv, LifeInv
<1>16. ListInv'
    BY <1>14, <1>15 DEF ListInv, ThreadInv
<1> QED
    BY <1>9, <1>12, <1>13, <1>16 DEF ThreadInv

(* The steps of the thread that leave the list alone.                       *)
LEMMA ThreadQuietKeeps ==
    ASSUME ThreadInv, NEW t \in Threads,
           \/ Begin(t) \/ (\E r \in Results : Ends(t, r) /\ cx'[t] = t)
           \/ Complete(t) \/ Decide(t) \/ CompleteUnlock(t) \/ FreeOwn(t) \/ Exit(t)
    PROVE  ThreadInv'
<1> USE ThreadAssumption
<1>0. OneInv(t) /\ ThreadTypeOK
    BY DEF ThreadInv
<1>1. th[t] \in Past => cx[t] = t
    BY <1>0 DEF OneInv, LifeInv
<1>f. FieldsOK
    BY <1>0 DEF ThreadTypeOK, FieldsOK
<1>2. ASSUME NEW u \in Threads, u # t PROVE Same(u)
    <2>1. CASE Begin(t) \/ Exit(t)
        BY <1>2, <1>f, <2>1 DEF Same, FieldsOK, Begin, Exit
    <2>2. CASE \E r \in Results : Ends(t, r) /\ cx'[t] = t
        BY <1>2, <1>f, <2>2 DEF Same, FieldsOK, Ends
    <2>3. CASE Decide(t)
        BY <1>2, <1>f, <2>3 DEF Same, FieldsOK, Decide
    <2>4. CASE Complete(t)
        BY <1>1, <1>2, <1>f, <2>4 DEF Same, FieldsOK, Complete, Past
    <2>5. CASE CompleteUnlock(t)
        BY <1>1, <1>2, <1>f, <2>5 DEF Same, FieldsOK, CompleteUnlock, Past
    <2>6. CASE FreeOwn(t)
        BY <1>1, <1>2, <1>f, <2>6 DEF Same, FieldsOK, FreeOwn, Past
    <2> QED
        BY <2>1, <2>2, <2>3, <2>4, <2>5, <2>6
<1> USE DEF OneInv, LifeInv, StopInv, LockInv, OwnerInv, FreeInv, Past, Done
<1>3. OneInv(t)'
    <2>1. CASE Begin(t)
        BY <1>0, <2>1 DEF ThreadTypeOK, Begin
    <2>2. CASE \E r \in Results : Ends(t, r) /\ cx'[t] = t
        BY <1>0, <2>2 DEF ThreadTypeOK, Ends
    <2>3. CASE Complete(t)
        <3>1. th[t] = "unregistered" /\ th'[t] = "completed" /\ cx[t] = t
            BY <1>f, <1>1, <2>3 DEF FieldsOK, Complete
        <3>2. /\ ctx'[t].mem = ctx[t].mem /\ ctx'[t].joined = ctx[t].joined
              /\ ctx'[t].detached = ctx[t].detached /\ ctx'[t].lock = t
              /\ ctx'[t].completed = TRUE /\ ctx'[t].retval = value[t]
            BY <1>f, <2>3, <3>1 DEF FieldsOK, Contexts, Complete
        <3>3. UNCHANGED <<cx, value, frees, stop, op, got>>
            BY <2>3 DEF Complete
        <3> QED
            BY <1>0, <3>1, <3>2, <3>3
    <2>4. CASE Decide(t)
        BY <1>0, <1>1, <2>4 DEF ThreadTypeOK, Contexts, Decide
    <2>5. CASE CompleteUnlock(t)
        <3>1. th[t] = "unlocking" /\ cx[t] = t
              /\ th'[t] = IF frees[t] THEN "freeing" ELSE "exiting"
            BY <1>f, <1>1, <2>5 DEF FieldsOK, CompleteUnlock
        <3>2. /\ ctx'[t].mem = ctx[t].mem /\ ctx'[t].joined = ctx[t].joined
              /\ ctx'[t].detached = ctx[t].detached /\ ctx'[t].lock = None
              /\ ctx'[t].completed = ctx[t].completed /\ ctx'[t].retval = ctx[t].retval
            BY <1>f, <2>5, <3>1 DEF FieldsOK, Contexts, CompleteUnlock
        <3>3. UNCHANGED <<cx, value, frees, stop, op, got>>
            BY <2>5 DEF CompleteUnlock
        <3> QED
            BY <1>0, <3>1, <3>2, <3>3
    <2>6. CASE FreeOwn(t)
        <3>1. th[t] = "freeing" /\ th'[t] = "exiting" /\ cx[t] = t
            BY <1>f, <1>1, <2>6 DEF FieldsOK, FreeOwn
        <3>2. /\ ctx'[t].mem = "freed" /\ ctx'[t].joined = ctx[t].joined
              /\ ctx'[t].detached = ctx[t].detached /\ ctx'[t].lock = ctx[t].lock
              /\ ctx'[t].completed = ctx[t].completed /\ ctx'[t].retval = ctx[t].retval
            BY <1>f, <2>6, <3>1 DEF FieldsOK, Contexts, FreeOwn
        <3>3. UNCHANGED <<cx, value, frees, stop, op, got>>
            BY <2>6 DEF FreeOwn
        <3> QED
            BY <1>0, <3>1, <3>2, <3>3
    <2>7. CASE Exit(t)
        BY <1>0, <2>7 DEF ThreadTypeOK, Exit
    <2> QED
        BY <2>1, <2>2, <2>3, <2>4, <2>5, <2>6, <2>7
<1>4. ASSUME NEW u \in Threads PROVE OneInv(u)'
    BY <1>2, <1>3, SameOne DEF ThreadInv
<1> HIDE DEF OneInv, LifeInv, StopInv, LockInv, OwnerInv, FreeInv, Past, Done
<1>5. ThreadTypeOK'
    <2>0. \A u \in Threads :
             ctx'[u].lock # None => /\ cx'[ctx'[u].lock] = u
                                    /\ th'[ctx'[u].lock] \in {"completed", "unlocking"}
        BY <1>4 DEF OneInv, LockInv, LifeInv, Past
    <2>1. FieldsOK'
        <3> USE DEF FieldsOK, ThreadPlaces
        <3>1. CASE Begin(t)
            BY <1>f, <3>1 DEF Begin
        <3>2. CASE Exit(t)
            BY <1>f, <3>2 DEF Exit
        <3>3. CASE Decide(t)
            BY <1>f, <3>3 DEF Decide
        <3>4. CASE \E r \in Results : Ends(t, r) /\ cx'[t] = t
            BY <1>f, <3>4 DEF Ends
        <3>5. CASE Complete(t)
            BY <1>f, <1>1, <3>5, ContextTyping DEF Past, Complete
        <3>6. CASE CompleteUnlock(t)
            BY <1>f, <1>1, <3>6, ContextTyping DEF Past, CompleteUnlock
        <3>7. CASE FreeOwn(t)
            BY <1>f, <1>1, <3>7, ContextTyping DEF Past, FreeOwn
        <3> QED
            BY <3>1, <3>2, <3>3, <3>4, <3>5, <3>6, <3>7
    <2>2. registry' = registry
        BY DEF Begin, Ends, Complete, Decide, CompleteUnlock, FreeOwn, Exit
    <2> QED
        BY <1>0, <2>0, <2>1, <2>2, FieldsSuffice
<1>6. task' = task /\ registry' = registry /\ op' = op
    BY DEF Begin, Ends, Complete, Decide, CompleteUnlock, FreeOwn, Exit
<1>7. Alive(t)' => Alive(t)
    BY <1>0, <1>6 DEF Alive, ThreadTypeOK, Begin, Ends, Complete, Decide, CompleteUnlock,
                      FreeOwn, Exit
<1>8. OnList(t)' <=> OnList(t)
    BY <1>0, <1>6 DEF OnList, OneInv, StopInv, ThreadTypeOK, Begin, Ends, Complete, Decide,
                      CompleteUnlock, FreeOwn, Exit
<1> QED
    BY <1>2, <1>3, <1>5, <1>6, <1>7, <1>8, QuietStep

(* The owner's steps that tell no thread to stop.                            *)
LEMMA OwnerQuietKeeps ==
    ASSUME ThreadInv, NEW t \in Threads,
           \/ CreateWake(t) \/ Join(t) \/ JoinCopy(t) \/ OwnerFree(t) \/ Detach(t)
           \/ Cancel(t) \/ CancelStopped(t) \/ CancelDone(t)
    PROVE  ThreadInv'
<1> USE ThreadAssumption
<1>0. OneInv(t) /\ ThreadTypeOK
    BY DEF ThreadInv
<1>f. FieldsOK
    BY <1>0 DEF ThreadTypeOK, FieldsOK
<1>2. ASSUME NEW u \in Threads, u # t PROVE Same(u)
    <2>1. CASE CreateWake(t) \/ JoinCopy(t)
        BY <1>2, <1>f, <2>1 DEF Same, FieldsOK, CreateWake, JoinCopy
    <2>2. CASE Join(t) \/ OwnerFree(t) \/ Detach(t)
        BY <1>2, <1>f, <2>2 DEF Same, FieldsOK, Join, OwnerFree, Detach
    <2>3. CASE Cancel(t) \/ CancelStopped(t) \/ CancelDone(t)
        BY <1>2, <1>f, <2>3 DEF Same, FieldsOK, Cancel, CancelStopped, CancelDone
    <2> QED
        BY <2>1, <2>2, <2>3
<1> USE DEF OneInv, LifeInv, StopInv, LockInv, OwnerInv, FreeInv, Past, Done
<1>3. OneInv(t)'
    <2>1. CASE CreateWake(t)
        BY <1>0, <2>1 DEF ThreadTypeOK, CreateWake
    <2>2. CASE Join(t)
        BY <1>0, <2>2 DEF ThreadTypeOK, Join
    <2>3. CASE JoinCopy(t)
        BY <1>0, <2>3 DEF ThreadTypeOK, JoinCopy
    <2>4. CASE OwnerFree(t)
        BY <1>0, <2>4 DEF ThreadTypeOK, OwnerFree
    <2>5. CASE Detach(t)
        <3>1. /\ ctx'[t].mem = ctx[t].mem /\ ctx'[t].joined = FALSE
              /\ ctx'[t].completed = ctx[t].completed /\ ctx'[t].lock = None
              /\ ctx'[t].retval = ctx[t].retval /\ ctx'[t].detached = TRUE
              /\ op[t] = "idle" /\ th'[t] = th[t] /\ ctx[t].lock = None
              /\ op'[t] = IF ctx[t].completed THEN "free" ELSE "over"
              /\ ctx[t].joined = FALSE
            BY <1>0, <2>5 DEF ThreadTypeOK, Detach
        <3>2. UNCHANGED <<cx, value, stop, frees, got>>
            BY <2>5 DEF Detach
        <3> QED
            BY <1>0, <3>1, <3>2
    <2>6. CASE Cancel(t)
        BY <1>0, <2>6 DEF ThreadTypeOK, Cancel
    <2>7. CASE CancelStopped(t) \/ CancelDone(t)
        BY <1>0, <2>7 DEF ThreadTypeOK, CancelStopped, CancelDone
    <2> QED
        BY <2>1, <2>2, <2>3, <2>4, <2>5, <2>6, <2>7
<1>4. ASSUME NEW u \in Threads PROVE OneInv(u)'
    BY <1>2, <1>3, SameOne DEF ThreadInv
<1> HIDE DEF OneInv, LifeInv, StopInv, LockInv, OwnerInv, FreeInv, Past, Done
<1>5. ThreadTypeOK'
    <2>0. \A u \in Threads :
             ctx'[u].lock # None => /\ cx'[ctx'[u].lock] = u
                                    /\ th'[ctx'[u].lock] \in {"completed", "unlocking"}
        BY <1>4 DEF OneInv, LockInv, LifeInv, Past
    <2>1. FieldsOK'
        <3> USE DEF FieldsOK, ThreadPlaces, OwnerPlaces
        <3>1. CASE CreateWake(t)
            BY <1>f, <3>1 DEF CreateWake
        <3>2. CASE JoinCopy(t)
            <4>1. ctx[t].retval \in Results \union {None}
                BY <1>f DEF Contexts
            <4> QED
                BY <1>f, <3>2, <4>1 DEF JoinCopy
        <3>3. CASE Join(t)
            BY <1>f, <3>3, ContextTyping DEF Join
        <3>4. CASE OwnerFree(t)
            BY <1>f, <3>4, ContextTyping DEF OwnerFree
        <3>5. CASE Detach(t)
            BY <1>f, <3>5, ContextTyping DEF Detach
        <3>6. CASE Cancel(t)
            BY <1>f, <3>6 DEF Cancel
        <3>7. CASE CancelStopped(t)
            BY <1>f, <3>7 DEF CancelStopped
        <3>8. CASE CancelDone(t)
            BY <1>f, <3>8 DEF CancelDone
        <3> QED
            BY <3>1, <3>2, <3>3, <3>4, <3>5, <3>6, <3>7, <3>8
    <2>2. registry' = registry
        BY DEF CreateWake, Join, JoinCopy, OwnerFree, Detach, Cancel, CancelStopped,
               CancelDone
    <2> QED
        BY <1>0, <2>0, <2>1, <2>2, FieldsSuffice
<1>6. task' = task /\ registry' = registry
    BY DEF CreateWake, Join, JoinCopy, OwnerFree, Detach, Cancel, CancelStopped, CancelDone
<1>7. Alive(t)' => Alive(t)
    BY <1>0 DEF Alive, OneInv, LifeInv, ThreadTypeOK, CreateWake, Join, JoinCopy, OwnerFree,
                Detach, Cancel, CancelStopped, CancelDone
<1>8. OnList(t)' <=> OnList(t)
    BY <1>0 DEF OnList, ThreadTypeOK, CreateWake, Join, JoinCopy, OwnerFree, Detach,
                Cancel, CancelStopped, CancelDone
<1> QED
    BY <1>2, <1>3, <1>5, <1>6, <1>7, <1>8, QuietStep

(* kthread_stop reaches the owner's thread, if that has begun and is not gone, *)
(* and no other.                                                            *)
LEMMA CancelStopKeeps ==
    ASSUME ThreadInv, NEW t \in Threads, CancelStop(t), ~stray'
    PROVE  ThreadInv'
<1> USE ThreadAssumption
<1>0. OneInv(t) /\ ThreadTypeOK
    BY DEF ThreadInv
<1>1. th[t] \notin {"off", "made", "woken", "gone"}
    BY <1>0 DEF OneInv, LifeInv, ThreadTypeOK, CancelStop
<1>2. ASSUME NEW u \in Threads, u # t
      PROVE  ~(task[u] = task[t] /\ th[u] \notin {"off", "gone"})
    BY <1>1, <1>2 DEF ThreadInv, TaskInv, Alive
<1>3. ASSUME NEW u \in Threads, u # t PROVE Same(u)
    BY <1>0, <1>2, <1>3 DEF Same, ThreadTypeOK, CancelStop
<1>4. stop'[t] = TRUE /\ op'[t] = "stopping"
    BY <1>0, <1>1 DEF CancelStop, ThreadTypeOK
<1>5. OneInv(t)'
    BY <1>0, <1>1, <1>4 DEF OneInv, LifeInv, StopInv, LockInv, OwnerInv, FreeInv, Past,
                            Done, CancelStop
<1>6. ThreadTypeOK'
    BY <1>0 DEF ThreadTypeOK, OwnerPlaces, CancelStop
<1>7. task' = task /\ registry' = registry
    BY DEF CancelStop
<1>8. (Alive(t)' => Alive(t)) /\ (OnList(t)' <=> OnList(t))
    BY <1>0, <1>1, <1>4 DEF Alive, OnList, CancelStop
<1> QED
    BY <1>3, <1>5, <1>6, <1>7, <1>8, QuietStep

(* The one task of a thread that runs leads to its own context.              *)
LEMMA FindsSelf ==
    ASSUME ThreadInv, NEW t \in Threads, th[t] = "routine"
    PROVE  FindCurrent(t) = t
<1>1. PICK k \in DOMAIN registry : registry[k] = t
    BY DEF ThreadInv, ListInv, OnList, Registered
<1>2. ASSUME NEW j \in Found(t) PROVE j = k
    <2>1. j \in DOMAIN registry /\ registry[j] \in Threads
        BY DEF Found, ThreadInv, ThreadTypeOK
    <2>2. OnList(registry[j])
        BY <2>1 DEF ThreadInv, ListInv, Registered
    <2>3. Alive(registry[j]) /\ Alive(t)
        BY <2>1, <2>2 DEF OnList, Alive, ThreadInv, OneInv, LifeInv
    <2>4. registry[j] = t
        BY <2>1, <2>3 DEF Found, ThreadInv, TaskInv
    <2> QED
        BY <2>1, <2>4, <1>1 DEF ThreadInv, ThreadTypeOK
<1>3. k \in Found(t) /\ k \in Int
    BY <1>1 DEF Found, ThreadInv, ThreadTypeOK
<1>4. Found(t) = {k}
    BY <1>2, <1>3
<1> QED
    BY <1>1, <1>3, <1>4 DEF FindCurrent

LEMMA StepThreadInv == ThreadInv /\ [ThreadNext]_threadVars => ThreadInv' \/ stray'
<1> SUFFICES ASSUME ThreadInv, [ThreadNext]_threadVars, ~stray' PROVE ThreadInv'
    OBVIOUS
<1>1. CASE UNCHANGED threadVars
    BY <1>1 DEF threadVars, ThreadInv, ThreadTypeOK, TaskInv, Alive, ListInv, Registered,
                OnList, OneInv, LifeInv, StopInv, LockInv, OwnerInv, FreeInv
<1>2. ASSUME NEW t \in Threads, ThreadStep(t) PROVE ThreadInv'
    <2>1. ASSUME NEW r \in Results, Ends(t, r) PROVE cx'[t] = t
        BY <2>1, FindsSelf DEF Ends, ThreadInv, ThreadTypeOK
    <2> QED
        BY <1>2, <2>1, UnregisterKeeps, ThreadQuietKeeps DEF ThreadStep
<1>3. ASSUME NEW t \in Threads, OwnerStep(t) PROVE ThreadInv'
    BY <1>3, CreateListKeeps, OwnerQuietKeeps, CancelStopKeeps DEF OwnerStep
<1>4. ASSUME NEW t \in Threads, Call(t) PROVE ThreadInv'
    BY <1>4, CreateKeeps, OwnerQuietKeeps DEF Call
<1> QED
    BY <1>1, <1>2, <1>3, <1>4 DEF ThreadNext, Finished

(* A cancel that has gone astray is not undone.                              *)
LEMMA StrayStays == stray /\ [ThreadNext]_threadVars => stray'
<1> SUFFICES ASSUME stray, [ThreadNext]_threadVars PROVE stray'
    OBVIOUS
<1>1. ASSUME NEW t \in Threads, ThreadStep(t) PROVE stray'
    BY <1>1 DEF ThreadStep, Begin, Ends, Unregister, Complete, Decide, CompleteUnlock,
       FreeOwn, Exit
<1>2. ASSUME NEW t \in Threads, OwnerStep(t) PROVE stray'
    BY <1>2 DEF OwnerStep, CreateList, CreateWake, JoinCopy, OwnerFree, CancelStop,
       CancelStopped, CancelDone
<1>3. ASSUME NEW t \in Threads, Call(t) PROVE stray'
    BY <1>3 DEF Call, Create, Join, Detach, Cancel
<1> QED
    BY <1>1, <1>2, <1>3 DEF ThreadNext, Finished, threadVars

THEOREM ThreadInvariant == ThreadSpec => [](stray \/ ThreadInv)
BY InitThreadInv, StepThreadInv, StrayStays, PTL DEF ThreadSpec

(* For any number of threads on any number of tasks, and until a cancel is for *)
(* a thread that has not begun or is gone: the fields have their types, no     *)
(* context is listed twice, and a lock is the completing thread's.            *)
THEOREM ThreadTypes == ThreadSpec => [](stray \/ ThreadTypeOK)
<1>1. ThreadInv => ThreadTypeOK
    BY DEF ThreadInv
<1> QED
    BY <1>1, ThreadInvariant, PTL

(* osal_thread_self finds the context of its thread, for any number of        *)
(* threads, however task structures are used again, until a cancel is for a   *)
(* thread that has not begun or is gone (the exception is in the property).   *)
THEOREM SelvesAreFound == ThreadSpec => []SelfIsFound
<1>1. stray \/ ThreadInv => SelfIsFound
    BY FindsSelf DEF SelfIsFound
<1> QED
    BY <1>1, ThreadInvariant, PTL

(* No owner works on a freed context, no join returns another's result, no    *)
(* context is freed twice or never, in any order of completion, join, detach  *)
(* and cancel, whoever is cancelled and how often; until a cancel is for a     *)
(* thread that has not begun or is gone (the exception is in the property).   *)
THEOREM HandlesAreGood == ThreadSpec => []OwnerHandleIsGood
<1>1. ThreadInv => OwnerHandleIsGood
    <2> SUFFICES ASSUME ThreadInv PROVE OwnerHandleIsGood
        OBVIOUS
    <2> USE ThreadAssumption DEF ThreadInv, OneInv
    <2>1. HandleIsLive
        BY DEF HandleIsLive, ThreadTypeOK, Contexts, LifeInv, FreeInv
    <2>2. JoinReturnsResult
        BY DEF JoinReturnsResult, LifeInv, LockInv, OwnerInv, Past, Done
    <2>3. ASSUME NEW t \in Threads, NEW u \in Threads, cx[u] = t
          PROVE  u = t
        BY <2>3 DEF LifeInv
    <2>4. DetachedFreedOnce
        <3> SUFFICES ASSUME NEW t \in Threads, ctx[t].mem # "none", ~ctx[t].joined,
                            NEW u \in Threads, cx[u] = t,
                            th[u] \in {"ended", "unregistered", "completed",
                                       "unlocking", "freeing"}
                     PROVE  ctx[t].mem # "freed" /\ (op[t] = "free" => th[u] # "freeing")
            BY DEF DetachedFreedOnce, FreeInv, OwnerInv, ThreadTypeOK
        <3> QED
            BY <2>3 DEF FreeInv
    <2>5. NothingLeaks
        BY DEF NothingLeaks, FreeInv
    <2> QED
        BY <2>1, <2>2, <2>4, <2>5 DEF OwnerHandleIsGood
<1>2. stray => OwnerHandleIsGood
    BY DEF OwnerHandleIsGood
<1> QED
    BY <1>1, <1>2, ThreadInvariant, PTL
=============================================================================
