------------------------------ MODULE OsalCond ------------------------------
(***************************************************************************)
(* The condition variable of the kernel OSAL (kernel/osal/src/ipc/          *)
(* osal_cond.c): a wait queue and a generation counter that every signal    *)
(* and broadcast advances.  A waiter reads the generation while it holds    *)
(* the mutex and sleeps until it has changed.                               *)
(*                                                                          *)
(* The clients are the two sides the primitive is for: a consumer waits in a *)
(* loop for an item to be there and takes it, a producer puts one there     *)
(* under the mutex and wakes the consumers, before or after it unlocks.     *)
(* wake_up_interruptible wakes every waiter of this queue, since no wait is *)
(* exclusive, so a signal and a broadcast are the same step.                *)
(***************************************************************************)
EXTENDS Integers, FiniteSets, FiniteSetTheorems, TLAPS

CONSTANTS
    Consumers,
    Producers,
    MaxItems,       \* bound: items put by the producers altogether
    Generations,    \* 2^32 in the code: the counter wraps; more than
                    \* MaxItems, or a waiter could sleep through a whole turn
    Nobody          \* who holds a mutex that is free

ASSUME CondAssumption ==
    /\ Consumers \intersect Producers = {}
    /\ Nobody \notin Consumers \union Producers
    /\ MaxItems \in Nat /\ Generations \in Nat /\ Generations > MaxItems

VARIABLES
    generation, \* cond->generation
    mutex,      \* holder of the mutex
    at,         \* where a client is
    seen,       \* the generation a waiter has read
    answer,     \* what the last wait of a consumer returned
    items,      \* the clients' predicate: items there to take
    put         \* items put so far

condVars == <<generation, mutex, at, seen, answer, items, put>>

Callers == Consumers \union Producers

(* A condition variable that nobody waits for: as osal_cond_init leaves it,  *)
(* or after any number of earlier signals.                                  *)
CondInit ==
    /\ generation \in 0 .. Generations - 1
    /\ mutex = Nobody
    /\ at = [p \in Callers |-> "idle"]
    /\ seen = [c \in Consumers |-> 0]
    /\ answer = [c \in Consumers |-> "none"]
    /\ items = 0
    /\ put = 0

Goto(p, place) == at' = [at EXCEPT ![p] = place]

(* A client takes the mutex.                                                *)
Lock(p) ==
    /\ at[p] = "idle"
    /\ p \in Producers => put < MaxItems
    /\ mutex = Nobody
    /\ mutex' = p
    /\ Goto(p, "locked")
    /\ UNCHANGED <<generation, seen, answer, items, put>>

(* A consumer that finds an item takes it; one whose wait did not succeed    *)
(* gives up.                                                                *)
Take(c) ==
    /\ at[c] = "locked"
    /\ items > 0
    /\ items' = items - 1
    /\ mutex' = Nobody
    /\ answer' = [answer EXCEPT ![c] = "none"]
    /\ Goto(c, "idle")
    /\ UNCHANGED <<generation, seen, put>>

GiveUp(c) ==
    /\ at[c] = "locked"
    /\ items = 0
    /\ answer[c] \in {"timeout", "interrupted"}
    /\ mutex' = Nobody
    /\ answer' = [answer EXCEPT ![c] = "none"]
    /\ Goto(c, "idle")
    /\ UNCHANGED <<generation, seen, items, put>>

(* osal_cond_wait_common: the generation is read under the mutex ...         *)
Wait(c) ==
    /\ at[c] = "locked"
    /\ items = 0
    /\ answer[c] \in {"none", "success"}
    /\ seen' = [seen EXCEPT ![c] = generation]
    /\ Goto(c, "unlock")
    /\ UNCHANGED <<generation, mutex, answer, items, put>>

(* ... which is then unlocked.                                              *)
WaitUnlock(c) ==
    /\ at[c] = "unlock"
    /\ mutex' = Nobody
    /\ Goto(c, "waiting")
    /\ UNCHANGED <<generation, seen, answer, items, put>>

(* A faulty WaitOver that goes on only while the mutex is free.              *)
WaitOverNeedsMutex(c) ==
    /\ at[c] = "waiting"
    /\ generation # seen[c] /\ mutex = Nobody
    /\ answer' = [answer EXCEPT ![c] = "success"]
    /\ Goto(c, "relock")
    /\ UNCHANGED <<generation, mutex, seen, items, put>>

(* wait_event_interruptible(_timeout): the condition is checked before every *)
(* sleep, so a waiter whose generation is over goes on.                      *)
WaitOver(c) ==
    /\ at[c] = "waiting"
    /\ generation # seen[c]
    /\ answer' = [answer EXCEPT ![c] = "success"]
    /\ Goto(c, "relock")
    /\ UNCHANGED <<generation, mutex, seen, items, put>>

(* A faulty WaitStops that returns before the mutex is taken again.          *)
WaitStopsUnlocked(c) ==
    /\ at[c] = "waiting"
    /\ generation = seen[c]
    /\ answer' = [answer EXCEPT ![c] = "timeout"]
    /\ Goto(c, "locked")
    /\ UNCHANGED <<generation, mutex, seen, items, put>>

(* The time is over or a signal has come, and still nothing was signalled.   *)
WaitStops(c) ==
    /\ at[c] = "waiting"
    /\ generation = seen[c]
    /\ \E a \in {"timeout", "interrupted"} : answer' = [answer EXCEPT ![c] = a]
    /\ Goto(c, "relock")
    /\ UNCHANGED <<generation, mutex, seen, items, put>>

(* The mutex is taken again whatever the wait returned.                     *)
Relock(c) ==
    /\ at[c] = "relock"
    /\ mutex = Nobody
    /\ mutex' = c
    /\ Goto(c, "locked")
    /\ UNCHANGED <<generation, seen, answer, items, put>>

(* A producer puts an item, and unlocks before or after the wake-up.         *)
Put(p) ==
    /\ at[p] = "locked"
    /\ items' = items + 1
    /\ put' = put + 1
    /\ \/ Goto(p, "signal") /\ UNCHANGED mutex
       \/ Goto(p, "signal") /\ mutex' = Nobody
    /\ UNCHANGED <<generation, seen, answer>>

(* A faulty Signal for which no generation is over.                         *)
SignalWakes(p) ==
    /\ at[p] = "signal"
    /\ mutex' = IF mutex = p THEN Nobody ELSE mutex
    /\ Goto(p, "idle")
    /\ UNCHANGED <<generation, seen, answer, items, put>>

(* osal_cond_signal, osal_cond_broadcast; then the mutex is free.            *)
Signal(p) ==
    /\ at[p] = "signal"
    /\ generation' = (generation + 1) % Generations
    /\ mutex' = IF mutex = p THEN Nobody ELSE mutex
    /\ Goto(p, "idle")
    /\ UNCHANGED <<seen, answer, items, put>>

ConsumerStep(c) ==
    \/ Take(c) \/ GiveUp(c) \/ Wait(c) \/ WaitUnlock(c) \/ WaitOver(c)
    \/ Relock(c)

ProducerStep(p) == Put(p) \/ Signal(p)

CondNext ==
    \/ \E p \in Callers : Lock(p)
    \/ \E c \in Consumers : ConsumerStep(c) \/ WaitStops(c)
    \/ \E p \in Producers : ProducerStep(p)

CondSpec == CondInit /\ [][CondNext]_condVars

(* A process that can run does; the mutex is fair to those who wait for it.  *)
CondFairness ==
    /\ \A c \in Consumers : WF_condVars(ConsumerStep(c)) /\ SF_condVars(Relock(c))
    /\ \A p \in Producers : WF_condVars(ProducerStep(p))

FairCondSpec == CondSpec /\ CondFairness

-----------------------------------------------------------------------------
ClientPlaces == {"idle", "locked", "unlock", "waiting", "relock", "signal"}

CondTypeOK ==
    /\ generation \in 0 .. Generations - 1
    /\ mutex \in Callers \union {Nobody}
    /\ at \in [Callers -> ClientPlaces]
    /\ seen \in [Consumers -> 0 .. Generations - 1]
    /\ answer \in [Consumers -> {"none", "success", "timeout", "interrupted"}]
    /\ items \in 0 .. MaxItems
    /\ put \in 0 .. MaxItems

(* The places of the clients' code that run under the mutex exclude each     *)
(* other: a wait returns with the mutex, and gives it up exactly once.       *)
ClientsExclude ==
    \A p \in Callers :
       /\ at[p] \in {"locked", "unlock"} => mutex = p
       /\ mutex = p => at[p] \in {"locked", "unlock", "signal"}

(* No wake-up is lost: a consumer that will go on sleeping although an item  *)
(* is there sleeps only until a producer, who is on the way to signal, does. *)
NoLostWakeup ==
    \A c \in Consumers :
       at[c] \in {"unlock", "waiting"} /\ seen[c] = generation /\ items > 0 =>
          \E p \in Producers : at[p] = "signal"

(* What a client may rely on, after a signal, a timeout or an interruption   *)
(* (osal_cond_wait, osal_cond_timedwait): it comes back with the mutex, and   *)
(* no wake-up is lost.                                                      *)
WaitKeepsMutex == ClientsExclude /\ NoLostWakeup

(* A wait that an item was put after returns, whoever else is awake.         *)
WaitReturns ==
    \A c \in Consumers : at[c] = "waiting" /\ items > 0 ~> at[c] # "waiting"
-----------------------------------------------------------------------------
(* Why it holds.  A producer that has put an item signals once, so there      *)
(* were at most as many signals as items put, and fewer than the generation   *)
(* has values: a sleeper that sees its own generation has seen no signal at   *)
(* all, and whatever was put meanwhile is still to be signalled.             *)
Signalling == {p \in Producers : at[p] = "signal"}

(* A producer takes the mutex only while it has an item left to put.         *)
ItemsInv ==
    /\ items <= put
    /\ \A p \in Producers : at[p] = "locked" => put < MaxItems

SignalsInv == IsFiniteSet(Signalling) /\ Cardinality(Signalling) <= put

(* The generation is k signals further than the one a sleeper has read.      *)
Ahead(c, k) ==
    /\ generation = seen[c] + k \/ generation = seen[c] + k - Generations
    /\ k = 0 /\ items > 0 => Signalling # {}

SleepersInv ==
    \A c \in Consumers : at[c] \in {"unlock", "waiting"} =>
       \E k \in 0 .. put - Cardinality(Signalling) : Ahead(c, k)

CondInv ==
    /\ CondTypeOK
    /\ ClientsExclude
    /\ ItemsInv
    /\ SignalsInv
    /\ SleepersInv

LEMMA InitCondInv == CondInit => CondInv
<1> SUFFICES ASSUME CondInit PROVE CondInv
    OBVIOUS
<1> USE CondAssumption DEF CondInit, Callers
<1>1. CondTypeOK
    BY DEF CondTypeOK, ClientPlaces
<1>2. Signalling = {}
    BY DEF Signalling
<1>3. SignalsInv
    BY <1>2, FS_EmptySet DEF SignalsInv
<1>4. ClientsExclude /\ ItemsInv /\ SleepersInv
    BY DEF ClientsExclude, ItemsInv, SleepersInv
<1> QED
    BY <1>1, <1>3, <1>4 DEF CondInv

(* A step that moves no producer to or from the signal leaves these alone.    *)
LEMMA SameSignalling ==
    ASSUME CondTypeOK, NEW p \in Callers, NEW place,
           at' = [at EXCEPT ![p] = place],
           p \in Producers => at[p] # "signal" /\ place # "signal"
    PROVE  Signalling' = Signalling
BY CondAssumption DEF Signalling, CondTypeOK, Callers

(* The generation of the next signal, without division.                      *)
LEMMA NextGeneration ==
    ASSUME NEW g \in 0 .. Generations - 1
    PROVE  (g + 1) % Generations = IF g + 1 = Generations THEN 0 ELSE g + 1
BY CondAssumption

LEMMA LockKeeps ==
    ASSUME CondInv, NEW p \in Callers, Lock(p)
    PROVE  CondInv'
<1> USE CondAssumption DEF CondInv, Lock, Goto, Callers
<1>1. CondTypeOK'
    BY DEF CondTypeOK, ClientPlaces
<1>2. Signalling' = Signalling
    BY SameSignalling DEF CondTypeOK
<1>3. ClientsExclude'
    BY DEF ClientsExclude, CondTypeOK
<1>4. ItemsInv'
    BY DEF ItemsInv, CondTypeOK
<1>5. SignalsInv'
    BY <1>2 DEF SignalsInv
<1>6. SleepersInv'
    BY <1>2 DEF SleepersInv, Ahead, CondTypeOK
<1> QED
    BY <1>1, <1>3, <1>4, <1>5, <1>6

LEMMA ConsumerKeeps ==
    ASSUME CondInv, NEW c \in Consumers, ConsumerStep(c) \/ WaitStops(c)
    PROVE  CondInv'
<1> USE CondAssumption DEF CondInv, Goto, Callers
<1>1. CondTypeOK'
    BY DEF CondTypeOK, ClientPlaces, ConsumerStep, Take, GiveUp, Wait, WaitUnlock,
           WaitOver, WaitStops, Relock
<1>2. Signalling' = Signalling
    BY SameSignalling DEF ConsumerStep, Take, GiveUp, Wait, WaitUnlock, WaitOver,
                          WaitStops, Relock
<1>3. ClientsExclude'
    BY DEF ClientsExclude, CondTypeOK, ConsumerStep, Take, GiveUp, Wait, WaitUnlock,
           WaitOver, WaitStops, Relock
<1>4. ItemsInv'
    BY DEF ItemsInv, CondTypeOK, ConsumerStep, Take, GiveUp, Wait, WaitUnlock,
           WaitOver, WaitStops, Relock
<1>5. SignalsInv'
    BY <1>2 DEF SignalsInv, ConsumerStep, Take, GiveUp, Wait, WaitUnlock, WaitOver,
           WaitStops, Relock
<1>6. SleepersInv'
    <2>1. CASE Wait(c)
        <3>1. 0 \in 0 .. put - Cardinality(Signalling)
            BY FS_CardinalityType DEF SignalsInv, CondTypeOK
        <3>2. Ahead(c, 0)'
            BY <2>1 DEF Ahead, Wait, CondTypeOK
        <3>3. ASSUME NEW d \in Consumers, d # c, at[d]' \in {"unlock", "waiting"}
              PROVE  \E k \in 0 .. put - Cardinality(Signalling) : Ahead(d, k)'
            BY <2>1, <3>3, <1>2 DEF SleepersInv, Ahead, Wait, CondTypeOK
        <3> QED
            BY <2>1, <3>1, <3>2, <3>3, <1>2 DEF SleepersInv, Wait
    <2>2. CASE Take(c)
        BY <2>2, <1>2 DEF SleepersInv, Ahead, Take, CondTypeOK
    <2>3. CASE GiveUp(c) \/ WaitUnlock(c) \/ Relock(c)
        BY <2>3, <1>2 DEF SleepersInv, Ahead, GiveUp, WaitUnlock, Relock, CondTypeOK
    <2>4. CASE WaitOver(c) \/ WaitStops(c)
        BY <2>4, <1>2 DEF SleepersInv, Ahead, WaitOver, WaitStops, CondTypeOK
    <2> QED
        BY <2>1, <2>2, <2>3, <2>4 DEF ConsumerStep
<1> QED
    BY <1>1, <1>3, <1>4, <1>5, <1>6

LEMMA PutKeeps ==
    ASSUME CondInv, NEW p \in Producers, Put(p)
    PROVE  CondInv'
<1> USE CondAssumption DEF CondInv, Goto, Callers, Put
<1>1. CondTypeOK'
    BY DEF CondTypeOK, ClientPlaces, ItemsInv
<1>2. Signalling' = Signalling \union {p} /\ p \notin Signalling
    BY DEF Signalling, CondTypeOK
<1>3. /\ IsFiniteSet(Signalling')
      /\ Cardinality(Signalling') = Cardinality(Signalling) + 1
    BY <1>2, FS_AddElement DEF SignalsInv
<1>4. ClientsExclude'
    BY DEF ClientsExclude, CondTypeOK
<1>5. ItemsInv'
    BY DEF ItemsInv, CondTypeOK, ClientsExclude
<1>6. SignalsInv'
    BY <1>3, FS_CardinalityType DEF SignalsInv, CondTypeOK
<1>7. SleepersInv'
    <2>1. put' - Cardinality(Signalling)' = put - Cardinality(Signalling)
        BY <1>3, FS_CardinalityType DEF SignalsInv, CondTypeOK
    <2> QED
        BY <2>1, <1>2 DEF SleepersInv, Ahead, CondTypeOK
<1> QED
    BY <1>1, <1>4, <1>5, <1>6, <1>7

LEMMA SignalKeeps ==
    ASSUME CondInv, NEW p \in Producers, Signal(p)
    PROVE  CondInv'
<1> USE CondAssumption DEF CondInv, Goto, Callers
<1>1. generation' = IF generation + 1 = Generations THEN 0 ELSE generation + 1
    BY NextGeneration DEF CondTypeOK, Signal
<1> USE DEF Signal
<1>2. CondTypeOK'
    BY <1>1 DEF CondTypeOK, ClientPlaces
<1>3. Signalling' = Signalling \ {p} /\ p \in Signalling
    BY DEF Signalling, CondTypeOK
<1>4. /\ IsFiniteSet(Signalling')
      /\ Cardinality(Signalling') = Cardinality(Signalling) - 1
    BY <1>3, FS_RemoveElement DEF SignalsInv
<1>5. ClientsExclude'
    BY DEF ClientsExclude, CondTypeOK
<1>6. ItemsInv'
    BY DEF ItemsInv, CondTypeOK
<1>7. SignalsInv'
    BY <1>4, FS_CardinalityType DEF SignalsInv, CondTypeOK
<1>8. SleepersInv'
    <2> SUFFICES ASSUME NEW c \in Consumers, at[c]' \in {"unlock", "waiting"}
                 PROVE  \E k \in 0 .. (put - Cardinality(Signalling))' : Ahead(c, k)'
        BY DEF SleepersInv
    <2>1. at[c] \in {"unlock", "waiting"}
        BY DEF CondTypeOK
    <2>2. PICK k \in 0 .. put - Cardinality(Signalling) : Ahead(c, k)
        BY <2>1 DEF SleepersInv
    <2>3. k + 1 \in 0 .. (put - Cardinality(Signalling))'
        BY <2>2, <1>4, FS_CardinalityType DEF SignalsInv, CondTypeOK
    <2>4. k + 1 < Generations + 1
        BY <2>2, FS_CardinalityType DEF SignalsInv, CondTypeOK
    <2>5. Ahead(c, k + 1)'
        BY <2>2, <2>4, <1>1 DEF Ahead, CondTypeOK
    <2> QED
        BY <2>3, <2>5
<1> QED
    BY <1>2, <1>5, <1>6, <1>7, <1>8

LEMMA StepCondInv == CondInv /\ [CondNext]_condVars => CondInv'
<1> SUFFICES ASSUME CondInv, [CondNext]_condVars PROVE CondInv'
    OBVIOUS
<1>1. CASE UNCHANGED condVars
    BY <1>1 DEF condVars, CondInv, CondTypeOK, ClientsExclude, ItemsInv, SignalsInv,
                Signalling, SleepersInv, Ahead
<1>2. CASE CondNext
    BY <1>2, LockKeeps, ConsumerKeeps, PutKeeps, SignalKeeps DEF CondNext, ProducerStep
<1> QED
    BY <1>1, <1>2

THEOREM CondInvariant == CondSpec => []CondInv
BY InitCondInv, StepCondInv, PTL DEF CondSpec

(* Everything keeps its type, and the generation stays within its bits.      *)
THEOREM CondTypes == CondSpec => []CondTypeOK
<1>1. CondInv => CondTypeOK
    BY DEF CondInv
<1> QED
    BY <1>1, CondInvariant, PTL

(* For all clients and items, as long as the counter does not go all the way *)
(* round: who comes back from a wait has the mutex, and no wake-up is lost.  *)
THEOREM WaitsAreSound == CondSpec => []WaitKeepsMutex
<1>1. CondInv => WaitKeepsMutex
    <2> SUFFICES ASSUME CondInv PROVE NoLostWakeup
        BY DEF WaitKeepsMutex, CondInv
    <2> SUFFICES ASSUME NEW c \in Consumers, at[c] \in {"unlock", "waiting"},
                        seen[c] = generation, items > 0
                 PROVE  Signalling # {}
        BY DEF NoLostWakeup, Signalling
    <2>1. PICK k \in 0 .. put - Cardinality(Signalling) : Ahead(c, k)
        BY DEF CondInv, SleepersInv
    <2>2. k < Generations
        BY <2>1, CondAssumption, FS_CardinalityType DEF CondInv, SignalsInv, CondTypeOK
    <2>3. k = 0
        BY <2>1, <2>2, CondAssumption DEF Ahead, CondInv, CondTypeOK
    <2> QED
        BY <2>1, <2>3 DEF Ahead
<1> QED
    BY <1>1, CondInvariant, PTL
=============================================================================
