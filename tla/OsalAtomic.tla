------------------------------ MODULE OsalAtomic ------------------------------
(***************************************************************************)
(* The atomic words of the OSAL (osal/ipc/osal_atomic.h, one for the kernel    *)
(* and one for user programs).  An addition is one step.  A compare-and-        *)
(* exchange that fails is one step in a user program, and two in the kernel:    *)
(* the exchange, and another read that tells the caller what is there now,      *)
(* which by then may be what he expected.  Threads use them as they are meant   *)
(* to be used: to add and to subtract, or to read a value, work out the next    *)
(* one and put it there if nobody was faster.                                *)
(***************************************************************************)
EXTENDS Integers

CONSTANTS
    Kernel,     (* the functions of the kernel, or those of user programs    *)
    Threads,
    Amounts,    (* added and subtracted                                      *)
    Word,       (* values of the word: 2^32, 2^64, or 2 for a bool           *)
    MaxCalls    (* bound: calls of each thread                               *)

AtomicAssumption ==
    /\ Kernel \in BOOLEAN /\ Word \in Nat \ {0} /\ MaxCalls \in Nat /\ Amounts \subseteq 0 .. Word - 1

VARIABLES
    atomic,     (* the word                                                  *)
    atomicPc,   (* "idle", "exchange", "reread"                              *)
    expected,   (* *expected of a compare-and-exchange                       *)
    amount,     (* what the caller adds to it                                *)
    start,      (* history: the value the word began with,                   *)
    added,      (* what the threads have added in all, modulo Word,           *)
    calls       (* and the calls of each                                     *)

atomicVars == <<atomic, atomicPc, expected, amount, start, added, calls>>

Each(v) == [t \in Threads |-> v]

(* osal_atomic_init, _u64, _bool.                                            *)
Init ==
    /\ atomic \in 0 .. Word - 1
    /\ atomicPc = Each("idle") /\ expected = Each(0) /\ amount = Each(0)
    /\ start = atomic /\ added = 0 /\ calls = Each(0)

Counts(t, n) ==
    /\ added' = (added + n) % Word
    /\ calls' = [calls EXCEPT ![t] = @ + 1]

(* osal_atomic_fetch_add, and osal_atomic_inc, which adds one: (uint32_t) of   *)
(* an int that wraps.                                                        *)
FetchAdd(t) ==
    /\ atomicPc[t] = "idle" /\ calls[t] < MaxCalls
    /\ \E n \in Amounts :
          /\ atomic' = (atomic + n) % Word
          /\ Counts(t, n)
    /\ UNCHANGED <<atomicPc, expected, amount, start>>

(* osal_atomic_fetch_sub, osal_atomic_dec.                                   *)
FetchSub(t) ==
    /\ atomicPc[t] = "idle" /\ calls[t] < MaxCalls
    /\ \E n \in Amounts :
          /\ atomic' = (atomic - n) % Word
          /\ Counts(t, Word - n)
    /\ UNCHANGED <<atomicPc, expected, amount, start>>

(* The caller's osal_atomic_load.                                            *)
Load(t) ==
    /\ atomicPc[t] = "idle" /\ calls[t] < MaxCalls
    /\ expected' = [expected EXCEPT ![t] = atomic]
    /\ \E n \in Amounts : amount' = [amount EXCEPT ![t] = n]
    /\ atomicPc' = [atomicPc EXCEPT ![t] = "exchange"]
    /\ UNCHANGED <<atomic, start, added, calls>>

(* A slip: whatever is there is replaced.                                    *)
ExchangeBlindly(t) ==
    /\ atomicPc[t] = "exchange"
    /\ atomic' = (expected[t] + amount[t]) % Word
    /\ Counts(t, amount[t])
    /\ atomicPc' = [atomicPc EXCEPT ![t] = "idle"]
    /\ UNCHANGED <<expected, amount, start>>

(* osal_atomic_compare_exchange_strong: atomic_cmpxchg.                       *)
Exchange(t) ==
    /\ atomicPc[t] = "exchange"
    /\ IF atomic = expected[t]
       THEN /\ atomic' = (expected[t] + amount[t]) % Word
            /\ Counts(t, amount[t])
            /\ atomicPc' = [atomicPc EXCEPT ![t] = "idle"]
       ELSE /\ atomicPc' = [atomicPc EXCEPT ![t] = "reread"]
            /\ UNCHANGED <<atomic, added, calls>>
    /\ UNCHANGED <<expected, amount, start>>

(* ... which failed: *expected is what an atomic_read finds.  The caller goes   *)
(* on from there.                                                            *)
Reread(t) ==
    /\ atomicPc[t] = "reread"
    /\ expected' = [expected EXCEPT ![t] = atomic]
    /\ atomicPc' = [atomicPc EXCEPT ![t] = "exchange"]
    /\ UNCHANGED <<atomic, amount, start, added, calls>>

(* The same in a user program: atomic_compare_exchange_strong of C11.          *)
UserExchange(t) ==
    /\ atomicPc[t] = "exchange"
    /\ IF atomic = expected[t]
       THEN /\ atomic' = (expected[t] + amount[t]) % Word
            /\ Counts(t, amount[t])
            /\ atomicPc' = [atomicPc EXCEPT ![t] = "idle"]
            /\ UNCHANGED expected
       ELSE /\ expected' = [expected EXCEPT ![t] = atomic]
            /\ UNCHANGED <<atomic, added, calls, atomicPc>>
    /\ UNCHANGED <<amount, start>>

Compare(t) == IF Kernel THEN Exchange(t) \/ Reread(t) ELSE UserExchange(t)

Next == \E t \in Threads : FetchAdd(t) \/ FetchSub(t) \/ Load(t) \/ Compare(t)

Spec == Init /\ [][Next]_atomicVars
-----------------------------------------------------------------------------
TypeOK ==
    /\ atomic \in 0 .. Word - 1
    /\ atomicPc \in [Threads -> {"idle", "exchange", "reread"}]
    /\ expected \in [Threads -> 0 .. Word - 1] /\ start \in 0 .. Word - 1
    /\ added \in 0 .. Word - 1 /\ calls \in [Threads -> 0 .. MaxCalls]

(* What is in the word is what it began with and all that the threads have      *)
(* added: no addition overwrites another, whichever way it is made, and none is *)
(* counted twice because an exchange that failed is tried again.              *)
NothingIsLost == atomic = (start + added) % Word

(* An exchange that fails tells its caller a value he did not expect, as the     *)
(* function of C11 with this name does.                                      *)
FailureTellsWhy ==
    [][ \A t \in Threads : atomicPc[t] = "reread" /\ atomicPc'[t] = "exchange" =>
            expected'[t] # expected[t] ]_atomicVars
=============================================================================
