----------------------------- MODULE OsalRwlock -----------------------------
(***************************************************************************)
(* The read-write lock of the kernel OSAL (kernel/osal/src/ipc/             *)
(* osal_rwlock.c).  There is one unlock for both modes: a flag next to the  *)
(* Linux rw_semaphore tells it which mode to release.  The rw_semaphore is  *)
(* modelled by what it excludes.                                            *)
(***************************************************************************)
EXTENDS Naturals, FiniteSets

CONSTANTS Procs

VARIABLES
    holds,      \* rw_semaphore: [Procs -> {"none", "read", "write"}]
    writer,     \* rwlock->writer
    pc,         \* "out", "flag" (has the write lock, flag not yet set), "in",
                \* "up" (in unlock, after the exchange)
    mode        \* what the exchange in osal_rwlock_unlock told the process

vars == <<holds, writer, pc, mode>>

Init ==
    /\ holds = [p \in Procs |-> "none"]
    /\ writer = FALSE
    /\ pc = [p \in Procs |-> "out"]
    /\ mode = [p \in Procs |-> "none"]

(* down_read and a successful down_read_trylock.                            *)
ReadLock(p) ==
    /\ pc[p] = "out"
    /\ \A q \in Procs : holds[q] # "write"
    /\ holds' = [holds EXCEPT ![p] = "read"]
    /\ pc' = [pc EXCEPT ![p] = "in"]
    /\ UNCHANGED <<writer, mode>>

(* down_write and a successful down_write_trylock.                          *)
WriteLock(p) ==
    /\ pc[p] = "out"
    /\ \A q \in Procs : holds[q] = "none"
    /\ holds' = [holds EXCEPT ![p] = "write"]
    /\ pc' = [pc EXCEPT ![p] = "flag"]
    /\ UNCHANGED <<writer, mode>>

(* A faulty WriteFlag: the trylock that forgets the flag.                   *)
WriteFlagForgotten(p) ==
    /\ pc[p] = "flag"
    /\ pc' = [pc EXCEPT ![p] = "in"]
    /\ UNCHANGED <<holds, writer, mode>>

(* atomic_set(&rwlock->writer, 1).                                          *)
WriteFlag(p) ==
    /\ pc[p] = "flag"
    /\ writer' = TRUE
    /\ pc' = [pc EXCEPT ![p] = "in"]
    /\ UNCHANGED <<holds, mode>>

(* osal_rwlock_unlock: atomic_xchg(&rwlock->writer, 0).                     *)
Unlock(p) ==
    /\ pc[p] = "in"
    /\ mode' = [mode EXCEPT ![p] = IF writer THEN "write" ELSE "read"]
    /\ writer' = FALSE
    /\ pc' = [pc EXCEPT ![p] = "up"]
    /\ UNCHANGED holds

(* up_write or up_read: the rw_semaphore lets the others in.                *)
Release(p) ==
    /\ pc[p] = "up"
    /\ holds' = [holds EXCEPT ![p] = "none"]
    /\ pc' = [pc EXCEPT ![p] = "out"]
    /\ mode' = [mode EXCEPT ![p] = "none"]
    /\ UNCHANGED writer

Next == \E p \in Procs :
    ReadLock(p) \/ WriteLock(p) \/ WriteFlag(p) \/ Unlock(p) \/ Release(p)

Spec == Init /\ [][Next]_vars

-----------------------------------------------------------------------------
(* The flag is set only while a writer is inside.                           *)
TypeOK ==
    /\ writer => \E p \in Procs : holds[p] = "write" /\ pc[p] = "in"
    /\ holds \in [Procs -> {"none", "read", "write"}]
    /\ writer \in BOOLEAN
    /\ pc \in [Procs -> {"out", "flag", "in", "up"}]
    /\ mode \in [Procs -> {"none", "read", "write"}]

(* A process releases the mode it holds: osal_rwlock_unlock never calls      *)
(* up_write for a reader or up_read for a writer, also when a writer waits   *)
(* for the last readers or one reader after the other leaves.               *)
ReleasesWhatItHolds == \A p \in Procs : pc[p] = "up" => mode[p] = holds[p]
=============================================================================
