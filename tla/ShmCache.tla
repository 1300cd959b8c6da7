------------------------------ MODULE ShmCache ------------------------------
(***************************************************************************)
(* The shared memory cache of the user OSAL (user/osal/src/ipc/              *)
(* osal_shm_cache.c): processes create, open and delete a named cache in     *)
(* shared memory and read and write its entries under a mutex that lies in   *)
(* the shared memory too.  One name and one entry; the data of the entry is  *)
(* a pair, copied one half after the other.                                  *)
(*                                                                          *)
(* Freedoms lists what the processes do beyond the calmest use, in which one *)
(* of them creates the cache before the others open it and deletes it when   *)
(* it is the last that uses it: "open" while another creates or deletes it,  *)
(* "create" a name that exists, "delete" what others have open, "crash".     *)
(***************************************************************************)
EXTENDS Integers

CONSTANTS
    Users,    \* processes, of one thread each
    Objects,    \* shared memory objects: one per creation of the name
    Values,     \* what a write stores; 0 stands for cleared memory
    Freedoms,
    Null

CacheAssumption ==
    /\ Freedoms \subseteq {"open", "create", "delete", "crash"}
    /\ Null \notin Users \union Objects
    /\ 0 \notin Values

ASSUME CacheConstants == CacheAssumption

VARIABLES
    name,       \* the object the name refers to
    mem,        \* contents of the objects
    used,       \* objects made so far
    at,         \* [Users -> object mapped]
    pc,
    value,      \* what a writer stores
    copy        \* what a reader has copied; its result when it is done

vars == <<name, mem, used, at, pc, value, copy>>

(* shm_cache_header_t and osal_cache_entry_t.  The mutex is "zero" (cleared  *)
(* memory, which locks and unlocks like a new mutex), "ready" or "destroyed" *)
(* (every lock and unlock returns an error that no caller looks at).         *)
Cleared == [magic |-> FALSE, mutex |-> "zero", holder |-> Null,
            valid |-> FALSE, data |-> <<0, 0>>]

Init ==
    /\ name = Null
    /\ mem = [o \in Objects |-> Cleared]
    /\ used = {}
    /\ at = [p \in Users |-> Null]
    /\ pc = [p \in Users |-> "out"]
    /\ value = [p \in Users |-> 0]
    /\ copy = [p \in Users |-> <<0, 0>>]

Goto(p, place) == pc' = [pc EXCEPT ![p] = place]
Mappers(o) == {p \in Users : at[p] = o}
Creating == {"clear", "magic", "mutex", "entries"}

-----------------------------------------------------------------------------
(* osal_cache_create: shm_open with O_CREAT finds the object of the name or  *)
(* makes one; ftruncate, mmap.                                              *)
CreateOpen(p) ==
    /\ pc[p] = "out"
    /\ "create" \in Freedoms \/ (name = Null /\ at = [q \in Users |-> Null])
    /\ \/ name # Null /\ at' = [at EXCEPT ![p] = name] /\ UNCHANGED <<name, used>>
       \/ /\ name = Null
          /\ \E o \in Objects \ used : name' = o /\ at' = [at EXCEPT ![p] = o]
          /\ used' = used \union {name'}
    /\ Goto(p, "clear")
    /\ UNCHANGED <<mem, value, copy>>

(* ftruncate or mmap fails: the name goes, whoever made it.                  *)
CreateFails(p) ==
    /\ pc[p] = "clear"
    /\ name' = Null
    /\ at' = [at EXCEPT ![p] = Null]
    /\ Goto(p, "out")
    /\ UNCHANGED <<mem, used, value, copy>>

CreateClear(p) ==
    /\ pc[p] = "clear"
    /\ mem' = [mem EXCEPT ![at[p]] = Cleared]
    /\ Goto(p, "magic")
    /\ UNCHANGED <<name, used, at, value, copy>>

CreateMagic(p) ==
    /\ pc[p] = "magic"
    /\ mem' = [mem EXCEPT ![at[p]].magic = TRUE]
    /\ Goto(p, "mutex")
    /\ UNCHANGED <<name, used, at, value, copy>>

CreateMutex(p) ==
    /\ pc[p] = "mutex"
    /\ mem' = [mem EXCEPT ![at[p]].mutex = "ready", ![at[p]].holder = Null]
    /\ Goto(p, "entries")
    /\ UNCHANGED <<name, used, at, value, copy>>

CreateEntries(p) ==
    /\ pc[p] = "entries"
    /\ mem' = [mem EXCEPT ![at[p]].valid = FALSE]
    /\ Goto(p, "idle")
    /\ UNCHANGED <<name, used, at, value, copy>>

(* osal_cache_open: only an object with the magic number.                   *)
Open(p) ==
    /\ pc[p] = "out"
    /\ name # Null /\ mem[name].magic
    /\ "open" \in Freedoms \/ \A q \in Users : pc[q] \notin Creating \union {"unlink"}
    /\ at' = [at EXCEPT ![p] = name]
    /\ Goto(p, "idle")
    /\ UNCHANGED <<name, mem, used, value, copy>>

(* osal_cache_delete: a mutex that is held is not destroyed.                *)
DeleteMutex(p) ==
    /\ pc[p] = "idle"
    /\ "delete" \in Freedoms \/ Mappers(at[p]) = {p}
    /\ mem' = [mem EXCEPT ![at[p]].mutex =
                 IF mem[at[p]].holder = Null THEN "destroyed" ELSE @]
    /\ Goto(p, "unlink")
    /\ UNCHANGED <<name, used, at, value, copy>>

(* munmap, and shm_unlink of the name, whatever it refers to by now.         *)
DeleteUnlink(p) ==
    /\ pc[p] = "unlink"
    /\ name' = Null
    /\ at' = [at EXCEPT ![p] = Null]
    /\ Goto(p, "out")
    /\ UNCHANGED <<mem, used, value, copy>>

-----------------------------------------------------------------------------
(* pthread_mutex_lock and pthread_mutex_unlock, by a process that looks at   *)
(* neither result; an unlock opens the mutex for whoever holds it.           *)
CanLock(p) == mem[at[p]].mutex = "destroyed" \/ mem[at[p]].holder = Null
Locked(p) == IF mem[at[p]].mutex = "destroyed" THEN Null ELSE p

(* osal_cache_write and osal_cache_read lock ...                            *)
WriteLock(p, v) ==
    /\ pc[p] = "idle"
    /\ CanLock(p)
    /\ mem' = [mem EXCEPT ![at[p]].holder = Locked(p)]
    /\ value' = [value EXCEPT ![p] = v]
    /\ Goto(p, "write")
    /\ UNCHANGED <<name, used, at, copy>>

WriteHalf(p) ==
    /\ pc[p] = "write"
    /\ mem' = [mem EXCEPT ![at[p]].data[1] = value[p]]
    /\ Goto(p, "writing")
    /\ UNCHANGED <<name, used, at, value, copy>>

(* A faulty WriteRest that unlocks before all of the data is there.          *)
WriteUnlockEarly(p) ==
    /\ pc[p] = "writing"
    /\ \/ /\ mem[at[p]].holder = p
          /\ mem' = [mem EXCEPT ![at[p]].valid = TRUE, ![at[p]].holder = Null]
          /\ Goto(p, "writing")
       \/ /\ mem[at[p]].holder # p
          /\ mem' = [mem EXCEPT ![at[p]].data[2] = value[p]]
          /\ Goto(p, "idle")
    /\ UNCHANGED <<name, used, at, value, copy>>

(* ... and the rest of the data is there before the entry is valid, and the  *)
(* mutex is unlocked.                                                       *)
WriteRest(p) ==
    /\ pc[p] = "writing"
    /\ mem' = [mem EXCEPT ![at[p]].data[2] = value[p], ![at[p]].valid = TRUE,
                          ![at[p]].holder = Null]
    /\ Goto(p, "idle")
    /\ UNCHANGED <<name, used, at, value, copy>>

ReadLock(p) ==
    /\ pc[p] = "idle"
    /\ CanLock(p)
    /\ mem' = [mem EXCEPT ![at[p]].holder = Locked(p)]
    /\ Goto(p, "read")
    /\ UNCHANGED <<name, used, at, value, copy>>

(* A faulty ReadInvalid that waits for a first write with the mutex held.    *)
ReadInvalidWaits(p) ==
    /\ pc[p] = "read"
    /\ ~mem[at[p]].valid
    /\ UNCHANGED vars

(* An entry that was never written is not read.                             *)
ReadInvalid(p) ==
    /\ pc[p] = "read"
    /\ ~mem[at[p]].valid
    /\ mem' = [mem EXCEPT ![at[p]].holder = Null]
    /\ Goto(p, "idle")
    /\ UNCHANGED <<name, used, at, value, copy>>

ReadHalf(p) ==
    /\ pc[p] = "read"
    /\ mem[at[p]].valid
    /\ copy' = [copy EXCEPT ![p][1] = mem[at[p]].data[1]]
    /\ Goto(p, "reading")
    /\ UNCHANGED <<name, mem, used, at, value>>

ReadRest(p) ==
    /\ pc[p] = "reading"
    /\ copy' = [copy EXCEPT ![p][2] = mem[at[p]].data[2]]
    /\ mem' = [mem EXCEPT ![at[p]].holder = Null]
    /\ Goto(p, "idle")
    /\ UNCHANGED <<name, used, at, value>>

(* A process dies: its mapping goes, the mutex stays as it is.  (Not *)
(* between the two steps of a delete, unless deletes are free anyway.)       *)
Crash(p) ==
    /\ "crash" \in Freedoms
    /\ at[p] # Null
    /\ "delete" \in Freedoms \/ pc[p] # "unlink"
    /\ at' = [at EXCEPT ![p] = Null]
    /\ copy' = [copy EXCEPT ![p] = <<0, 0>>]
    /\ Goto(p, "out")
    /\ UNCHANGED <<name, mem, used, value>>

-----------------------------------------------------------------------------
Access(p) ==
    \/ WriteHalf(p) \/ WriteRest(p)
    \/ ReadInvalid(p) \/ ReadHalf(p) \/ ReadRest(p)

Create(p) ==
    \/ CreateFails(p) \/ CreateClear(p) \/ CreateMagic(p) \/ CreateMutex(p)
    \/ CreateEntries(p)

Next == \E p \in Users :
    \/ CreateOpen(p) \/ Create(p) \/ Open(p)
    \/ DeleteMutex(p) \/ DeleteUnlink(p)
    \/ (\E v \in Values : WriteLock(p, v)) \/ ReadLock(p) \/ Access(p)
    \/ Crash(p)

Spec == Init /\ [][Next]_vars

(* A process inside a call goes on.                                         *)
Fairness == \A p \in Users : WF_vars(Access(p))

FairSpec == Spec /\ Fairness

-----------------------------------------------------------------------------
Inside == {"write", "writing", "read", "reading"}

TypeOK ==
    /\ name \in Objects \union {Null}
    /\ mem \in [Objects -> [magic : BOOLEAN,
                            mutex : {"zero", "ready", "destroyed"},
                            holder : Users \union {Null},
                            valid : BOOLEAN,
                            data : (Values \union {0}) \X (Values \union {0})]]
    /\ used \subseteq Objects
    /\ at \in [Users -> Objects \union {Null}]
    /\ pc \in [Users -> {"out", "idle", "unlink"} \union Creating \union Inside]
    /\ \A p \in Users : pc[p] = "out" <=> at[p] = Null
    /\ value \in [Users -> Values \union {0}]
    /\ copy \in [Users -> (Values \union {0}) \X (Values \union {0})]

(* A read returns the data of one write: never half of one and half of       *)
(* another, and never cleared memory (osal_cache_read, osal_cache_write).   *)
ReadIsWhole ==
    \A p \in Users :
       /\ pc[p] = "idle" => copy[p][1] = copy[p][2]
       /\ pc[p] = "reading" => copy[p][1] # 0

(* A process that has a cache open can get at its entries again and again:   *)
(* the mutex it needs does not stay locked.                                 *)
MutexIsReleased ==
    \A o \in Objects : []<>(mem[o].holder = Null)
-----------------------------------------------------------------------------
(* Why a read is whole while the cache is used as it is meant to be, also     *)
(* when processes die inside its calls: what is mapped is what the name       *)
(* refers to, its mutex is in use, and the two halves of the data differ only  *)
(* while the mutex has a holder, dead or alive, who is not reading.           *)
Whole(pair) == pair[1] = pair[2]

(* An object that was never used is as the system makes it, and who creates   *)
(* or deletes an object is the only one that has anything mapped.            *)
NameIsUsed == name # Null => name \in used
UnusedIsCleared == \A o \in Objects : o \notin used => mem[o] = Cleared
MappedIsNamed == \A p \in Users : at[p] # Null => at[p] = name
MakersAreAlone == \A p, q \in Users :
    pc[p] \in Creating \union {"unlink"} /\ at[q] # Null => p = q

NameInv == NameIsUsed /\ UnusedIsCleared /\ MappedIsNamed /\ MakersAreAlone

(* The mutex of the name is destroyed only by who is about to unlink it, and  *)
(* a process inside a read or a write holds it.                              *)
NameIsUsable ==
    name # Null /\ mem[name].mutex = "destroyed" => \E p \in Users : pc[p] = "unlink"
InsideHolds == \A p \in Users : pc[p] \in Inside => mem[at[p]].holder = p
NewIsFree == \A p \in Users : pc[p] \in Creating => mem[at[p]].holder = Null

HolderInv == NameIsUsable /\ InsideHolds /\ NewIsFree

FreeIsWhole == \A o \in Objects : mem[o].holder = Null => Whole(mem[o].data)
AccessIsWhole == \A p \in Users :
    /\ pc[p] \in {"write", "read", "reading"} => Whole(mem[at[p]].data)
    /\ pc[p] = "writing" => mem[at[p]].data[1] = value[p]
CopyIsWhole == \A p \in Users :
    IF pc[p] = "reading" THEN copy[p][1] = mem[at[p]].data[1] ELSE Whole(copy[p])

DataInv == FreeIsWhole /\ AccessIsWhole /\ CopyIsWhole

(* An entry that is valid was written to since its memory was cleared.       *)
ValidIsWritten ==
    /\ \A o \in Objects : mem[o].valid => mem[o].data[1] # 0
    /\ \A p \in Users : /\ pc[p] \in {"write", "writing"} => value[p] # 0
                        /\ pc[p] = "reading" => copy[p][1] # 0

CacheInv == TypeOK /\ NameInv /\ HolderInv /\ DataInv /\ ValidIsWritten
=============================================================================
