------------------------------- MODULE ShmTable -------------------------------
(***************************************************************************)
(* Shared memory with handles (user/osal/src/ipc/osal_shm_highlevel.c): a       *)
(* handle is an index of a table, which keeps a descriptor and a size for it.   *)
(* Every process has a table of its own and no lock for it; the objects, which   *)
(* have names, and sizes that a creation sets, belong to all.  Linux is           *)
(* modelled by what it does: a removed object stays until nobody has it.        *)
(***************************************************************************)
EXTENDS Integers, FiniteSets

CONSTANTS
    Threads,
    ProcessOf,      (* the process of a thread                                *)
    Names, Objects,
    Sizes,
    Slots,          (* MAX_SHM_HANDLES: entries of a table                      *)
    Fds,            (* descriptors a process can have: from 0, which it has      *)
    Careless,       (* does a process close handle 0 without having it          *)
    None

TableAssumption ==
    /\ Sizes \subseteq Nat \ {0} /\ Slots \in Nat \ {0} /\ 0 \in Fds /\ Fds \subseteq Nat
    /\ None \notin Objects \union Names \union {"stdin"}

Procs == {ProcessOf[t] : t \in Threads}
Handles == 0 .. Slots - 1
Free == [fd |-> -1, size |-> 0]

VARIABLES
    shm_table, shm_table_initialized,       (* of every process                *)
    open,           (* what a descriptor leads to                             *)
    named,          (* the object a name stands for, or None                    *)
    length,         (* of an object: ftruncate                                 *)
    mapped,         (* the memory a process has mapped: objects and lengths      *)
    owned,          (* the handles a process has, and the objects it got them for *)
    tablePc, got, found, asks   (* a call of a thread: where it is, its           *)
                    (* descriptor, its entry of the table, its size              *)

tableVars == <<shm_table, shm_table_initialized>>
systemVars == <<open, named, length, mapped>>
shmVars == <<tableVars, systemVars, owned, tablePc, got, found, asks>>

(* Static memory is zero until _init_shm_table has run; descriptor 0 is open.  *)
Init ==
    /\ shm_table = [p \in Procs |-> [h \in Handles |-> [fd |-> 0, size |-> 0]]]
    /\ shm_table_initialized = [p \in Procs |-> FALSE]
    /\ open = [p \in Procs |-> [d \in Fds |-> IF d = 0 THEN "stdin" ELSE None]]
    /\ named = [n \in Names |-> None]
    /\ length = [o \in Objects |-> 0]
    /\ mapped = [p \in Procs |-> {}]
    /\ owned = [p \in Procs |-> {}]
    /\ tablePc = [t \in Threads |-> "idle"]
    /\ got = [t \in Threads |-> -1] /\ found = [t \in Threads |-> -1]
    /\ asks = [t \in Threads |-> 0]

Goto(t, from, to) == tablePc[t] = from /\ tablePc' = [tablePc EXCEPT ![t] = to]

(* An object somebody can still reach.                                       *)
Reached ==
    {named[n] : n \in Names}
      \union {open[p][d] : p \in Procs, d \in Fds}
      \union UNION {{m.object : m \in mapped[p]} : p \in Procs}

NewFd(p) == CHOOSE d \in Fds : open[p][d] = None /\ \A e \in Fds : open[p][e] = None => d <= e

(* osal_shm_create: shm_open and, with OSAL_SHM_CREATE, ftruncate, which fails   *)
(* on a descriptor that is for reading only (the flag OSAL_SHM_RDONLY): then     *)
(* it is closed again, and what shm_open has created stays, empty.              *)
Create(t) ==
    LET p == ProcessOf[t] IN
    /\ \E d \in Fds : open[p][d] = None
    /\ \E n \in Names, size \in Sizes, create \in BOOLEAN, readOnly \in BOOLEAN :
          /\ named[n] = None => create /\ Objects \ Reached # {}
          /\ LET fresh == named[n] = None
                 o == IF fresh THEN CHOOSE o \in Objects \ Reached : TRUE ELSE named[n]
                 fails == create /\ readOnly
             IN /\ named' = [named EXCEPT ![n] = o]
                /\ length' = [length EXCEPT ![o] =
                     IF create /\ ~fails THEN size ELSE IF fresh THEN 0 ELSE @]
                /\ IF fails
                   THEN UNCHANGED <<open, got, asks, tablePc>>
                   ELSE /\ Goto(t, "idle", "alloc")
                        /\ open' = [open EXCEPT ![p][NewFd(p)] = o]
                        /\ got' = [got EXCEPT ![t] = NewFd(p)]
                        /\ asks' = [asks EXCEPT ![t] = size]
    /\ tablePc[t] = "idle"
    /\ UNCHANGED <<tableVars, mapped, owned, found>>

(* A slip: a full table is not looked for.                                   *)
AllocFirst(t) ==
    LET p == ProcessOf[t] IN
    /\ Goto(t, "alloc", "write")
    /\ shm_table_initialized' = [shm_table_initialized EXCEPT ![p] = TRUE]
    /\ shm_table' = IF shm_table_initialized[p] THEN shm_table
                    ELSE [shm_table EXCEPT ![p] = [h \in Handles |-> Free]]
    /\ found' = [found EXCEPT ![t] = 0]
    /\ UNCHANGED <<systemVars, owned, got, asks>>

(* _init_shm_table, and _alloc_shm_handle looks for the first free entry ...     *)
Alloc(t) ==
    LET p == ProcessOf[t]
        table == IF shm_table_initialized[p] THEN shm_table[p] ELSE [h \in Handles |-> Free]
        free == {h \in Handles : table[h].fd = -1}
    IN
    /\ shm_table_initialized' = [shm_table_initialized EXCEPT ![p] = TRUE]
    /\ shm_table' = [shm_table EXCEPT ![p] = table]
    /\ IF free = {}
       THEN Goto(t, "alloc", "full") /\ UNCHANGED found
       ELSE /\ Goto(t, "alloc", "write")
            /\ found' = [found EXCEPT ![t] = CHOOSE h \in free : \A i \in free : h <= i]
    /\ UNCHANGED <<systemVars, owned, got, asks>>

(* ... and takes it: the handle is the caller's.                              *)
AllocWrite(t) ==
    LET p == ProcessOf[t] IN
    /\ Goto(t, "write", "idle")
    /\ shm_table' = [shm_table EXCEPT ![p][found[t]] = [fd |-> got[t], size |-> asks[t]]]
    /\ owned' = [owned EXCEPT ![p] =
                   @ \union {[handle |-> found[t], object |-> open[p][got[t]]]}]
    /\ got' = [got EXCEPT ![t] = -1] /\ found' = [found EXCEPT ![t] = -1]
    /\ asks' = [asks EXCEPT ![t] = 0]
    /\ UNCHANGED <<shm_table_initialized, systemVars>>

(* A slip: the descriptor stays open when there is no entry for it.            *)
CreateFullKeeps(t) ==
    /\ Goto(t, "full", "idle")
    /\ got' = [got EXCEPT ![t] = -1] /\ asks' = [asks EXCEPT ![t] = 0]
    /\ UNCHANGED <<tableVars, systemVars, owned, found>>

(* The table is full: the descriptor is closed, OSAL_ERR_NO_MEMORY.            *)
CreateFull(t) ==
    /\ Goto(t, "full", "idle")
    /\ open' = [open EXCEPT ![ProcessOf[t]][got[t]] = None]
    /\ got' = [got EXCEPT ![t] = -1] /\ asks' = [asks EXCEPT ![t] = 0]
    /\ UNCHANGED <<tableVars, named, length, mapped, owned, found>>

(* _get_shm_context.                                                         *)
HasContext(p, h) == h \in Handles /\ shm_table[p][h].fd # -1

(* osal_shm_map with length 0: the size that was given to osal_shm_create.      *)
Map(t) ==
    LET p == ProcessOf[t] IN
    /\ tablePc[t] = "idle"
    /\ \E o \in owned[p] :
          LET c == shm_table[p][o.handle] IN
          /\ HasContext(p, o.handle) /\ open[p][c.fd] \in Objects
          /\ mapped' = [mapped EXCEPT ![p] =
                          @ \union {[object |-> open[p][c.fd], length |-> c.size]}]
    /\ UNCHANGED <<tableVars, open, named, length, owned, tablePc, got, found, asks>>

Unmap(t) ==
    LET p == ProcessOf[t] IN
    /\ tablePc[t] = "idle"
    /\ \E m \in mapped[p] : mapped' = [mapped EXCEPT ![p] = @ \ {m}]
    /\ UNCHANGED <<tableVars, open, named, length, owned, tablePc, got, found, asks>>

(* osal_shm_close: the descriptor, then the entry.  A careless program closes    *)
(* a handle that a failed osal_shm_create never gave it.                       *)
Close(t) ==
    LET p == ProcessOf[t] IN
    /\ Goto(t, "idle", "free")
    /\ \E h \in {o.handle : o \in owned[p]} \union (IF Careless THEN {0} ELSE {}) :
          /\ HasContext(p, h)
          /\ owned' = [owned EXCEPT ![p] = {o \in @ : o.handle # h}]
          /\ open' = [open EXCEPT ![p][shm_table[p][h].fd] = None]
          /\ found' = [found EXCEPT ![t] = h]
    /\ UNCHANGED <<tableVars, named, length, mapped, got, asks>>

(* _free_shm_handle.                                                         *)
CloseFree(t) ==
    /\ Goto(t, "free", "idle")
    /\ shm_table' = [shm_table EXCEPT ![ProcessOf[t]][found[t]] = Free]
    /\ found' = [found EXCEPT ![t] = -1]
    /\ UNCHANGED <<shm_table_initialized, systemVars, owned, got, asks>>

(* osal_shm_remove.                                                          *)
Remove(t) ==
    /\ tablePc[t] = "idle"
    /\ \E n \in Names : named[n] # None /\ named' = [named EXCEPT ![n] = None]
    /\ UNCHANGED <<tableVars, open, length, mapped, owned, tablePc, got, found, asks>>

Next == \E t \in Threads :
    \/ Create(t) \/ Alloc(t) \/ AllocWrite(t) \/ CreateFull(t)
    \/ Map(t) \/ Unmap(t) \/ Close(t) \/ CloseFree(t) \/ Remove(t)

Spec == Init /\ [][Next]_shmVars
-------------------------------------------------------------------------------
TypeOK ==
    /\ \A p \in Procs : /\ \A h \in Handles : shm_table[p][h].fd \in Fds \union {-1}
                        /\ \A d \in Fds : open[p][d] \in Objects \union {None, "stdin"}
    /\ named \in [Names -> Objects \union {None}]
    /\ tablePc \in [Threads -> {"idle", "alloc", "write", "full", "free"}]

(* A handle leads to the memory it was made for, also when the name was removed  *)
(* and stands for other memory since; the descriptors of a process are those of  *)
(* its handles and of the calls under way, one for each, and its own are left    *)
(* alone.                                                                    *)
HandlesLeadHome ==
    \A p \in Procs :
       LET underWay == {got[t] : t \in {u \in Threads : ProcessOf[u] = p}} \ {-1} IN
       /\ open[p][0] = "stdin"
       /\ \A o \in owned[p] : /\ shm_table[p][o.handle].fd # -1
                              /\ open[p][shm_table[p][o.handle].fd] = o.object
       /\ Cardinality({d \in Fds \ {0} : open[p][d] # None}) =
             Cardinality(owned[p]) + Cardinality(underWay)

(* osal_shm_highlevel.h: with length 0 all of the memory is mapped.  It is what   *)
(* osal_shm_create was told, which need not be the size there is.             *)
MapsWhole ==
    \A p \in Procs : \A m \in mapped[p] : m.length = length[m.object]
===============================================================================
