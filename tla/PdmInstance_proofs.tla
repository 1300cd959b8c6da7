-------------------------- MODULE PdmInstance_proofs ----------------------------
(***************************************************************************)
(* Proofs about PdmInstance, for any devices, minors, processes and readers. *)
(*                                                                         *)
(* The instance is shared by the thread that binds its device, by every    *)
(* process that has its node open and by the diagnostic files, and it      *)
(* outlives the device.  IndInv says who counts on it at every moment: the *)
(* references are the creator's, the cdev's and the files', and the mutex  *)
(* is held by whoever works on the transport.                              *)
(***************************************************************************)
EXTENDS PdmInstance, FiniteSetTheorems, TLAPS

Holders == Devices \cup Procs \cup Readers \cup {None}

(* The module's assumptions, as this module uses them.                     *)
Assumptions == InstanceAssumption /\ ReaderAssumption

Types ==
  /\ TypeOK
  /\ lock \in [Memory -> Holders]
  /\ rpc \in [Readers -> {"idle", "found", "query", "lost"}]
  /\ target \in [Readers -> Memory \cup {None}]

(* A thread works on one live instance of its device from probe to remove; *)
(* the device points to it once it is bound.                               *)
OwnInv ==
  \A d \in Devices :
    /\ own[d] = None <=> Unbound(d)
    /\ drvdata[d] = IF dpc[d] = "bound" THEN own[d] ELSE None
    /\ own[d] # None => live[own[d]] /\ dev[own[d]] = d

FileInv == \A p \in Procs : at[p] = None <=> ppc[p] = "idle"

Adds(i) ==
  IF \E d \in Devices : own[d] = i /\ dpc[d] \in Added THEN 1 ELSE 0

Creates(i) ==
  IF \E d \in Devices : own[d] = i /\ dpc[d] \in Created THEN 1 ELSE 0

(* Only finitely many processes ever have a node open.                     *)
FinInv == \A i \in Memory : IsFiniteSet(Files(i)) /\ IsFiniteSet(Openers(i))

(* Every reference has an owner.                                           *)
RefInv ==
  \A i \in Memory :
    /\ cdevRefs[i] = Adds(i) + Cardinality(Files(i))
    /\ devRefs[i] = Creates(i) + Cardinality(Openers(i))
                      + (IF cdevRefs[i] > 0 THEN 1 ELSE 0)
    /\ devRefs[i] > 0 => live[i] /\ openCount[i] = Cardinality(Openers(i))

(* An instance that has no references yet is its thread's alone.           *)
FreshInv ==
  /\ \A d \in Devices : dpc[d] \in {"setup", "register"} => devRefs[own[d]] = 0
  /\ \A i \in Memory : live[i] => devRefs[i] > 0 \/ \E d \in Devices : own[d] = i

(* A minor is reserved for one instance as long as that has references.    *)
MinorInv ==
  /\ \A i \in Memory : minor[i] # NoMinor <=> devRefs[i] > 0
  /\ \A i \in Memory : minor[i] # NoMinor => minor[i] \in minors
  /\ \A m \in minors : \E i \in Memory : minor[i] = m
  /\ \A i, j \in Memory : minor[i] = minor[j] /\ minor[i] # NoMinor => i = j

Serves(d) == dpc[d] \in {"publish", "bound", "shutdown"}
Serving(i) == \E d \in Devices : own[d] = i /\ Serves(d)

(* The transport is set up, and the instance online, while it serves.      *)
ServeInv ==
  /\ \A i \in Memory :
       transport[i] <=> \E d \in Devices :
         own[d] = i /\ (Serves(d) \/ dpc[d] \in {"register", "cleanup"})
  /\ \A i \in Memory : devRefs[i] > 0 /\ online[i] => Serving(i)

(* Who holds the mutex of an instance.                                     *)
LockInv ==
  /\ \A p \in Procs : ppc[p] = "xfer" => lock[at[p]] = p /\ Serving(at[p])
  /\ \A r \in Readers :
       rpc[r] = "query" =>
         target[r] # None /\ lock[target[r]] = r /\ Serving(target[r])
  /\ \A d \in Devices : dpc[d] \in {"cleanup", "unlock"} => lock[own[d]] = d

(* What a reader has found is not freed before it goes on, or it is lost.  *)
FoundInv ==
  \A r \in Readers : rpc[r] = "found" => target[r] # None /\ devRefs[target[r]] > 0

StateInv ==
  \A d \in Devices :
    /\ dpc[d] \in {"unbound", "setup", "register"} => devState[d] = "REGISTERED"
    /\ dpc[d] = "refused" => devState[d] = "ERROR"

IndInv ==
  /\ Types /\ OwnInv /\ FileInv
  /\ FinInv /\ RefInv /\ FreshInv
  /\ MinorInv /\ ServeInv /\ LockInv
  /\ FoundInv /\ StateInv
-------------------------------------------------------------------------------
(* The initial state satisfies the invariant. *)
LEMMA InitInd == Assumptions /\ DiagInit => IndInv
<1> SUFFICES ASSUME Assumptions, DiagInit PROVE IndInv
  OBVIOUS
<1> USE DEF Assumptions, InstanceAssumption, ReaderAssumption, DiagInit, Init
<1>1. Types
  BY DEF Types, TypeOK, Holders, BindLabels, ProcLabels, NoMinor
<1>2. OwnInv /\ FileInv /\ FreshInv /\ MinorInv /\ ServeInv /\ LockInv /\ FoundInv
        /\ StateInv
  BY DEF OwnInv, Unbound, FileInv, FreshInv, MinorInv, ServeInv, LockInv, FoundInv, StateInv,
         Serves, Serving
<1>3. \A i \in Memory : Files(i) = {} /\ Openers(i) = {} /\ Adds(i) = 0 /\ Creates(i) = 0
  BY DEF Files, Openers, Adds, Creates, Added, Created
<1>4. FinInv /\ RefInv
  <2> SUFFICES ASSUME NEW i \in Memory
               PROVE  /\ IsFiniteSet(Files(i)) /\ IsFiniteSet(Openers(i))
                      /\ cdevRefs[i] = Adds(i) + Cardinality(Files(i))
                      /\ devRefs[i] = Creates(i) + Cardinality(Openers(i))
                                        + (IF cdevRefs[i] > 0 THEN 1 ELSE 0)
                      /\ devRefs[i] = 0
    BY DEF FinInv, RefInv
  <2>1. Cardinality(Files(i)) = 0 /\ Cardinality(Openers(i)) = 0
    BY <1>3, FS_EmptySet
  <2>2. IsFiniteSet(Files(i)) /\ IsFiniteSet(Openers(i))
    BY <1>3, FS_EmptySet
  <2>3. cdevRefs[i] = 0 /\ devRefs[i] = 0 /\ Adds(i) = 0 /\ Creates(i) = 0
    BY <1>3
  <2>4. QED
    BY <2>1, <2>2, <2>3
<1>5. QED
  BY <1>1, <1>2, <1>4 DEF IndInv

(* An instance belongs to one thread, and one that a process has open is   *)
(* counted, live and no longer its thread's alone.                         *)
LEMMA Facts ==
  ASSUME Assumptions, IndInv
  PROVE  /\ \A d \in Devices : own[d] # None => own[d] \in Memory /\ live[own[d]]
         /\ \A d, e \in Devices : own[d] # None /\ own[d] = own[e] => d = e
         /\ \A p \in Procs :
              ppc[p] # "idle" => /\ at[p] \in Memory
                                 /\ cdevRefs[at[p]] > 0
                                 /\ devRefs[at[p]] > 0
                                 /\ live[at[p]]
<1> USE DEF Assumptions, InstanceAssumption, IndInv, Types, TypeOK
<1>1. \A d \in Devices : own[d] # None => own[d] \in Memory /\ live[own[d]]
  BY DEF OwnInv, Unbound
<1>2. \A d, e \in Devices : own[d] # None /\ own[d] = own[e] => d = e
  BY DEF OwnInv, Unbound
<1>3. ASSUME NEW p \in Procs, ppc[p] # "idle"
      PROVE  at[p] \in Memory /\ cdevRefs[at[p]] > 0 /\ devRefs[at[p]] > 0 /\ live[at[p]]
  <2>1. at[p] \in Memory
    BY <1>3 DEF FileInv
  <2>2. IsFiniteSet(Files(at[p])) /\ IsFiniteSet(Openers(at[p]))
    BY <2>1 DEF FinInv
  <2>3. /\ Cardinality(Files(at[p])) \in Nat /\ Cardinality(Files(at[p])) # 0
        /\ Cardinality(Openers(at[p])) \in Nat
    <3>1. Files(at[p]) # {}
      BY DEF Files
    <3>2. QED
      BY <2>2, <3>1, FS_CardinalityType, FS_EmptySet
  <2>4. Adds(at[p]) \in {0, 1} /\ Creates(at[p]) \in {0, 1}
    BY DEF Adds, Creates
  <2>5. cdevRefs[at[p]] > 0
    BY <2>1, <2>3, <2>4 DEF RefInv
  <2>6. devRefs[at[p]] > 0
    BY <2>1, <2>3, <2>4, <2>5 DEF RefInv
  <2>7. QED
    BY <2>1, <2>5, <2>6 DEF RefInv
<1>4. QED
  BY <1>1, <1>2, <1>3
-------------------------------------------------------------------------------
(* What a step of the drivers or of a process means to the readers.        *)
Watched ==
  /\ rpc' = [r \in Readers |->
       IF rpc[r] = "found" /\ ~live'[target[r]] THEN "lost" ELSE rpc[r]]
  /\ UNCHANGED target

LEMMA WatchedReaders ==
  ASSUME Types, FoundInv, Watched,
         \A i \in Memory : devRefs[i] > 0 /\ live'[i] => devRefs'[i] > 0
  PROVE  /\ FoundInv'
         /\ rpc' \in [Readers -> {"idle", "found", "query", "lost"}]
         /\ target' = target
         /\ \A r \in Readers : rpc'[r] = "query" <=> rpc[r] = "query"
<1> USE DEF Types, Watched
<1>1. FoundInv'
  BY DEF FoundInv
<1>2. QED
  BY <1>1

(* A step that changes no reference and nobody's claim to one.             *)
LEMMA SameRefs ==
  ASSUME FinInv, RefInv, UNCHANGED <<refVars, at>>,
         \A p \in Procs : ppc[p] \in {"open", "claim", "xfer"}
                            <=> ppc'[p] \in {"open", "claim", "xfer"},
         \A i \in Memory : devRefs[i] > 0 => live'[i] = live[i],
         \A i \in Memory : Adds(i)' = Adds(i) /\ Creates(i)' = Creates(i)
  PROVE  FinInv' /\ RefInv'
<1>1. \A i \in Memory : Files(i)' = Files(i) /\ Openers(i)' = Openers(i)
  BY DEF Files, Openers
<1>2. FinInv'
  BY <1>1 DEF FinInv
<1>3. RefInv'
  BY <1>1 DEF RefInv, refVars
<1>4. QED
  BY <1>2, <1>3

(* A step of a binding thread between two of its places that changes no    *)
(* reference.                                                              *)
LEMMA ThreadMoves ==
  ASSUME Assumptions, IndInv, Watched, NEW d \in Devices, NEW to \in BindLabels,
         dpc' = [dpc EXCEPT ![d] = to], own' = own,
         dpc[d] \in Created <=> to \in Created,
         dpc[d] \in Added <=> to \in Added,
         UNCHANGED <<memVars, refVars, procVars>>
  PROVE  FileInv' /\ FinInv' /\ RefInv' /\ MinorInv' /\ FoundInv'
<1> USE DEF memVars, refVars, procVars, IndInv
<1>1. FileInv' /\ MinorInv'
  BY DEF FileInv, MinorInv
<1>2. \A i \in Memory : Adds(i)' = Adds(i) /\ Creates(i)' = Creates(i)
  BY DEF Adds, Creates, Types, TypeOK
<1>3. FinInv' /\ RefInv'
  BY <1>2, SameRefs
<1>4. FoundInv'
  BY WatchedReaders
<1>5. QED
  BY <1>1, <1>3, <1>4

(* Setting the transport up, publishing the instance, and the first half   *)
(* of remove.                                                              *)
LEMMA SetupTransportInd ==
  ASSUME Assumptions, IndInv, Watched, NEW d \in Devices, SetupTransport(d)
  PROVE  IndInv'
<1> USE DEF IndInv, SetupTransport, Goto, memVars, refVars, procVars
<1>1. FileInv' /\ FinInv' /\ RefInv' /\ MinorInv' /\ FoundInv'
  BY ThreadMoves DEF BindLabels, Created, Added
<1>2. own[d] \in Memory /\ \A e \in Devices : own[e] = own[d] => e = d
  BY Facts DEF OwnInv, Unbound
<1>3. Types'
  BY WatchedReaders DEF Types, TypeOK, BindLabels
<1>4. OwnInv' /\ FreshInv'
  BY <1>2 DEF Types, TypeOK, OwnInv, Unbound, FreshInv
<1>5. ServeInv'
  BY <1>2 DEF Types, TypeOK, ServeInv, Serves, Serving
<1>6. LockInv'
  BY WatchedReaders DEF Types, TypeOK, LockInv, Serving, Serves
<1>7. StateInv'
  BY DEF Types, TypeOK, StateInv
<1>8. QED
  BY <1>1, <1>3, <1>4, <1>5, <1>6, <1>7

LEMMA PublishInd ==
  ASSUME Assumptions, IndInv, Watched, NEW d \in Devices, Publish(d)
  PROVE  IndInv'
<1> USE DEF IndInv, Publish, Goto, memVars, mutexVars, refVars, procVars
<1>1. FileInv' /\ FinInv' /\ RefInv' /\ MinorInv' /\ FoundInv'
  BY ThreadMoves DEF BindLabels, Created, Added
<1>3. Types'
  BY WatchedReaders DEF Types, TypeOK, BindLabels
<1>4. OwnInv' /\ FreshInv'
  BY DEF Types, TypeOK, OwnInv, Unbound, FreshInv
<1>5. ServeInv'
  BY DEF Types, TypeOK, ServeInv, Serves, Serving
<1>6. LockInv'
  BY WatchedReaders DEF Types, TypeOK, LockInv, Serving, Serves
<1>7. StateInv'
  BY DEF Types, TypeOK, StateInv
<1>8. QED
  BY <1>1, <1>3, <1>4, <1>5, <1>6, <1>7

LEMMA RemoveTakeInd ==
  ASSUME Assumptions, IndInv, Watched, NEW d \in Devices, RemoveTake(d)
  PROVE  IndInv'
<1> USE DEF IndInv, RemoveTake, Goto, memVars, mutexVars, refVars, procVars
<1>0. own' = own
  BY DEF Types, TypeOK, OwnInv, Unbound
<1>1. FileInv' /\ FinInv' /\ RefInv' /\ MinorInv' /\ FoundInv'
  BY <1>0, ThreadMoves DEF BindLabels, Created, Added
<1>3. Types'
  BY <1>0, WatchedReaders DEF Types, TypeOK, BindLabels
<1>4. OwnInv' /\ FreshInv'
  BY <1>0 DEF Types, TypeOK, OwnInv, Unbound, FreshInv
<1>5. ServeInv'
  BY <1>0 DEF Types, TypeOK, ServeInv, Serves, Serving
<1>6. LockInv'
  BY <1>0, WatchedReaders DEF Types, TypeOK, LockInv, Serving, Serves
<1>7. StateInv'
  BY DEF Types, TypeOK, StateInv
<1>8. QED
  BY <1>1, <1>3, <1>4, <1>5, <1>6, <1>7

(* remove takes the mutex: no transfer runs, and none will begin.          *)
LEMMA RemoveShutdownInd ==
  ASSUME Assumptions, IndInv, Watched, NEW d \in Devices, RemoveShutdown(d)
  PROVE  IndInv'
<1> USE DEF IndInv, RemoveShutdown, Goto, memVars, refVars, procVars
<1>1. FileInv' /\ FinInv' /\ RefInv' /\ MinorInv' /\ FoundInv'
  BY ThreadMoves DEF BindLabels, Created, Added
<1>2. own[d] \in Memory /\ \A e \in Devices : own[e] = own[d] => e = d
  BY Facts DEF OwnInv, Unbound
<1>3. Types'
  BY WatchedReaders DEF Types, TypeOK, BindLabels, Holders
<1>4. OwnInv' /\ FreshInv'
  BY <1>2 DEF Types, TypeOK, OwnInv, Unbound, FreshInv
<1>5. ServeInv'
  BY <1>2 DEF Types, TypeOK, ServeInv, Serves, Serving
<1>6. LockInv'
  BY <1>2, WatchedReaders
     DEF Types, TypeOK, LockInv, Serving, Serves, Assumptions, InstanceAssumption,
         ReaderAssumption
<1>7. StateInv'
  BY DEF Types, TypeOK, StateInv
<1>8. QED
  BY <1>1, <1>3, <1>4, <1>5, <1>6, <1>7

LEMMA RemoveCleanupInd ==
  ASSUME Assumptions, IndInv, Watched, NEW d \in Devices, RemoveCleanup(d)
  PROVE  IndInv'
<1> USE DEF IndInv, RemoveCleanup, Goto, memVars, refVars, procVars
<1>1. FileInv' /\ FinInv' /\ RefInv' /\ MinorInv' /\ FoundInv'
  BY ThreadMoves DEF BindLabels, Created, Added
<1>2. own[d] \in Memory /\ \A e \in Devices : own[e] = own[d] => e = d
  BY Facts DEF OwnInv, Unbound
<1>3. Types'
  BY WatchedReaders DEF Types, TypeOK, BindLabels
<1>4. OwnInv' /\ FreshInv'
  BY <1>2 DEF Types, TypeOK, OwnInv, Unbound, FreshInv
<1>5. ServeInv'
  BY <1>2 DEF Types, TypeOK, ServeInv, Serves, Serving
<1>6. LockInv'
  BY WatchedReaders DEF Types, TypeOK, LockInv, Serving, Serves
<1>7. StateInv'
  BY DEF Types, TypeOK, StateInv
<1>8. QED
  BY <1>1, <1>3, <1>4, <1>5, <1>6, <1>7

(* remove gives the mutex back: it was its own.                            *)
LEMMA RemoveUnlockInd ==
  ASSUME Assumptions, IndInv, Watched, NEW d \in Devices, RemoveUnlock(d)
  PROVE  IndInv'
<1> USE DEF IndInv, RemoveUnlock, Goto, memVars, refVars, procVars
<1>1. FileInv' /\ FinInv' /\ RefInv' /\ MinorInv' /\ FoundInv'
  BY ThreadMoves DEF BindLabels, Created, Added
<1>2. own[d] \in Memory /\ \A e \in Devices : own[e] = own[d] => e = d
  BY Facts DEF OwnInv, Unbound
<1>3. Types'
  BY WatchedReaders DEF Types, TypeOK, BindLabels, Holders
<1>4. OwnInv' /\ FreshInv'
  BY <1>2 DEF Types, TypeOK, OwnInv, Unbound, FreshInv
<1>5. ServeInv'
  BY <1>2 DEF Types, TypeOK, ServeInv, Serves, Serving
<1>6. LockInv'
  BY <1>2, WatchedReaders
     DEF Types, TypeOK, LockInv, Serving, Serves, Assumptions, InstanceAssumption,
         ReaderAssumption
<1>7. StateInv'
  BY DEF Types, TypeOK, StateInv
<1>8. QED
  BY <1>1, <1>3, <1>4, <1>5, <1>6, <1>7

(* A device that was refused a number has neither instance nor transport.  *)
LEMMA BindFailsInd ==
  ASSUME Assumptions, IndInv, Watched, NEW d \in Devices, BindFails(d)
  PROVE  IndInv'
<1> USE DEF IndInv, BindFails, memVars, mutexVars, refVars, procVars
<1>1. FileInv' /\ FinInv' /\ RefInv' /\ MinorInv' /\ FoundInv'
  BY ThreadMoves DEF BindLabels, Created, Added, Unbound
<1>3. Types'
  BY WatchedReaders DEF Types, TypeOK, BindLabels
<1>4. OwnInv' /\ FreshInv'
  BY DEF Types, TypeOK, OwnInv, Unbound, FreshInv
<1>5. ServeInv'
  BY DEF Types, TypeOK, ServeInv, Serves, Serving, Unbound
<1>6. LockInv'
  BY WatchedReaders DEF Types, TypeOK, LockInv, Serving, Serves, Unbound
<1>7. StateInv'
  BY DEF Types, TypeOK, StateInv
<1>8. QED
  BY <1>1, <1>3, <1>4, <1>5, <1>6, <1>7

(* probe takes storage nobody uses any more.                               *)
LEMMA ProbeAllocInd ==
  ASSUME Assumptions, IndInv, Watched, NEW d \in Devices, ProbeAlloc(d)
  PROVE  IndInv'
<1> USE DEF IndInv, ProbeAlloc, Unbound, refVars, procVars
<1> PICK i \in Memory :
      /\ ~live[i]
      /\ live' = [live EXCEPT ![i] = TRUE]
      /\ own' = [own EXCEPT ![d] = i]
      /\ dev' = [dev EXCEPT ![i] = d]
      /\ online' = [online EXCEPT ![i] = TRUE]
      /\ lock' = [lock EXCEPT ![i] = None]
  OBVIOUS
<1>1. /\ devRefs[i] = 0
      /\ \A e \in Devices : own[e] # i
      /\ \A p \in Procs : ppc[p] # "idle" => at[p] # i
      /\ i # None
  BY Facts DEF RefInv, Types, TypeOK, Assumptions, InstanceAssumption
<1>2. \A j \in Memory : Adds(j)' = Adds(j) /\ Creates(j)' = Creates(j)
  BY DEF Adds, Creates, Types, TypeOK, Added, Created
<1>3. FinInv' /\ RefInv'
  <2>1. \A j \in Memory : devRefs[j] > 0 => live'[j] = live[j]
    <3>1. \A j \in Memory : devRefs[j] > 0 => j # i
      BY <1>1
    <3>2. \A j \in Memory \ {i} : live'[j] = live[j]
      BY DEF Types, TypeOK
    <3>3. QED
      BY <3>1, <3>2
  <2>2. UNCHANGED <<refVars, at>> /\ ppc' = ppc
    OBVIOUS
  <2>3. QED
    BY <1>2, <2>1, <2>2, SameRefs
<1>4. FoundInv'
  BY WatchedReaders
<1>5. FileInv' /\ MinorInv'
  BY DEF FileInv, MinorInv
<1>6. Types'
  BY WatchedReaders DEF Types, TypeOK, BindLabels, Holders
<1>7. OwnInv'
  BY <1>1 DEF Types, TypeOK, OwnInv, Unbound
<1>8. FreshInv'
  <2>1. /\ \A e \in Devices \ {d} : own'[e] = own[e] /\ dpc'[e] = dpc[e]
        /\ own'[d] = i /\ own[d] = None
        /\ \A j \in Memory \ {i} : live'[j] = live[j]
        /\ devRefs' = devRefs
    BY DEF Types, TypeOK, OwnInv, Unbound
  <2>2. \A e \in Devices : dpc'[e] \in {"setup", "register"} => devRefs'[own'[e]] = 0
    BY <1>1, <2>1 DEF FreshInv
  <2>3. \A j \in Memory : live'[j] => devRefs'[j] > 0 \/ \E e \in Devices : own'[e] = j
    BY <2>1, Facts DEF FreshInv, Assumptions, InstanceAssumption
  <2>4. QED
    BY <2>2, <2>3 DEF FreshInv
<1>9. ServeInv'
  <2>1. own'[d] = i /\ dpc'[d] = "setup" /\ dpc[d] \in {"unbound", "refused"}
    BY DEF Types, TypeOK
  <2>2. \A e \in Devices \ {d} : own'[e] = own[e] /\ dpc'[e] = dpc[e]
    BY DEF Types, TypeOK
  <2>3. \A j \in Memory \ {i} : online'[j] = online[j]
    BY DEF Types, TypeOK
  <2>4. transport' = transport /\ devRefs' = devRefs /\ own[d] = None
    BY <2>1 DEF OwnInv, Unbound
  <2>5. \A j \in Memory : own[d] # j
    BY <2>4 DEF Assumptions, InstanceAssumption
  <2> HIDE DEF IndInv, ProbeAlloc, Unbound, refVars, procVars
  <2>6. ServeInv
    BY DEF IndInv
  <2>7. \A e \in Devices \ {d} : Serves(e)' = Serves(e)
    BY <2>2 DEF Serves
  <2>8. ~Serves(d) /\ ~Serves(d)'
    BY <2>1 DEF Serves
  <2>9. \A j \in Memory :
           transport'[j] <=> \E e \in Devices :
             own'[e] = j /\ (Serves(e)' \/ dpc'[e] \in {"register", "cleanup"})
    BY <2>1, <2>2, <2>4, <2>5, <2>6, <2>7, <2>8 DEF ServeInv
  <2>10. \A j \in Memory : Serving(j) => Serving(j)'
    BY <2>2, <2>5, <2>7 DEF Serving
  <2>11. \A j \in Memory : devRefs'[j] > 0 /\ online'[j] => Serving(j)'
    BY <1>1, <2>3, <2>4, <2>6, <2>10 DEF ServeInv
  <2>12. QED
    BY <2>9, <2>11 DEF ServeInv
<1>10. LockInv'
  BY <1>1, WatchedReaders DEF Types, TypeOK, LockInv, Serving, Serves
<1>11. StateInv'
  BY DEF Types, TypeOK, StateInv
<1>12. QED
  BY <1>3, <1>4, <1>5, <1>6, <1>7, <1>8, <1>9, <1>10, <1>11

(* probe fails: nobody but its thread has seen the instance.               *)
LEMMA ProbeUndoInd ==
  ASSUME Assumptions, IndInv, Watched, NEW d \in Devices,
         SetupFails(d) \/ RegisterFails(d)
  PROVE  IndInv'
<1> USE DEF IndInv, SetupFails, RegisterFails, ProbeUndo, Goto, refVars, procVars
<1> DEFINE i == own[d]
<1>1. /\ i \in Memory /\ devRefs[i] = 0
      /\ \A e \in Devices : own[e] = i => e = d
      /\ \A p \in Procs : ppc[p] # "idle" => at[p] # i
      /\ i # None
  BY Facts DEF FreshInv, OwnInv, Unbound, Assumptions, InstanceAssumption
<1>2. transport' = [transport EXCEPT ![i] = FALSE]
  <2>1. CASE SetupFails(d)
    BY <1>1, <2>1 DEF Types, TypeOK, ServeInv, Serves
  <2>2. QED
    BY <2>1
<1>3. \A j \in Memory : Adds(j)' = Adds(j) /\ Creates(j)' = Creates(j)
  BY DEF Adds, Creates, Types, TypeOK, Added, Created
<1>4. FinInv' /\ RefInv'
  BY <1>1, <1>3, SameRefs DEF Types, TypeOK
<1>5. FoundInv'
  BY WatchedReaders
<1>6. FileInv' /\ MinorInv'
  BY DEF FileInv, MinorInv
<1>7. Types'
  <2>1. /\ dpc' \in [Devices -> BindLabels] /\ own' \in [Devices -> Memory \cup {None}]
        /\ live' \in [Memory -> BOOLEAN] /\ dev' \in [Memory -> Devices \cup {None}]
    BY DEF Types, TypeOK, BindLabels
  <2>2. transport' \in [Memory -> BOOLEAN]
    BY <1>2 DEF Types, TypeOK
  <2>3. /\ rpc' \in [Readers -> {"idle", "found", "query", "lost"}]
        /\ target' = target
    BY WatchedReaders
  <2>4. UNCHANGED <<drvdata, devState, online, lock, minor, minors, openCount, devRefs,
                    cdevRefs, ppc, at>>
    OBVIOUS
  <2> HIDE DEF SetupFails, RegisterFails, ProbeUndo, Goto, refVars, procVars
  <2>5. QED
    BY <2>1, <2>2, <2>3, <2>4 DEF Types, TypeOK
<1>8. OwnInv'
  BY <1>1 DEF Types, TypeOK, OwnInv, Unbound
<1>9. FreshInv'
  BY <1>1 DEF Types, TypeOK, FreshInv, OwnInv, Unbound
<1>10. ServeInv'
  BY <1>1, <1>2 DEF Types, TypeOK, ServeInv, Serves, Serving
<1>11. LockInv'
  <2>1. /\ dpc[d] \in {"setup", "register"} /\ dpc'[d] = "unbound"
        /\ \A e \in Devices \ {d} : own'[e] = own[e] /\ dpc'[e] = dpc[e]
    BY DEF Types, TypeOK
  <2>2. \A j \in Memory : Serving(j) => Serving(j)'
    BY <2>1 DEF Serving, Serves
  <2>3. lock' = lock /\ ppc' = ppc /\ at' = at
    OBVIOUS
  <2>4. target' = target /\ \A r \in Readers : rpc'[r] = "query" <=> rpc[r] = "query"
    BY WatchedReaders
  <2>5. LockInv /\ Types
    OBVIOUS
  <2>6. \A p \in Procs : ppc[p] = "xfer" => at[p] \in Memory
    BY Facts
  <2> HIDE DEF IndInv, SetupFails, RegisterFails, ProbeUndo, Goto, refVars, procVars
  <2>7. \A r \in Readers : target[r] \in Memory \cup {None}
    BY <2>5 DEF Types
  <2>8. QED
    BY <2>1, <2>2, <2>3, <2>4, <2>5, <2>6, <2>7 DEF LockInv
<1>12. StateInv'
  BY DEF Types, TypeOK, StateInv
<1>13. QED
  BY <1>4, <1>5, <1>6, <1>7, <1>8, <1>9, <1>10, <1>11, <1>12

(* pdm_cdev_register: the first two references, and a minor of its own.    *)
LEMMA RegisterNodeInd ==
  ASSUME Assumptions, IndInv, Watched, NEW d \in Devices, RegisterNode(d)
  PROVE  IndInv'
<1> USE DEF IndInv, RegisterNode, Goto, mutexVars, procVars
<1> DEFINE i == own[d]
<1> PICK m \in Minors \ minors :
      /\ minors' = minors \cup {m}
      /\ minor' = [minor EXCEPT ![i] = m]
  OBVIOUS
<1>1. /\ i \in Memory /\ live[i] /\ devRefs[i] = 0
      /\ \A e \in Devices : own[e] = i => e = d
      /\ \A p \in Procs : ppc[p] # "idle" => at[p] # i
      /\ i # None
      /\ m # NoMinor
  BY Facts DEF FreshInv, OwnInv, Unbound, Assumptions, InstanceAssumption, NoMinor
<1>2. /\ \A j \in Memory \ {i} : Adds(j)' = Adds(j) /\ Creates(j)' = Creates(j)
      /\ Adds(i)' = 1 /\ Creates(i)' = 1
  BY <1>1 DEF Adds, Creates, Types, TypeOK, Added, Created
<1>3. \A j \in Memory : Files(j)' = Files(j) /\ Openers(j)' = Openers(j)
  BY DEF Files, Openers
<1>4. Cardinality(Files(i)) = 0 /\ Cardinality(Openers(i)) = 0
  <2>1. Files(i) = {} /\ Openers(i) = {}
    BY <1>1 DEF Files, Openers, FileInv
  <2>2. QED
    BY <2>1, FS_EmptySet
<1>5. FinInv'
  BY <1>3 DEF FinInv
<1>6. RefInv'
  <2> SUFFICES ASSUME NEW j \in Memory
               PROVE  /\ cdevRefs'[j] = Adds(j)' + Cardinality(Files(j)')
                      /\ devRefs'[j] = Creates(j)' + Cardinality(Openers(j)')
                                         + (IF cdevRefs'[j] > 0 THEN 1 ELSE 0)
                      /\ devRefs'[j] > 0 =>
                           live'[j] /\ openCount'[j] = Cardinality(Openers(j)')
    BY DEF RefInv
  <2>1. CASE j = i
    BY <1>1, <1>2, <1>3, <1>4, <2>1 DEF Types, TypeOK
  <2>2. CASE j # i
    BY <1>2, <1>3, <2>2 DEF RefInv, Types, TypeOK
  <2>3. QED
    BY <2>1, <2>2
<1>7. \A j \in Memory : devRefs'[j] = IF j = i THEN 2 ELSE devRefs[j]
  BY DEF Types, TypeOK
<1>8. FoundInv'
  BY <1>7, WatchedReaders
<1>9. FileInv'
  BY DEF FileInv
<1>10. MinorInv'
  <2>1. \A j \in Memory : minor'[j] = IF j = i THEN m ELSE minor[j]
    BY DEF Types, TypeOK
  <2>2. minor[i] = NoMinor
    BY <1>1 DEF MinorInv, Types, TypeOK
  <2>3. \A j \in Memory : minor'[j] # NoMinor <=> devRefs'[j] > 0
    BY <1>1, <1>7, <2>1 DEF MinorInv
  <2>4. \A j \in Memory : minor'[j] # NoMinor => minor'[j] \in minors'
    BY <2>1 DEF MinorInv
  <2>5. \A n \in minors' : \E j \in Memory : minor'[j] = n
    <3>1. \A n \in minors : \E j \in Memory \ {i} : minor[j] = n
      BY <2>2 DEF MinorInv, Types, TypeOK, Assumptions, InstanceAssumption, NoMinor
    <3>2. QED
      BY <1>1, <2>1, <3>1
  <2>6. \A j, k \in Memory : minor'[j] = minor'[k] /\ minor'[j] # NoMinor => j = k
    BY <2>1 DEF MinorInv
  <2>7. QED
    BY <2>3, <2>4, <2>5, <2>6 DEF MinorInv
<1>11. Types'
  <2>1. /\ minor' \in [Memory -> Minors \cup {NoMinor}]
        /\ minors' \subseteq Minors
        /\ dpc' \in [Devices -> BindLabels]
    BY DEF Types, TypeOK, BindLabels
  <2>2. /\ devRefs' \in [Memory -> Nat]
        /\ cdevRefs' \in [Memory -> Nat]
        /\ openCount' \in [Memory -> Nat]
    BY DEF Types, TypeOK
  <2>3. /\ rpc' \in [Readers -> {"idle", "found", "query", "lost"}]
        /\ target' = target
    BY <1>7, WatchedReaders
  <2>4. QED
    BY <2>1, <2>2, <2>3 DEF Types, TypeOK
<1>12. OwnInv' /\ StateInv'
  BY <1>1 DEF Types, TypeOK, OwnInv, Unbound, StateInv
<1>13. FreshInv'
  BY <1>1, <1>7 DEF Types, TypeOK, FreshInv
<1>14. ServeInv'
  BY <1>1, <1>7 DEF Types, TypeOK, ServeInv, Serves, Serving
<1>15. LockInv'
  BY <1>1, WatchedReaders, <1>7 DEF Types, TypeOK, LockInv, Serving, Serves
<1>16. QED
  BY <1>5, <1>6, <1>8, <1>9, <1>10, <1>11, <1>12, <1>13, <1>14, <1>15
-------------------------------------------------------------------------------
(* Dropping a reference frees the instance and its minor exactly if it was *)
(* the last one.                                                           *)
LEMMA PutDevMemory ==
  ASSUME Assumptions, Types, MinorInv, NEW i \in Memory, devRefs[i] > 0, PutDev(i)
  PROVE  /\ MinorInv'
         /\ live' \in [Memory -> BOOLEAN]
         /\ dev' \in [Memory -> Devices \cup {None}]
         /\ minor' \in [Memory -> Minors \cup {NoMinor}]
         /\ minors' \subseteq Minors
         /\ devRefs' \in [Memory -> Nat]
         /\ \A j \in Memory : devRefs'[j] = IF j = i THEN devRefs[i] - 1 ELSE devRefs[j]
         /\ \A j \in Memory : j # i \/ devRefs'[j] > 0 =>
                                live'[j] = live[j] /\ dev'[j] = dev[j]
         /\ devRefs'[i] = 0 => ~live'[i]
<1> USE DEF Assumptions, InstanceAssumption, Types, TypeOK, PutDev
<1>1. /\ devRefs' \in [Memory -> Nat]
      /\ \A j \in Memory : devRefs'[j] = IF j = i THEN devRefs[i] - 1 ELSE devRefs[j]
  OBVIOUS
<1>2. CASE devRefs[i] = 1
  <2> USE <1>2 DEF Free
  <2>1. \A j \in Memory : minor'[j] = IF j = i THEN NoMinor ELSE minor[j]
    OBVIOUS
  <2>2. minor[i] # NoMinor
    BY DEF MinorInv
  <2>3. \A j \in Memory : minor'[j] # NoMinor <=> devRefs'[j] > 0
    BY <1>1, <2>1 DEF MinorInv
  <2>4. \A j \in Memory : minor'[j] # NoMinor => minor'[j] \in minors'
    BY <2>1, <2>2 DEF MinorInv
  <2>5. \A m \in minors' : \E j \in Memory : minor'[j] = m
    <3>1. minors' = minors \ {minor[i]}
      OBVIOUS
    <3>2. \A m \in minors' : \E j \in Memory : minor[j] = m /\ j # i
      BY <3>1 DEF MinorInv
    <3>3. QED
      BY <2>1, <3>2
  <2>6. \A j, k \in Memory : minor'[j] = minor'[k] /\ minor'[j] # NoMinor => j = k
    BY <2>1 DEF MinorInv
  <2>7. MinorInv'
    BY <2>3, <2>4, <2>5, <2>6 DEF MinorInv
  <2>8. /\ live' \in [Memory -> BOOLEAN]
        /\ dev' \in [Memory -> Devices \cup {None}]
        /\ minor' \in [Memory -> Minors \cup {NoMinor}]
        /\ minors' \subseteq Minors
    <3>1. live' \in [Memory -> BOOLEAN] /\ dev' \in [Memory -> Devices \cup {None}]
      OBVIOUS
    <3>2. minor' \in [Memory -> Minors \cup {NoMinor}] /\ minors' \subseteq Minors
      OBVIOUS
    <3>3. QED
      BY <3>1, <3>2
  <2>9. \A j \in Memory : j # i => live'[j] = live[j] /\ dev'[j] = dev[j]
    OBVIOUS
  <2>10. ~live'[i] /\ ~(devRefs'[i] > 0)
    BY <1>1
  <2>11. QED
    BY <1>1, <2>7, <2>8, <2>9, <2>10
<1>3. CASE devRefs[i] # 1
  <2> USE <1>3 DEF memVars
  <2>1. \A j \in Memory : devRefs'[j] > 0 <=> devRefs[j] > 0
    BY <1>1
  <2>2. live' = live /\ dev' = dev /\ minor' = minor /\ minors' = minors
    OBVIOUS
  <2>3. MinorInv'
    BY <2>1, <2>2 DEF MinorInv
  <2>4. devRefs'[i] # 0
    BY <1>1
  <2>5. QED
    BY <1>1, <2>2, <2>3, <2>4
<1>4. QED
  BY <1>2, <1>3

(* cdev_device_del drops the adder's reference; the creator's keeps the    *)
(* instance.                                                               *)
LEMMA RemoveNodeInd ==
  ASSUME Assumptions, IndInv, Watched, NEW d \in Devices, RemoveNode(d)
  PROVE  IndInv'
<1> USE DEF IndInv, RemoveNode, Goto, mutexVars, procVars
<1> DEFINE i == own[d]
<1>1. /\ i \in Memory
      /\ \A e \in Devices : own[e] = i => e = d
      /\ i # None
  BY Facts DEF OwnInv, Unbound, Assumptions, InstanceAssumption
<1>2. /\ \A j \in Memory \ {i} : Adds(j)' = Adds(j) /\ Creates(j)' = Creates(j)
      /\ Adds(i) = 1 /\ Adds(i)' = 0
      /\ Creates(i) = 1 /\ Creates(i)' = 1
  BY <1>1 DEF Adds, Creates, Types, TypeOK, Added, Created
<1>3. \A j \in Memory : Files(j)' = Files(j) /\ Openers(j)' = Openers(j)
  BY DEF Files, Openers
<1>4. \A j \in Memory : Cardinality(Files(j)) \in Nat /\ Cardinality(Openers(j)) \in Nat
  BY FS_CardinalityType DEF FinInv
<1>5. devRefs[i] > 1 /\ cdevRefs[i] > 0
  BY <1>1, <1>2, <1>4 DEF RefInv, Types, TypeOK
<1>6. /\ cdevRefs' \in [Memory -> Nat]
      /\ \A j \in Memory : cdevRefs'[j] = IF j = i THEN cdevRefs[i] - 1 ELSE cdevRefs[j]
  BY <1>1, <1>5 DEF Types, TypeOK, PutCdev
<1>7. /\ UNCHANGED memVars
      /\ devRefs' \in [Memory -> Nat]
      /\ \A j \in Memory : devRefs'[j] =
           IF j = i /\ cdevRefs[i] = 1 THEN devRefs[i] - 1 ELSE devRefs[j]
  <2>1. CASE cdevRefs[i] = 1
    BY <1>1, <1>5, <2>1 DEF PutCdev, PutDev, memVars, Types, TypeOK
  <2>2. CASE cdevRefs[i] # 1
    BY <1>1, <2>2 DEF PutCdev, Types, TypeOK
  <2>3. QED
    BY <2>1, <2>2
<1>8. \A j \in Memory : devRefs'[j] > 0 <=> devRefs[j] > 0
  BY <1>5, <1>7 DEF Types, TypeOK
<1>9. FinInv'
  BY <1>3 DEF FinInv
<1>10. RefInv'
  <2> SUFFICES ASSUME NEW j \in Memory
               PROVE  /\ cdevRefs'[j] = Adds(j)' + Cardinality(Files(j)')
                      /\ devRefs'[j] = Creates(j)' + Cardinality(Openers(j)')
                                         + (IF cdevRefs'[j] > 0 THEN 1 ELSE 0)
                      /\ devRefs'[j] > 0 =>
                           live'[j] /\ openCount'[j] = Cardinality(Openers(j)')
    BY DEF RefInv
  <2>1. /\ cdevRefs[j] = Adds(j) + Cardinality(Files(j))
        /\ devRefs[j] = Creates(j) + Cardinality(Openers(j))
                          + (IF cdevRefs[j] > 0 THEN 1 ELSE 0)
        /\ devRefs[j] > 0 => live[j] /\ openCount[j] = Cardinality(Openers(j))
    BY DEF RefInv
  <2>2. devRefs'[j] > 0 => live'[j] /\ openCount'[j] = Cardinality(Openers(j)')
    BY <1>3, <1>7, <1>8, <2>1 DEF memVars
  <2>3. CASE j = i
    BY <1>2, <1>3, <1>4, <1>6, <1>7, <2>1, <2>2, <2>3
  <2>4. CASE j # i
    BY <1>2, <1>3, <1>6, <1>7, <2>1, <2>2, <2>4
  <2>5. QED
    BY <2>3, <2>4
<1>11. FileInv' /\ FoundInv'
  BY <1>8, WatchedReaders DEF FileInv
<1>12. Types'
  BY <1>6, <1>7, <1>8, WatchedReaders DEF Types, TypeOK, BindLabels, memVars
<1>13. OwnInv' /\ StateInv'
  BY <1>1, <1>7 DEF Types, TypeOK, OwnInv, Unbound, StateInv, memVars
<1>14. FreshInv' /\ MinorInv'
  <2>1. MinorInv'
    BY <1>7, <1>8 DEF MinorInv, memVars
  <2>2. \A j \in Memory : devRefs[j] = 0 <=> devRefs'[j] = 0
    BY <1>7, <1>8 DEF Types, TypeOK
  <2>3. \A e \in Devices : dpc'[e] \in {"setup", "register"} => devRefs'[own'[e]] = 0
    <3>1. \A e \in Devices : dpc'[e] \in {"setup", "register"} => own[e] \in Memory /\ dpc'[e] = dpc[e]
      BY Facts DEF Types, TypeOK, OwnInv, Unbound
    <3>2. QED
      BY <2>2, <3>1 DEF FreshInv
  <2>4. \A j \in Memory : live'[j] => devRefs'[j] > 0 \/ \E e \in Devices : own'[e] = j
    BY <1>7, <1>8 DEF FreshInv, memVars
  <2>5. QED
    BY <2>1, <2>3, <2>4 DEF FreshInv
<1>15. ServeInv'
  BY <1>1, <1>8 DEF Types, TypeOK, ServeInv, Serves, Serving
<1>16. LockInv'
  BY <1>1, <1>8, WatchedReaders DEF Types, TypeOK, LockInv, Serving, Serves
<1>17. QED
  BY <1>9, <1>10, <1>11, <1>12, <1>13, <1>14, <1>15, <1>16

(* put_device: the creator's reference goes, and with it the instance, if  *)
(* no file is open.                                                        *)
LEMMA RemovePutInd ==
  ASSUME Assumptions, IndInv, Watched, NEW d \in Devices, RemovePut(d)
  PROVE  IndInv'
<1> USE DEF IndInv, RemovePut, Goto, mutexVars, procVars
<1> PICK i \in Memory : i = own[d]
  BY Facts DEF OwnInv, Unbound
<1>1. /\ i \in Memory
      /\ \A e \in Devices : own[e] = i => e = d
      /\ i # None
  BY Facts DEF OwnInv, Unbound, Assumptions, InstanceAssumption
<1>2. /\ \A j \in Memory \ {i} : Adds(j)' = Adds(j) /\ Creates(j)' = Creates(j)
      /\ Adds(i) = 0 /\ Adds(i)' = 0
      /\ Creates(i) = 1 /\ Creates(i)' = 0
  <2>1. /\ dpc[d] = "put" /\ dpc'[d] = "unbound" /\ own'[d] = None
        /\ \A e \in Devices \ {d} : own'[e] = own[e] /\ dpc'[e] = dpc[e]
    BY DEF Types, TypeOK
  <2>2. \A j \in Memory \ {i} : Adds(j)' = Adds(j) /\ Creates(j)' = Creates(j)
    BY <2>1 DEF Adds, Creates, Added, Created
  <2>3. Adds(i) = 0 /\ Creates(i) = 1
    BY <1>1, <2>1 DEF Adds, Creates, Added, Created
  <2>4. \A e \in Devices : own'[e] # i
    BY <1>1, <2>1
  <2>5. Adds(i)' = 0 /\ Creates(i)' = 0
    BY <2>4 DEF Adds, Creates
  <2>6. QED
    BY <2>2, <2>3, <2>5
<1>3. \A j \in Memory : Files(j)' = Files(j) /\ Openers(j)' = Openers(j)
  BY DEF Files, Openers
<1>4. \A j \in Memory : Cardinality(Files(j)) \in Nat /\ Cardinality(Openers(j)) \in Nat
  BY FS_CardinalityType DEF FinInv
<1>5. devRefs[i] > 0
  BY <1>1, <1>2, <1>4 DEF RefInv, Types, TypeOK
<1>6. /\ MinorInv'
      /\ live' \in [Memory -> BOOLEAN]
      /\ dev' \in [Memory -> Devices \cup {None}]
      /\ minor' \in [Memory -> Minors \cup {NoMinor}]
      /\ minors' \subseteq Minors
      /\ devRefs' \in [Memory -> Nat]
      /\ \A j \in Memory : devRefs'[j] = IF j = i THEN devRefs[i] - 1 ELSE devRefs[j]
      /\ \A j \in Memory : j # i \/ devRefs'[j] > 0 =>
                             live'[j] = live[j] /\ dev'[j] = dev[j]
      /\ devRefs'[i] = 0 => ~live'[i]
  BY <1>1, <1>5, PutDevMemory
<1>7. FinInv'
  BY <1>3 DEF FinInv
<1>8. RefInv'
  <2> SUFFICES ASSUME NEW j \in Memory
               PROVE  /\ cdevRefs'[j] = Adds(j)' + Cardinality(Files(j)')
                      /\ devRefs'[j] = Creates(j)' + Cardinality(Openers(j)')
                                         + (IF cdevRefs'[j] > 0 THEN 1 ELSE 0)
                      /\ devRefs'[j] > 0 =>
                           live'[j] /\ openCount'[j] = Cardinality(Openers(j)')
    BY DEF RefInv
  <2>1. /\ cdevRefs[j] = Adds(j) + Cardinality(Files(j))
        /\ devRefs[j] = Creates(j) + Cardinality(Openers(j))
                          + (IF cdevRefs[j] > 0 THEN 1 ELSE 0)
        /\ devRefs[j] > 0 => live[j] /\ openCount[j] = Cardinality(Openers(j))
    BY DEF RefInv
  <2>2. CASE j = i
    <3>1. cdevRefs'[j] = cdevRefs[j] /\ openCount'[j] = openCount[j]
      OBVIOUS
    <3>2. devRefs'[j] = devRefs[j] - 1 /\ (devRefs'[j] > 0 => live'[j] = live[j])
      BY <1>6, <2>2
    <3>3. QED
      BY <1>2, <1>3, <1>4, <1>5, <2>1, <2>2, <3>1, <3>2
  <2>3. CASE j # i
    BY <1>2, <1>3, <1>6, <2>1, <2>3
  <2>4. QED
    BY <2>2, <2>3
<1>9. FoundInv'
  BY <1>6, WatchedReaders
<1>10. FileInv'
  BY DEF FileInv
<1>11. Types'
  BY <1>6, WatchedReaders DEF Types, TypeOK, BindLabels
<1>12. OwnInv' /\ StateInv'
  BY <1>1, <1>6 DEF Types, TypeOK, OwnInv, Unbound, StateInv
<1>13. FreshInv'
  <2>1. \A e \in Devices : dpc'[e] \in {"setup", "register"} =>
          own'[e] \in Memory \ {i} /\ dpc'[e] = dpc[e] /\ own'[e] = own[e]
    BY <1>1, Facts DEF Types, TypeOK, OwnInv, Unbound
  <2>2. \A e \in Devices : dpc'[e] \in {"setup", "register"} => devRefs'[own'[e]] = 0
    BY <1>6, <2>1 DEF FreshInv
  <2>3. \A j \in Memory : live'[j] => devRefs'[j] > 0 \/ \E e \in Devices : own'[e] = j
    <3> SUFFICES ASSUME NEW j \in Memory, live'[j], ~(devRefs'[j] > 0)
                 PROVE  \E e \in Devices : own'[e] = j
      OBVIOUS
    <3>1. j # i /\ live[j] /\ devRefs'[j] = devRefs[j]
      BY <1>6
    <3>2. QED
      BY <3>1 DEF FreshInv, Types, TypeOK
  <2>4. QED
    BY <2>2, <2>3 DEF FreshInv
<1>14. ServeInv'
  <2>1. dpc[d] = "put" /\ dpc'[d] = "unbound" /\ own'[d] = None
        /\ \A e \in Devices \ {d} : own'[e] = own[e] /\ dpc'[e] = dpc[e]
    BY DEF Types, TypeOK
  <2>2. transport' = transport /\ online' = online
    OBVIOUS
  <2>3. \A j \in Memory : devRefs'[j] > 0 => devRefs[j] > 0
    BY <1>5, <1>6
  <2>4. \A j \in Memory : Serving(j) <=> Serving(j)'
    BY <1>1, <2>1 DEF Serving, Serves, Assumptions, InstanceAssumption
  <2>5. \A e \in Devices, j \in Memory :
           own'[e] = j /\ (Serves(e)' \/ dpc'[e] \in {"register", "cleanup"})
           <=> own[e] = j /\ (Serves(e) \/ dpc[e] \in {"register", "cleanup"})
    BY <2>1 DEF Serves
  <2>6. ServeInv
    OBVIOUS
  <2> HIDE DEF IndInv, RemovePut
  <2>7. QED
    BY <2>2, <2>3, <2>4, <2>5, <2>6 DEF ServeInv
<1>15. LockInv'
  BY <1>1, <1>6, WatchedReaders DEF Types, TypeOK, LockInv, Serving, Serves
<1>16. QED
  BY <1>6, <1>7, <1>8, <1>9, <1>10, <1>11, <1>12, <1>13, <1>14, <1>15
-------------------------------------------------------------------------------
(* Processes do not touch what a binding thread has.                       *)
LEMMA SameClaims ==
  ASSUME UNCHANGED bindVars
  PROVE  \A j \in Memory : Adds(j)' = Adds(j) /\ Creates(j)' = Creates(j)
BY DEF bindVars, Adds, Creates

(* How many files there are, and how many of them are counted as open.     *)
LEMMA FileCounts ==
  ASSUME FinInv, NEW i \in Memory
  PROVE  Cardinality(Files(i)) \in Nat /\ Cardinality(Openers(i)) \in Nat
BY FS_CardinalityType DEF FinInv

(* chrdev_open adds a file to an instance whose cdev has a reference.      *)
LEMMA OpenGetInd ==
  ASSUME Assumptions, IndInv, Watched, NEW p \in Procs, NEW i \in Memory, OpenGet(p, i)
  PROVE  IndInv'
<1> USE DEF IndInv, OpenGet, Step, memVars, mutexVars, bindVars
<1>1. /\ \A j \in Memory : Adds(j)' = Adds(j) /\ Creates(j)' = Creates(j)
      /\ \A j \in Memory : Openers(j)' = Openers(j)
      /\ \A j \in Memory \ {i} : Files(j)' = Files(j)
      /\ Files(i)' = Files(i) \cup {p}
      /\ p \notin Files(i)
  <2>1. /\ at[p] = None /\ at'[p] = i /\ i # None
        /\ \A q \in Procs \ {p} : at'[q] = at[q] /\ ppc'[q] = ppc[q]
        /\ ppc[p] = "idle" /\ ppc'[p] = "opening"
    BY DEF FileInv, Types, TypeOK, Assumptions, InstanceAssumption
  <2>2. \A j \in Memory : Openers(j)' = Openers(j)
    BY <2>1 DEF Openers
  <2>3. \A j \in Memory \ {i} : Files(j)' = Files(j)
    BY <2>1 DEF Files, Assumptions, InstanceAssumption
  <2>4. Files(i)' = Files(i) \cup {p} /\ p \notin Files(i)
    BY <2>1 DEF Files
  <2>5. QED
    BY <2>2, <2>3, <2>4, SameClaims
<1>2. /\ IsFiniteSet(Files(i)')
      /\ Cardinality(Files(i)') = Cardinality(Files(i)) + 1
  BY <1>1, FS_AddElement DEF FinInv
<1>3. FinInv'
  BY <1>1, <1>2 DEF FinInv
<1>4. RefInv'
  <2> SUFFICES ASSUME NEW j \in Memory
               PROVE  /\ cdevRefs'[j] = Adds(j)' + Cardinality(Files(j)')
                      /\ devRefs'[j] = Creates(j)' + Cardinality(Openers(j)')
                                         + (IF cdevRefs'[j] > 0 THEN 1 ELSE 0)
                      /\ devRefs'[j] > 0 =>
                           live'[j] /\ openCount'[j] = Cardinality(Openers(j)')
    BY DEF RefInv
  <2>1. /\ cdevRefs[j] = Adds(j) + Cardinality(Files(j))
        /\ devRefs[j] = Creates(j) + Cardinality(Openers(j))
                          + (IF cdevRefs[j] > 0 THEN 1 ELSE 0)
        /\ devRefs[j] > 0 => live[j] /\ openCount[j] = Cardinality(Openers(j))
    BY DEF RefInv
  <2>2. CASE j = i
    <3>1. /\ cdevRefs'[j] = cdevRefs[j] + 1 /\ devRefs'[j] = devRefs[j]
          /\ openCount'[j] = openCount[j] /\ live'[j] = live[j]
      BY <2>2 DEF Types, TypeOK
    <3>2. Cardinality(Files(j)) \in Nat /\ Adds(j) \in {0, 1}
      BY FileCounts DEF Adds
    <3>3. QED
      BY <1>1, <1>2, <2>1, <2>2, <3>1, <3>2
  <2>3. CASE j # i
    BY <1>1, <2>1, <2>3 DEF Types, TypeOK
  <2>4. QED
    BY <2>2, <2>3
<1>5. FoundInv'
  BY WatchedReaders
<1>6. FileInv' /\ MinorInv' /\ FreshInv' /\ StateInv' /\ OwnInv'
  BY DEF FileInv, MinorInv, FreshInv, StateInv, OwnInv, Unbound, Types, TypeOK, Assumptions,
         InstanceAssumption
<1>7. Types'
  BY WatchedReaders DEF Types, TypeOK, ProcLabels
<1>8. ServeInv'
  BY DEF ServeInv, Serves, Serving
<1>9. LockInv'
  BY WatchedReaders DEF LockInv, Serves, Serving, Types, TypeOK
<1>10. QED
  BY <1>3, <1>4, <1>5, <1>6, <1>7, <1>8, <1>9

(* pdm_cdev_default_open counts it.                                        *)
LEMMA OpenInd ==
  ASSUME Assumptions, IndInv, Watched, NEW p \in Procs, Open(p)
  PROVE  IndInv'
<1> USE DEF IndInv, Open, Step, memVars, mutexVars, bindVars
<1> PICK i \in Memory : i = at[p]
  BY Facts
<1>0. devRefs[i] > 0 /\ live[i]
  BY Facts
<1>1. /\ \A j \in Memory : Adds(j)' = Adds(j) /\ Creates(j)' = Creates(j)
      /\ \A j \in Memory : Files(j)' = Files(j)
      /\ \A j \in Memory \ {i} : Openers(j)' = Openers(j)
      /\ Openers(i)' = Openers(i) \cup {p}
      /\ p \notin Openers(i)
  <2>1. /\ ppc[p] = "opening" /\ ppc'[p] = "open" /\ at' = at
        /\ \A q \in Procs \ {p} : ppc'[q] = ppc[q]
    BY DEF Types, TypeOK
  <2>2. \A j \in Memory : Files(j)' = Files(j)
    BY <2>1 DEF Files
  <2>3. \A j \in Memory \ {i} : Openers(j)' = Openers(j)
    BY <2>1 DEF Openers
  <2>4. Openers(i)' = Openers(i) \cup {p} /\ p \notin Openers(i)
    BY <2>1 DEF Openers
  <2>5. QED
    BY <2>2, <2>3, <2>4, SameClaims
<1>2. /\ IsFiniteSet(Openers(i)')
      /\ Cardinality(Openers(i)') = Cardinality(Openers(i)) + 1
  <2>1. IsFiniteSet(Openers(i))
    BY DEF FinInv
  <2>2. QED
    BY <1>1, <2>1, FS_AddElement
<1>3. FinInv'
  BY <1>1, <1>2 DEF FinInv
<1>4. \A j \in Memory : /\ devRefs'[j] = IF j = i THEN devRefs[i] + 1 ELSE devRefs[j]
                        /\ devRefs'[j] > 0 <=> devRefs[j] > 0
  BY <1>0 DEF Types, TypeOK
<1>5. RefInv'
  <2> SUFFICES ASSUME NEW j \in Memory
               PROVE  /\ cdevRefs'[j] = Adds(j)' + Cardinality(Files(j)')
                      /\ devRefs'[j] = Creates(j)' + Cardinality(Openers(j)')
                                         + (IF cdevRefs'[j] > 0 THEN 1 ELSE 0)
                      /\ devRefs'[j] > 0 =>
                           live'[j] /\ openCount'[j] = Cardinality(Openers(j)')
    BY DEF RefInv
  <2>1. /\ cdevRefs[j] = Adds(j) + Cardinality(Files(j))
        /\ devRefs[j] = Creates(j) + Cardinality(Openers(j))
                          + (IF cdevRefs[j] > 0 THEN 1 ELSE 0)
        /\ devRefs[j] > 0 => live[j] /\ openCount[j] = Cardinality(Openers(j))
    BY DEF RefInv
  <2>2. CASE j = i
    <3>1. openCount'[j] = openCount[j] + 1
      BY <2>2 DEF Types, TypeOK
    <3>2. devRefs'[j] = devRefs[j] + 1 /\ cdevRefs'[j] = cdevRefs[j] /\ live'[j] = live[j]
      BY <1>4, <2>2
    <3>3. Cardinality(Openers(j)) \in Nat /\ Creates(j) \in {0, 1}
      BY FileCounts DEF Creates
    <3>4. /\ Adds(j)' = Adds(j) /\ Creates(j)' = Creates(j) /\ Files(j)' = Files(j)
          /\ Cardinality(Openers(j)') = Cardinality(Openers(j)) + 1
          /\ devRefs[j] > 0
      BY <1>0, <1>1, <1>2, <2>2
    <3>5. QED
      BY <2>1, <3>1, <3>2, <3>3, <3>4
  <2>3. CASE j # i
    BY <1>1, <1>4, <2>1, <2>3 DEF Types, TypeOK
  <2>4. QED
    BY <2>2, <2>3
<1>6. FoundInv'
  BY <1>4, WatchedReaders
<1>7. FileInv' /\ MinorInv' /\ StateInv' /\ OwnInv'
  BY <1>4 DEF FileInv, MinorInv, StateInv, OwnInv, Unbound, Types, TypeOK
<1>8. FreshInv'
  <2>1. \A d \in Devices : dpc[d] \in {"setup", "register"} => own[d] # i
    BY <1>0 DEF FreshInv
  <2>2. \A d \in Devices : dpc[d] \in {"setup", "register"} => own[d] \in Memory
    BY Facts DEF OwnInv, Unbound
  <2>3. QED
    BY <1>4, <2>1, <2>2 DEF FreshInv
<1>9. Types'
  BY <1>4, WatchedReaders DEF Types, TypeOK, ProcLabels
<1>10. ServeInv'
  BY <1>4 DEF ServeInv, Serves, Serving
<1>11. LockInv'
  BY <1>4, WatchedReaders DEF LockInv, Serves, Serving, Types, TypeOK
<1>12. QED
  BY <1>3, <1>5, <1>6, <1>7, <1>8, <1>9, <1>10, <1>11

(* An ioctl asks for the device and is let in or turned away; what it      *)
(* reports goes to a device that is bound.                                 *)
LEMMA TransferInd ==
  ASSUME Assumptions, IndInv, Watched, NEW p \in Procs,
         \/ Ioctl(p) \/ Claim(p) \/ Refuse(p)
         \/ \E result \in Results : XferDone(p, result)
  PROVE  IndInv'
<1> USE DEF IndInv, Ioctl, Claim, Refuse, XferDone, Step, memVars, mutexVars, refVars,
            bindVars
<1> PICK i \in Memory : i = at[p]
  BY Facts
<1>1. /\ UNCHANGED <<bindVars, memVars, refVars, online, transport, at>>
      /\ ppc[p] \in {"open", "claim", "xfer"}
      /\ ppc' = [ppc EXCEPT ![p] = ppc'[p]]
      /\ ppc'[p] \in {"open", "claim", "xfer"}
  BY DEF Types, TypeOK
<1>2. FinInv' /\ RefInv'
  BY <1>1, SameRefs, SameClaims DEF Types, TypeOK
<1>3. FoundInv'
  BY <1>1, WatchedReaders
<1>4. FileInv' /\ MinorInv' /\ FreshInv' /\ OwnInv' /\ ServeInv'
  BY <1>1
     DEF FileInv, MinorInv, FreshInv, OwnInv, Unbound, ServeInv, Serves, Serving, Types,
         TypeOK
<1>5. lock' \in [Memory -> Holders] /\ \A j \in Memory \ {i} : lock'[j] = lock[j]
  BY DEF Types, TypeOK, Holders
<1>6. /\ devState' \in [Devices -> {"REGISTERED", "BOUND", "ERROR"}]
      /\ StateInv'
  <2>1. CASE \E result \in Results : XferDone(p, result)
    <3>1. \A d \in Devices : own[d] = i => d = dev[i]
      BY DEF OwnInv, Unbound, Types, TypeOK, Assumptions, InstanceAssumption
    <3>2. PICK d \in Devices : own[d] = i /\ Serves(d)
      BY <2>1 DEF LockInv, Serving
    <3>3. dev[i] = d
      BY <3>1, <3>2
    <3>4. \A e \in Devices \ {d} : devState'[e] = devState[e]
      BY <2>1, <3>3 DEF Types, TypeOK
    <3>5. StateInv'
      BY <1>1, <3>2, <3>4 DEF StateInv, Serves
    <3>6. devState' \in [Devices -> {"REGISTERED", "BOUND", "ERROR"}]
      BY <2>1 DEF Types, TypeOK, Results
    <3>7. QED
      BY <3>5, <3>6
  <2>2. CASE Ioctl(p) \/ Claim(p) \/ Refuse(p)
    BY <2>2 DEF Types, TypeOK, StateInv
  <2>3. QED
    BY <2>1, <2>2
<1>7. Types'
  BY <1>1, <1>5, <1>6, WatchedReaders DEF Types, TypeOK, ProcLabels
<1>8. LockInv'
  <2> USE DEF Serving, Serves
  <2>1. UNCHANGED <<own, dpc, at, target>>
    BY <1>1, <1>3, WatchedReaders
  <2>2. \A r \in Readers : rpc'[r] = "query" <=> rpc[r] = "query"
    BY <1>1, WatchedReaders
  <2>3. CASE Ioctl(p) \/ Refuse(p)
    BY <1>1, <2>1, <2>2, <2>3 DEF LockInv, Types, TypeOK
  <2>4. CASE Claim(p)
    <3>1. Serving(i)
      BY <2>4, Facts DEF ServeInv
    <3>2. /\ \A q \in Procs \ {p} : ppc[q] = "xfer" => at[q] # i
          /\ \A r \in Readers : rpc[r] = "query" => target[r] # i
          /\ \A d \in Devices : dpc[d] \in {"cleanup", "unlock"} => own[d] # i
      BY <2>4 DEF LockInv, Assumptions, InstanceAssumption, ReaderAssumption
    <3>3. lock'[i] = p
      BY <2>4 DEF Types, TypeOK
    <3>4. \A q \in Procs \ {p} : ppc'[q] = ppc[q]
      BY <1>1 DEF Types, TypeOK
    <3>5. QED
      BY <1>5, <2>1, <2>2, <3>1, <3>2, <3>3, <3>4, Facts
         DEF LockInv, OwnInv, Unbound, Types, TypeOK
  <2>5. CASE \E result \in Results : XferDone(p, result)
    <3>1. lock[i] = p /\ ppc[p] = "xfer"
      BY <2>5 DEF LockInv
    <3>2. /\ \A q \in Procs \ {p} : ppc[q] = "xfer" => at[q] # i
          /\ \A r \in Readers : rpc[r] = "query" => target[r] # i
          /\ \A d \in Devices : dpc[d] \in {"cleanup", "unlock"} => own[d] # i
      BY <3>1 DEF LockInv, Assumptions, InstanceAssumption, ReaderAssumption
    <3>3. \A q \in Procs : ppc'[q] = "xfer" => q # p /\ ppc[q] = "xfer"
      BY <1>1, <2>5 DEF Types, TypeOK
    <3>4. QED
      BY <1>5, <2>1, <2>2, <3>2, <3>3, Facts DEF LockInv, OwnInv, Unbound, Types, TypeOK
  <2>6. QED
    BY <2>3, <2>4, <2>5
<1>9. QED
  BY <1>2, <1>3, <1>4, <1>6, <1>7, <1>8

(* pdm_cdev_default_release: the file's own reference on the cdev keeps    *)
(* the instance until the VFS drops that one too.                          *)
LEMMA CloseInd ==
  ASSUME Assumptions, IndInv, Watched, NEW p \in Procs, Close(p)
  PROVE  IndInv'
<1> USE DEF IndInv, Close, Step, mutexVars, bindVars
<1> PICK i \in Memory : i = at[p]
  BY Facts
<1>0. devRefs[i] > 0 /\ cdevRefs[i] > 0 /\ live[i]
  BY Facts
<1>1. /\ \A j \in Memory : Adds(j)' = Adds(j) /\ Creates(j)' = Creates(j)
      /\ \A j \in Memory : Files(j)' = Files(j)
      /\ \A j \in Memory \ {i} : Openers(j)' = Openers(j)
      /\ Openers(i)' = Openers(i) \ {p}
      /\ p \in Openers(i)
  <2>1. /\ ppc[p] = "open" /\ ppc'[p] = "closing" /\ at' = at
        /\ \A q \in Procs \ {p} : ppc'[q] = ppc[q]
    BY DEF Types, TypeOK
  <2>2. \A j \in Memory : Files(j)' = Files(j)
    BY <2>1 DEF Files
  <2>3. \A j \in Memory \ {i} : Openers(j)' = Openers(j)
    BY <2>1 DEF Openers
  <2>4. Openers(i)' = Openers(i) \ {p} /\ p \in Openers(i)
    BY <2>1 DEF Openers
  <2>5. QED
    BY <2>2, <2>3, <2>4, SameClaims
<1>2. /\ IsFiniteSet(Openers(i)')
      /\ Cardinality(Openers(i)') = Cardinality(Openers(i)) - 1
      /\ Cardinality(Openers(i)) \in Nat
      /\ Cardinality(Openers(i)) > 0
  <2>1. IsFiniteSet(Openers(i))
    BY DEF FinInv
  <2>2. Cardinality(Openers(i)) # 0 /\ Cardinality(Openers(i)) \in Nat
    BY <1>1, <2>1, FS_EmptySet, FS_CardinalityType
  <2>3. QED
    BY <1>1, <2>1, <2>2, FS_RemoveElement
<1>3. FinInv'
  BY <1>1, <1>2 DEF FinInv
<1>4. devRefs[i] > 1
  <2>1. Creates(i) \in {0, 1}
    BY DEF Creates
  <2>2. QED
    BY <1>0, <1>2, <2>1 DEF RefInv
<1>5. UNCHANGED memVars
  BY <1>4 DEF PutDev
<1>6. \A j \in Memory : /\ devRefs'[j] = IF j = i THEN devRefs[i] - 1 ELSE devRefs[j]
                        /\ devRefs'[j] > 0 <=> devRefs[j] > 0
  BY <1>4 DEF PutDev, Types, TypeOK
<1>7. openCount' \in [Memory -> Nat]
  BY DEF Types, TypeOK
<1>8. RefInv'
  <2> SUFFICES ASSUME NEW j \in Memory
               PROVE  /\ cdevRefs'[j] = Adds(j)' + Cardinality(Files(j)')
                      /\ devRefs'[j] = Creates(j)' + Cardinality(Openers(j)')
                                         + (IF cdevRefs'[j] > 0 THEN 1 ELSE 0)
                      /\ devRefs'[j] > 0 =>
                           live'[j] /\ openCount'[j] = Cardinality(Openers(j)')
    BY DEF RefInv
  <2>1. /\ cdevRefs[j] = Adds(j) + Cardinality(Files(j))
        /\ devRefs[j] = Creates(j) + Cardinality(Openers(j))
                          + (IF cdevRefs[j] > 0 THEN 1 ELSE 0)
        /\ devRefs[j] > 0 => live[j] /\ openCount[j] = Cardinality(Openers(j))
    BY DEF RefInv
  <2>2. CASE j = i
    <3>1. openCount[j] = Cardinality(Openers(j)) /\ openCount[j] \in Nat
      BY <1>0, <2>1, <2>2 DEF Types, TypeOK
    <3>2. openCount'[j] = openCount[j] - 1
      BY <1>2, <2>2, <3>1 DEF Types, TypeOK
    <3>3. /\ devRefs'[j] = devRefs[j] - 1 /\ cdevRefs'[j] = cdevRefs[j]
          /\ live'[j] = live[j]
      BY <1>5, <1>6, <2>2 DEF memVars
    <3>4. /\ Adds(j)' = Adds(j) /\ Creates(j)' = Creates(j) /\ Files(j)' = Files(j)
          /\ Cardinality(Openers(j)') = Cardinality(Openers(j)) - 1
          /\ devRefs[j] > 0 /\ Creates(j) \in {0, 1}
          /\ Cardinality(Openers(j)) \in Nat
      BY <1>0, <1>1, <1>2, <2>2 DEF Creates
    <3>5. QED
      BY <2>1, <3>1, <3>2, <3>3, <3>4
  <2>3. CASE j # i
    BY <1>1, <1>5, <1>6, <2>1, <2>3 DEF Types, TypeOK, memVars
  <2>4. QED
    BY <2>2, <2>3
<1>9. FoundInv'
  BY <1>6, WatchedReaders
<1>10. FileInv' /\ MinorInv' /\ StateInv' /\ OwnInv'
  BY <1>5, <1>6 DEF FileInv, MinorInv, StateInv, OwnInv, Unbound, Types, TypeOK, memVars
<1>11. FreshInv'
  <2>1. \A d \in Devices : dpc[d] \in {"setup", "register"} => own[d] # i
    BY <1>0 DEF FreshInv
  <2>2. \A d \in Devices : dpc[d] \in {"setup", "register"} => own[d] \in Memory
    BY Facts DEF OwnInv, Unbound
  <2>3. QED
    BY <1>5, <1>6, <2>1, <2>2 DEF FreshInv, memVars
<1>12. Types'
  <2>1. devRefs' \in [Memory -> Nat]
    BY <1>4 DEF PutDev, Types, TypeOK
  <2>2. QED
    BY <1>5, <1>6, <1>7, <2>1, WatchedReaders DEF Types, TypeOK, ProcLabels, memVars
<1>13. ServeInv'
  BY <1>6 DEF ServeInv, Serves, Serving
<1>14. LockInv'
  BY <1>6, WatchedReaders DEF LockInv, Serves, Serving, Types, TypeOK
<1>15. QED
  BY <1>3, <1>8, <1>9, <1>10, <1>11, <1>12, <1>13, <1>14

(* The last file of a removed device takes the instance with it.           *)
LEMMA ClosePutInd ==
  ASSUME Assumptions, IndInv, Watched, NEW p \in Procs, ClosePut(p)
  PROVE  IndInv'
<1> USE DEF IndInv, ClosePut, Step, mutexVars, bindVars
<1> PICK i \in Memory : i = at[p]
  BY Facts
<1>0. devRefs[i] > 0 /\ cdevRefs[i] > 0 /\ live[i]
  BY Facts
<1>1. /\ \A j \in Memory : Adds(j)' = Adds(j) /\ Creates(j)' = Creates(j)
      /\ \A j \in Memory : Openers(j)' = Openers(j)
      /\ \A j \in Memory \ {i} : Files(j)' = Files(j)
      /\ Files(i)' = Files(i) \ {p}
      /\ p \in Files(i)
  <2>1. /\ ppc[p] = "closing" /\ ppc'[p] = "idle" /\ at'[p] = None /\ None \notin Memory
        /\ \A q \in Procs \ {p} : ppc'[q] = ppc[q] /\ at'[q] = at[q]
    BY DEF Types, TypeOK, Assumptions, InstanceAssumption
  <2>2. \A j \in Memory : Openers(j)' = Openers(j)
    BY <2>1 DEF Openers
  <2>3. \A j \in Memory \ {i} : Files(j)' = Files(j)
    BY <2>1 DEF Files
  <2>4. Files(i)' = Files(i) \ {p} /\ p \in Files(i)
    BY <2>1 DEF Files
  <2>5. QED
    BY <2>2, <2>3, <2>4, SameClaims
<1>2. /\ IsFiniteSet(Files(i)')
      /\ Cardinality(Files(i)') = Cardinality(Files(i)) - 1
      /\ Cardinality(Files(i)) \in Nat
      /\ Cardinality(Files(i)) > 0
  <2>1. IsFiniteSet(Files(i))
    BY DEF FinInv
  <2>2. Cardinality(Files(i)) # 0 /\ Cardinality(Files(i)) \in Nat
    BY <1>1, <2>1, FS_EmptySet, FS_CardinalityType
  <2>3. QED
    BY <1>1, <2>1, <2>2, FS_RemoveElement
<1>3. FinInv'
  BY <1>1, <1>2 DEF FinInv
<1>4. /\ cdevRefs' \in [Memory -> Nat]
      /\ \A j \in Memory : cdevRefs'[j] = IF j = i THEN cdevRefs[i] - 1 ELSE cdevRefs[j]
  BY <1>0 DEF PutCdev, Types, TypeOK
<1>5. /\ MinorInv'
      /\ live' \in [Memory -> BOOLEAN]
      /\ dev' \in [Memory -> Devices \cup {None}]
      /\ minor' \in [Memory -> Minors \cup {NoMinor}]
      /\ minors' \subseteq Minors
      /\ devRefs' \in [Memory -> Nat]
      /\ \A j \in Memory : devRefs'[j] =
           IF j = i /\ cdevRefs[i] = 1 THEN devRefs[i] - 1 ELSE devRefs[j]
      /\ \A j \in Memory : j # i \/ devRefs'[j] > 0 =>
                             live'[j] = live[j] /\ dev'[j] = dev[j]
      /\ devRefs'[i] = 0 => ~live'[i]
  <2>1. CASE cdevRefs[i] = 1
    <3>1. PutDev(i)
      BY <2>1 DEF PutCdev
    <3>2. QED
      BY <1>0, <2>1, <3>1, PutDevMemory
  <2>2. CASE cdevRefs[i] # 1
    <3>1. UNCHANGED <<devRefs, live, dev, minor, minors>>
      BY <2>2 DEF PutCdev, memVars
    <3>2. MinorInv'
      BY <3>1 DEF MinorInv
    <3>3. QED
      BY <1>0, <2>2, <3>1, <3>2 DEF Types, TypeOK
  <2>3. QED
    BY <2>1, <2>2
<1>6. RefInv'
  <2> SUFFICES ASSUME NEW j \in Memory
               PROVE  /\ cdevRefs'[j] = Adds(j)' + Cardinality(Files(j)')
                      /\ devRefs'[j] = Creates(j)' + Cardinality(Openers(j)')
                                         + (IF cdevRefs'[j] > 0 THEN 1 ELSE 0)
                      /\ devRefs'[j] > 0 =>
                           live'[j] /\ openCount'[j] = Cardinality(Openers(j)')
    BY DEF RefInv
  <2>1. /\ cdevRefs[j] = Adds(j) + Cardinality(Files(j))
        /\ devRefs[j] = Creates(j) + Cardinality(Openers(j))
                          + (IF cdevRefs[j] > 0 THEN 1 ELSE 0)
        /\ devRefs[j] > 0 => live[j] /\ openCount[j] = Cardinality(Openers(j))
    BY DEF RefInv
  <2>2. CASE j = i
    <3>1. /\ Adds(j)' = Adds(j) /\ Creates(j)' = Creates(j) /\ Openers(j)' = Openers(j)
          /\ Cardinality(Files(j)') = Cardinality(Files(j)) - 1
          /\ openCount'[j] = openCount[j]
          /\ cdevRefs[j] > 0
      BY <1>0, <1>1, <1>2, <2>2
    <3>2. /\ cdevRefs'[j] = cdevRefs[j] - 1
          /\ devRefs'[j] = IF cdevRefs[j] = 1 THEN devRefs[j] - 1 ELSE devRefs[j]
          /\ devRefs'[j] > 0 => live'[j] = live[j]
      BY <1>4, <1>5, <2>2
    <3>3. /\ Cardinality(Files(j)) \in Nat /\ Cardinality(Openers(j)) \in Nat
          /\ Adds(j) \in {0, 1} /\ Creates(j) \in {0, 1}
          /\ cdevRefs[j] \in Nat /\ devRefs[j] \in Nat
      BY FileCounts DEF Adds, Creates, Types, TypeOK
    <3>4. cdevRefs'[j] = Adds(j)' + Cardinality(Files(j)')
      BY <2>1, <3>1, <3>2, <3>3
    <3>5. devRefs'[j] = Creates(j)' + Cardinality(Openers(j)')
                          + (IF cdevRefs'[j] > 0 THEN 1 ELSE 0)
      <4>1. CASE cdevRefs[j] = 1
        <5>1. devRefs'[j] = devRefs[j] - 1 /\ cdevRefs'[j] = 0
          BY <3>2, <4>1
        <5>2. devRefs[j] = Creates(j) + Cardinality(Openers(j)) + 1
          BY <2>1, <4>1
        <5>3. QED
          BY <3>1, <3>3, <5>1, <5>2
      <4>2. CASE cdevRefs[j] # 1
        <5>1. devRefs'[j] = devRefs[j] /\ cdevRefs'[j] > 0
          BY <3>1, <3>2, <3>3, <4>2
        <5>2. devRefs[j] = Creates(j) + Cardinality(Openers(j)) + 1
          BY <2>1, <3>1
        <5>3. QED
          BY <3>1, <5>1, <5>2
      <4>3. QED
        BY <4>1, <4>2
    <3>6. devRefs'[j] > 0 => live'[j] /\ openCount'[j] = Cardinality(Openers(j)')
      <4>1. devRefs'[j] > 0 => devRefs[j] > 0
        BY <3>2, <3>3
      <4>2. QED
        BY <2>1, <3>1, <3>2, <4>1
    <3>7. QED
      BY <3>4, <3>5, <3>6
  <2>3. CASE j # i
    BY <1>1, <1>4, <1>5, <2>1, <2>3 DEF Types, TypeOK
  <2>4. QED
    BY <2>2, <2>3
<1>7. \A j \in Memory : devRefs'[j] > 0 => devRefs[j] > 0
  BY <1>0, <1>5
<1>8. \A d \in Devices : own[d] = i => devRefs'[i] > 0
  <2> SUFFICES ASSUME NEW d \in Devices, own[d] = i PROVE devRefs'[i] > 0
    OBVIOUS
  <2>1. dpc[d] \in Created
    BY <1>0 DEF FreshInv, OwnInv, Unbound, Types, TypeOK, BindLabels, Created, Assumptions,
                InstanceAssumption
  <2>2. Creates(i) = 1
    BY <2>1 DEF Creates
  <2>3. Cardinality(Openers(i)) \in Nat
    BY FileCounts
  <2>4. QED
    BY <1>0, <1>5, <2>2, <2>3 DEF RefInv, Types, TypeOK
<1>9. \A d \in Devices : own[d] # None =>
        live'[own[d]] = live[own[d]] /\ dev'[own[d]] = dev[own[d]]
  BY <1>5, <1>8, Facts
<1>10. FoundInv'
  BY <1>5, WatchedReaders DEF Types, TypeOK
<1>11. FileInv' /\ StateInv' /\ OwnInv'
  BY <1>9
     DEF FileInv, StateInv, OwnInv, Unbound, Types, TypeOK, Assumptions,
         InstanceAssumption
<1>12. FreshInv'
  <2>1. \A d \in Devices : dpc[d] \in {"setup", "register"} => own[d] # i
    BY <1>0 DEF FreshInv
  <2>2. \A d \in Devices : dpc[d] \in {"setup", "register"} => own[d] \in Memory
    BY Facts DEF OwnInv, Unbound
  <2>3. \A d \in Devices : dpc'[d] \in {"setup", "register"} => devRefs'[own'[d]] = 0
    BY <1>5, <2>1, <2>2 DEF FreshInv
  <2>4. \A j \in Memory : live'[j] => devRefs'[j] > 0 \/ \E d \in Devices : own'[d] = j
    <3> SUFFICES ASSUME NEW j \in Memory, live'[j], ~(devRefs'[j] > 0)
                 PROVE  \E d \in Devices : own[d] = j
      OBVIOUS
    <3>1. devRefs'[j] = 0
      BY <1>5
    <3>2. j # i
      BY <1>5, <3>1
    <3>3. live[j] /\ devRefs[j] = 0
      BY <1>5, <3>1, <3>2
    <3>4. QED
      BY <3>3 DEF FreshInv
  <2>5. QED
    BY <2>3, <2>4 DEF FreshInv
<1>13. Types'
  <2>1. /\ ppc' \in [Procs -> ProcLabels] /\ at' \in [Procs -> Memory \cup {None}]
    BY DEF Types, TypeOK, ProcLabels
  <2>2. /\ rpc' \in [Readers -> {"idle", "found", "query", "lost"}]
        /\ target' = target
    BY <1>5, WatchedReaders DEF Types, TypeOK
  <2>3. QED
    BY <1>4, <1>5, <2>1, <2>2 DEF Types, TypeOK
<1>14. ServeInv'
  BY <1>7 DEF ServeInv, Serves, Serving
<1>15. LockInv'
  <2>1. \A r \in Readers : rpc'[r] = "query" <=> rpc[r] = "query"
    BY <1>5, WatchedReaders DEF Types, TypeOK
  <2>2. target' = target
    BY DEF Watched
  <2>3. \A q \in Procs : ppc'[q] = "xfer" => q # p /\ ppc[q] = "xfer" /\ at'[q] = at[q]
    BY DEF Types, TypeOK
  <2>4. QED
    BY <2>1, <2>2, <2>3 DEF LockInv, Serves, Serving
<1>16. QED
  BY <1>3, <1>5, <1>6, <1>10, <1>11, <1>12, <1>13, <1>14, <1>15
-------------------------------------------------------------------------------
(* A reader finds an instance that is bound, and therefore referenced.     *)
LEMMA FindInd ==
  ASSUME Assumptions, IndInv, NEW r \in Readers, Find(r)
  PROVE  IndInv'
<1> USE DEF IndInv, Find, Advance
<1> PICK d \in Devices : /\ Listed(d) /\ drvdata[d] # None
                         /\ target' = [target EXCEPT ![r] = drvdata[d]]
  OBVIOUS
<1>1. dpc[d] = "bound" /\ own[d] = drvdata[d] /\ own[d] \in Memory
  BY Facts DEF OwnInv, Unbound
<1>2. devRefs[own[d]] > 0
  <2>1. Creates(own[d]) = 1
    BY <1>1 DEF Creates, Created
  <2>2. QED
    BY <1>1, <2>1, FileCounts DEF RefInv
<1>3. Types'
  BY <1>1 DEF Types, TypeOK, vars
<1>4. FoundInv'
  BY <1>1, <1>2 DEF FoundInv, Types, vars, Assumptions, InstanceAssumption
<1>5. LockInv'
  BY DEF LockInv, Serving, Serves, Types, vars
<1>6. /\ OwnInv' /\ FileInv' /\ FreshInv' /\ MinorInv' /\ ServeInv' /\ StateInv'
  BY DEF OwnInv, Unbound, FileInv, FreshInv, MinorInv, ServeInv, Serving, Serves,
         StateInv, vars
<1>7. FinInv' /\ RefInv'
  BY SameRefs DEF vars, refVars, Adds, Creates
<1>8. QED
  BY <1>3, <1>4, <1>5, <1>6, <1>7

(* It claims the instance like an ioctl does, asks, and gives it back.     *)
LEMMA QueryInd ==
  ASSUME Assumptions, IndInv, NEW r \in Readers, Query(r) \/ Busy(r) \/ Answer(r)
  PROVE  IndInv'
<1> USE DEF IndInv, Query, Busy, Answer, Advance
<1>1. UNCHANGED <<bindVars, devState, online, transport, memVars, refVars, procVars>>
  BY DEF vars, bindVars, memVars, refVars, procVars
<1> USE DEF bindVars, memVars, refVars, procVars
<1>2. /\ OwnInv' /\ FileInv' /\ FreshInv' /\ MinorInv' /\ ServeInv' /\ StateInv'
  BY <1>1
     DEF OwnInv, Unbound, FileInv, FreshInv, MinorInv, ServeInv, Serving, Serves,
         StateInv
<1>3. FinInv' /\ RefInv'
  BY <1>1, SameRefs DEF Adds, Creates
<1> PICK i \in Memory : i = target[r]
  BY DEF FoundInv, LockInv, Types
<1>4. lock' \in [Memory -> Holders] /\ \A j \in Memory \ {i} : lock'[j] = lock[j]
  BY DEF Types, Holders, vars
<1>5. /\ rpc' \in [Readers -> {"idle", "found", "query", "lost"}]
      /\ target' \in [Readers -> Memory \cup {None}]
      /\ \A s \in Readers \ {r} : rpc'[s] = rpc[s] /\ target'[s] = target[s]
      /\ rpc'[r] # "found"
  BY DEF Types
<1>6. Types'
  BY <1>1, <1>4, <1>5 DEF Types, TypeOK
<1>7. FoundInv'
  BY <1>1, <1>5 DEF FoundInv
<1>8. LockInv'
  <2> USE DEF Serving, Serves
  <2>1. CASE Query(r)
    <3>1. Serving(i)
      BY <2>1 DEF ServeInv, FoundInv
    <3>2. /\ \A q \in Procs : ppc[q] = "xfer" => at[q] # i
          /\ \A s \in Readers : rpc[s] = "query" => target[s] # i
          /\ \A d \in Devices : dpc[d] \in {"cleanup", "unlock"} => own[d] # i
      BY <2>1 DEF LockInv, Assumptions, InstanceAssumption, ReaderAssumption
    <3>3. lock'[i] = r /\ target'[r] = i /\ i # None
      BY <2>1 DEF Types, Assumptions, InstanceAssumption
    <3>4. QED
      BY <1>1, <1>4, <1>5, <3>1, <3>2, <3>3, Facts DEF LockInv, OwnInv, Unbound, Types
  <2>2. CASE Busy(r)
    BY <1>1, <1>5, <2>2 DEF LockInv, Types, vars
  <2>3. CASE Answer(r)
    <3>1. lock[i] = r
      BY <2>3 DEF LockInv
    <3>2. /\ \A q \in Procs : ppc[q] = "xfer" => at[q] # i
          /\ \A s \in Readers \ {r} : rpc[s] = "query" => target[s] # i
          /\ \A d \in Devices : dpc[d] \in {"cleanup", "unlock"} => own[d] # i
      BY <3>1 DEF LockInv, Assumptions, InstanceAssumption, ReaderAssumption
    <3>3. rpc'[r] = "idle"
      BY <2>3 DEF Types
    <3>4. QED
      BY <1>1, <1>4, <1>5, <3>2, <3>3, Facts DEF LockInv, OwnInv, Unbound, Types
  <2>4. QED
    BY <2>1, <2>2, <2>3
<1>9. QED
  BY <1>2, <1>3, <1>6, <1>7, <1>8

(* Every step preserves the invariant. *)
LEMMA NextInd == Assumptions /\ IndInv /\ [DiagNext]_allVars => IndInv'
<1> SUFFICES ASSUME Assumptions, IndInv, [DiagNext]_allVars PROVE IndInv'
  OBVIOUS
<1>1. CASE InstanceStep
  <2>1. Next /\ Watched
    BY <1>1 DEF InstanceStep, Watched
  <2>2. ASSUME NEW d \in Devices, Probe(d) PROVE IndInv'
    BY <2>1, <2>2, BindFailsInd, ProbeAllocInd, SetupTransportInd, ProbeUndoInd,
       RegisterNodeInd, PublishInd
       DEF Probe
  <2>3. ASSUME NEW d \in Devices, Remove(d) PROVE IndInv'
    BY <2>1, <2>3, RemoveTakeInd, RemoveShutdownInd, RemoveCleanupInd, RemoveUnlockInd,
       RemoveNodeInd, RemovePutInd
       DEF Remove
  <2>4. ASSUME NEW p \in Procs, Process(p) PROVE IndInv'
    BY <2>1, <2>4, OpenGetInd, OpenInd, TransferInd, CloseInd, ClosePutInd DEF Process
  <2>5. QED
    BY <2>1, <2>2, <2>3, <2>4 DEF Next
<1>2. ASSUME NEW r \in Readers, Reader(r) PROVE IndInv'
  BY <1>2, FindInd, QueryInd DEF Reader
<1>3. CASE UNCHANGED allVars
  <2> USE <1>3 DEF IndInv, allVars, vars, diagVars
  <2>1. /\ Types' /\ OwnInv' /\ FileInv' /\ FreshInv' /\ MinorInv' /\ ServeInv'
        /\ LockInv' /\ FoundInv' /\ StateInv'
    BY DEF Types, TypeOK, OwnInv, Unbound, FileInv, FreshInv, MinorInv, ServeInv, Serving,
           Serves, LockInv, FoundInv, StateInv
  <2>2. FinInv' /\ RefInv'
    BY SameRefs DEF refVars, Adds, Creates
  <2>3. QED
    BY <2>1, <2>2
<1>4. QED
  BY <1>1, <1>2, <1>3 DEF DiagNext
-------------------------------------------------------------------------------
(* IndInv is an invariant of the nodes and the diagnostic files. *)
THEOREM Invariant ==
  ASSUME Assumptions
  PROVE  DiagSpec => []IndInv
<1>1. DiagInit => IndInv
  BY InitInd
<1>2. IndInv /\ [DiagNext]_allVars => IndInv'
  BY NextInd
<1>3. QED
  BY <1>1, <1>2, PTL DEF DiagSpec

(* Type correctness. *)
THEOREM TypeCorrect ==
  ASSUME Assumptions
  PROVE  DiagSpec => []TypeOK
<1>1. IndInv => TypeOK
  BY DEF IndInv, Types
<1>2. QED
  BY <1>1, Invariant, PTL

(* Whatever a process does with a node it has open, its instance has not   *)
(* been freed (pdm_cdev_default_open and _release).                        *)
THEOREM FilesAreSafe ==
  ASSUME Assumptions
  PROVE  DiagSpec => []OpenFilesAreSafe
<1>1. IndInv => OpenFilesAreSafe
  <2> SUFFICES ASSUME IndInv, NEW p \in Procs, at[p] # None
               PROVE  /\ live[at[p]] /\ minor[at[p]] # NoMinor
                      /\ \A d \in Devices : own[d] = at[p] => dpc[d] \in Created
    BY DEF OpenFilesAreSafe
  <2>1. at[p] \in Memory /\ devRefs[at[p]] > 0 /\ live[at[p]]
    BY Facts DEF IndInv, FileInv
  <2>2. minor[at[p]] # NoMinor
    BY <2>1 DEF IndInv, MinorInv
  <2>3. ASSUME NEW d \in Devices, own[d] = at[p] PROVE dpc[d] \in Created
    BY <2>1, <2>3 DEF IndInv, Types, TypeOK, FreshInv, OwnInv, Unbound, BindLabels, Created
  <2>4. QED
    BY <2>1, <2>2, <2>3
<1>2. QED
  BY <1>1, Invariant, PTL

(* Every reference that is counted on an instance or its cdev has an owner,*)
(* and the open count is the number of open files.                         *)
THEOREM ReferencesAreExact ==
  ASSUME Assumptions
  PROVE  DiagSpec => []ReferencesExact
<1>1. IndInv => ReferencesExact
  <2> SUFFICES ASSUME IndInv, NEW i \in Memory
               PROVE  LET creators == {d \in Devices : own[d] = i /\ dpc[d] \in Created}
                          adders == {d \in Devices : own[d] = i /\ dpc[d] \in Added}
                      IN /\ cdevRefs[i] = Cardinality(adders) + Cardinality(Files(i))
                         /\ devRefs[i] = Cardinality(creators) + Cardinality(Openers(i))
                                           + (IF cdevRefs[i] > 0 THEN 1 ELSE 0)
                         /\ live[i] /\ minor[i] # NoMinor =>
                              openCount[i] = Cardinality(Openers(i))
    BY DEF ReferencesExact
  <2> DEFINE creators == {d \in Devices : own[d] = i /\ dpc[d] \in Created}
             adders == {d \in Devices : own[d] = i /\ dpc[d] \in Added}
  <2>1. \A d, e \in Devices : own[d] = i /\ own[e] = i => d = e
    BY Facts DEF Assumptions, InstanceAssumption
  <2>2. Cardinality(creators) = Creates(i)
    <3>1. CASE creators = {}
      BY <3>1, FS_EmptySet DEF Creates
    <3>2. CASE creators # {}
      <4> PICK d \in Devices : d \in creators
        BY <3>2
      <4>1. creators = {d}
        BY <2>1
      <4>2. QED
        BY <4>1, FS_Singleton DEF Creates
    <3>3. QED
      BY <3>1, <3>2
  <2>3. Cardinality(adders) = Adds(i)
    <3>1. CASE adders = {}
      BY <3>1, FS_EmptySet DEF Adds
    <3>2. CASE adders # {}
      <4> PICK d \in Devices : d \in adders
        BY <3>2
      <4>1. adders = {d}
        BY <2>1
      <4>2. QED
        BY <4>1, FS_Singleton DEF Adds
    <3>3. QED
      BY <3>1, <3>2
  <2>4. minor[i] # NoMinor => devRefs[i] > 0
    BY DEF IndInv, MinorInv
  <2>5. QED
    BY <2>2, <2>3, <2>4 DEF IndInv, RefInv
<1>2. QED
  BY <1>1, Invariant, PTL

(* Neither storage nor a minor stays reserved without a thread or a file   *)
(* that still needs it.                                                    *)
THEOREM NothingIsLeaked ==
  ASSUME Assumptions
  PROVE  DiagSpec => []NothingLeaks
<1>1. IndInv => NothingLeaks
  <2> SUFFICES ASSUME IndInv PROVE NothingLeaks
    OBVIOUS
  <2> USE DEF IndInv
  <2>1. ASSUME NEW i \in Memory, live[i]
        PROVE  (\E d \in Devices : own[d] = i) \/ Files(i) # {}
    <3> SUFFICES ASSUME \A d \in Devices : own[d] # i, Files(i) = {} PROVE FALSE
      OBVIOUS
    <3>1. devRefs[i] > 0
      BY <2>1 DEF FreshInv
    <3>2. Adds(i) = 0 /\ Creates(i) = 0
      BY DEF Adds, Creates
    <3>3. Cardinality(Files(i)) = 0
      BY FS_EmptySet
    <3>4. Openers(i) = {}
      BY DEF Openers, Files
    <3>5. Cardinality(Openers(i)) = 0
      BY <3>4, FS_EmptySet
    <3>6. QED
      BY <3>1, <3>2, <3>3, <3>5 DEF RefInv
  <2>2. minors = {minor[i] : i \in {j \in Memory : minor[j] # NoMinor}}
    <3>1. \A m \in minors : m # NoMinor
      BY DEF Types, TypeOK, Assumptions, InstanceAssumption, NoMinor
    <3>2. QED
      BY <3>1 DEF MinorInv
  <2>3. \A i, j \in Memory : minor[i] = minor[j] /\ minor[i] # NoMinor => i = j
    BY DEF MinorInv
  <2>4. \A i \in Memory : minor[i] # NoMinor => live[i]
    BY DEF MinorInv, RefInv
  <2>5. QED
    BY <2>1, <2>2, <2>3, <2>4 DEF NothingLeaks
<1>2. QED
  BY <1>1, Invariant, PTL

(* Transfers of the ioctls run one at a time on a transport that is set    *)
(* up, and none after remove has shut the instance down                    *)
(* (pdm_driver_claim, pdm_driver_shutdown).                                *)
THEOREM TransfersAreExclusive ==
  ASSUME Assumptions
  PROVE  DiagSpec => []TransfersExclusive
<1>1. IndInv => TransfersExclusive
  <2> SUFFICES ASSUME IndInv, NEW p \in Procs, ppc[p] = "xfer"
               PROVE  /\ transport[at[p]]
                      /\ \A q \in Procs \ {p} : ~(ppc[q] = "xfer" /\ at[q] = at[p])
                      /\ \E d \in Devices :
                           own[d] = at[p] /\ dpc[d] \in {"publish", "bound", "shutdown"}
    BY DEF TransfersExclusive
  <2>1. at[p] \in Memory /\ lock[at[p]] = p /\ Serving(at[p])
    BY Facts DEF IndInv, LockInv
  <2>2. transport[at[p]]
    BY <2>1 DEF IndInv, ServeInv, Serving
  <2>3. QED
    BY <2>1, <2>2 DEF IndInv, LockInv, Serving, Serves
<1>2. QED
  BY <1>1, Invariant, PTL

(* The same for the requests of the diagnostic files, among themselves and *)
(* next to the ioctls (pdm_mcu_proc_show, pdm_mcu_proc_write).             *)
THEOREM QueriesAreExclusive ==
  ASSUME Assumptions
  PROVE  DiagSpec => []QueriesExclusive
<1>1. IndInv => QueriesExclusive
  <2> SUFFICES ASSUME IndInv, NEW r \in Readers, rpc[r] = "query"
               PROVE  /\ live[target[r]] /\ transport[target[r]]
                      /\ \A p \in Procs : ~(ppc[p] = "xfer" /\ at[p] = target[r])
                      /\ \A s \in Readers \ {r} :
                           ~(rpc[s] = "query" /\ target[s] = target[r])
                      /\ \E d \in Devices :
                           /\ own[d] = target[r]
                           /\ dpc[d] \in {"publish", "bound", "shutdown"}
    BY DEF QueriesExclusive
  <2>1. target[r] \in Memory /\ lock[target[r]] = r /\ Serving(target[r])
    BY DEF IndInv, LockInv, Types
  <2>2. live[target[r]] /\ transport[target[r]]
    BY <2>1, Facts DEF IndInv, ServeInv, Serving, Assumptions, InstanceAssumption
  <2>3. \A p \in Procs : ~(ppc[p] = "xfer" /\ at[p] = target[r])
    BY <2>1 DEF IndInv, LockInv, Assumptions, ReaderAssumption
  <2>4. QED
    BY <2>1, <2>2, <2>3 DEF IndInv, LockInv, Serving, Serves
<1>2. QED
  BY <1>1, Invariant, PTL

(* Neither a failed probe nor a remove leaves a transport set up, and no   *)
(* ioctl that outlives the remove writes the state of the device           *)
(* (pdm_mcu_update_state_locked).                                          *)
THEOREM BindingsEndClean ==
  ASSUME Assumptions
  PROVE  DiagSpec => []NothingOutlivesBinding
<1>1. IndInv => NothingOutlivesBinding
  BY DEF IndInv, ServeInv, Serves, StateInv, NothingOutlivesBinding, Unbound
<1>2. QED
  BY <1>1, Invariant, PTL

(* What the file operations of a node rely on, at every moment of a remove *)
(* (pdm_cdev_register, pdm_cdev_unregister, pdm_mcu_remove).               *)
THEOREM InstancesAreKept ==
  ASSUME Assumptions
  PROVE  DiagSpec => []FilesKeepInstance
<1>1. /\ OpenFilesAreSafe /\ ReferencesExact /\ NothingLeaks /\ NothingOutlivesBinding
      => FilesKeepInstance
  BY DEF FilesKeepInstance
<1>2. QED
  BY <1>1, FilesAreSafe, ReferencesAreExact, NothingIsLeaked, BindingsEndClean, PTL

(* What the mutex of an instance and its flag give: one request at a time, *)
(* and none after the shutdown.                                            *)
THEOREM RequestsAreExclusive ==
  ASSUME Assumptions
  PROVE  DiagSpec => []RequestsExclusive
<1>1. TransfersExclusive /\ QueriesExclusive => RequestsExclusive
  BY DEF RequestsExclusive
<1>2. QED
  BY <1>1, TransfersAreExclusive, QueriesAreExclusive, PTL
===============================================================================
