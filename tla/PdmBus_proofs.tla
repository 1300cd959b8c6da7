----------------------------- MODULE PdmBus_proofs -----------------------------
(***************************************************************************)
(* Proofs about PdmBus for any devices, types and numbers.                 *)
(*                                                                         *)
(* What a number's reservation means is spread over the allocator, the     *)
(* local variable of the binding thread and the fields of the device;      *)
(* IndInv ties them to the position of the thread that holds the device's  *)
(* lock, and from it the promises of PdmBus and the refinement of          *)
(* PdmIdService follow.                                                    *)
(***************************************************************************)
EXTENDS PdmBus, FiniteSetTheorems, SequenceTheorems, TLAPS

(* Every label belongs to a device that is on the bus, or just left it.    *)
LifeInv ==
  \A d \in Devices : pc[d] # "unbound" => life[d] \in {"added", "dying"}

(* The thread knows its number from ida_alloc until the fields are reset.  *)
GrantInv ==
  \A d \in Devices :
    pc[d] \in Holding \cup {"unbind_count", "unbind_clear"} => grant[d] \in Ids

(* The fields carry the number and the type from bind to the end of unbind. *)
FieldsInv ==
  \A d \in Devices :
    pc[d] \in Marked => idAllocated[d] /\ id[d] = grant[d] /\ type[d] = TypeOf[d]

(* Without them the device looks as it did before it was ever bound.       *)
CleanInv ==
  \A d \in Devices :
    pc[d] \notin Marked =>
      ~idAllocated[d] /\ id[d] = requested[d] /\ type[d] = INVALID /\ caps[d] = {}

(* The node exists while the driver serves the device, under the number.   *)
NodeInv ==
  \A d \in Devices :
    node[d] = IF pc[d] \in Served THEN <<TypeOf[d], grant[d]>> ELSE NoNode

(* The number is the one requested already before it reaches the fields.   *)
RequestInv ==
  \A d \in Devices :
    /\ pc[d] \in Holding \cup {"unbind_count", "unbind_clear"}
    /\ requested[d] # NoId
    => grant[d] = requested[d]

IndInv ==
  /\ TypeOK
  /\ LifeInv
  /\ GrantInv
  /\ FieldsInv
  /\ CleanInv
  /\ NodeInv
  /\ RequestInv
  /\ UniqueInstances
  /\ NoIdLeak
-------------------------------------------------------------------------------
(* Taking one element out of a sequence leaves a sequence.                 *)
LEMMA UnlinkTyping ==
  ASSUME NEW S, NEW s \in Seq(S), NEW k \in 1..Len(s)
  PROVE  SubSeq(s, 1, k - 1) \o SubSeq(s, k + 1, Len(s)) \in Seq(S)
<1>1. SubSeq(s, 1, k - 1) \in Seq(S)
  BY SubSeqProperties
<1>2. SubSeq(s, k + 1, Len(s)) \in Seq(S)
  BY SubSeqProperties
<1>3. QED
  BY <1>1, <1>2, ConcatProperties

(* The initial state satisfies the invariant. *)
LEMMA InitInd == Init => IndInv
<1> SUFFICES ASSUME Init PROVE IndInv
  OBVIOUS
<1> USE BusAssumption DEF BusAssumption, Init
<1>1. TypeOK
  BY DEF TypeOK, NoId, NoGrant, NoNode, States, Labels, Instances
<1>2. LifeInv /\ GrantInv /\ FieldsInv /\ CleanInv /\ NodeInv /\ RequestInv
  BY DEF LifeInv, GrantInv, FieldsInv, CleanInv, NodeInv, RequestInv, Holding,
         Marked, Served
<1>3. UniqueInstances /\ NoIdLeak
  BY DEF UniqueInstances, NoIdLeak, Holding, Holds
<1>4. QED
  BY <1>1, <1>2, <1>3 DEF IndInv

(* A step that leaves every allocator and every device's holding alone     *)
(* keeps the correspondence between the two.                               *)
LEMMA SameHoldings ==
  ASSUME UniqueInstances, NoIdLeak, ida' = ida,
         \A e \in Devices : /\ pc'[e] \in Holding <=> pc[e] \in Holding
                           /\ Holds(e)' = Holds(e)
  PROVE  UniqueInstances' /\ NoIdLeak'
<1>1. UniqueInstances'
  BY DEF UniqueInstances
<1>2. NoIdLeak'
  BY DEF NoIdLeak
<1>3. QED
  BY <1>1, <1>2

(* The enumerator's steps concern devices nobody is binding.               *)
LEMMA EnumerateInd ==
  ASSUME IndInv, NEW d \in Devices, Enumerate(d)
  PROVE  IndInv'
<1> USE BusAssumption DEF BusAssumption, IndInv
<1>1. CASE \E req \in Requests : Alloc(d, req)
  <2> PICK req \in Requests : Alloc(d, req)
    BY <1>1
  <2> USE DEF Alloc, idVars, errVars, allocVars
  <2>1. pc[d] = "unbound"
    BY DEF LifeInv, TypeOK
  <2>2. TypeOK'
    BY DEF TypeOK, States, NoId
  <2>3. LifeInv' /\ GrantInv' /\ FieldsInv' /\ NodeInv'
    BY <2>1 DEF TypeOK, LifeInv, GrantInv, FieldsInv, NodeInv, Marked
  <2>4. CleanInv' /\ RequestInv'
    BY <2>1 DEF TypeOK, CleanInv, RequestInv, Marked, Holding
  <2>5. UniqueInstances' /\ NoIdLeak'
    BY DEF UniqueInstances, NoIdLeak, Holds
  <2>6. QED
    BY <2>2, <2>3, <2>4, <2>5
<1>2. CASE Register(d) \/ RegisterFails(d) \/ Unregister(d) \/ Release(d)
  <2> USE DEF Register, RegisterFails, Unregister, Release, idVars, errVars, allocVars
  <2>1. UNCHANGED <<requested, id, idAllocated, type, caps, state, lastError,
                    ida, count, node, pc, grant>>
    BY <1>2
  <2>2. bus' \in Seq(Devices)
    <3>1. CASE Register(d)
      BY <3>1, AppendProperties DEF TypeOK
    <3>2. CASE Unregister(d)
      BY <3>2, UnlinkTyping DEF TypeOK
    <3>3. QED
      BY <1>2, <3>1, <3>2 DEF TypeOK
  <2>3. TypeOK'
    BY <1>2, <2>1, <2>2 DEF TypeOK
  <2>4. LifeInv'
    <3>1. CASE Register(d) \/ Unregister(d)
      <4>0. life \in [Devices -> {"none", "allocated", "added", "dying"}]
        BY DEF TypeOK
      <4>1. \A e \in Devices : e # d => life'[e] = life[e]
        BY <3>1, <4>0
      <4>2. life'[d] \in {"added", "dying"}
        BY <3>1, <4>0
      <4>3. QED
        BY <2>1, <4>1, <4>2 DEF LifeInv
    <3>2. CASE RegisterFails(d)
      <4>1. pc[d] = "unbound" /\ \A e \in Devices : e # d => life'[e] = life[e]
        BY <3>2 DEF TypeOK, LifeInv
      <4>2. QED
        BY <2>1, <4>1 DEF LifeInv
    <3>3. CASE Release(d)
      <4>1. pc[d] = "unbound" /\ \A e \in Devices : e # d => life'[e] = life[e]
        BY <3>3 DEF TypeOK, LifeInv
      <4>2. QED
        BY <2>1, <4>1 DEF LifeInv
    <3>4. QED
      BY <1>2, <3>1, <3>2, <3>3
  <2>5. GrantInv' /\ FieldsInv' /\ CleanInv' /\ NodeInv' /\ RequestInv'
    BY <2>1 DEF GrantInv, FieldsInv, CleanInv, NodeInv, RequestInv
  <2>6. UniqueInstances' /\ NoIdLeak'
    BY <2>1 DEF UniqueInstances, NoIdLeak, Holds
  <2>7. QED
    BY <2>3, <2>4, <2>5, <2>6
<1>3. QED
  BY <1>1, <1>2 DEF Enumerate

(* ida_alloc reserves a number nobody holds. *)
LEMMA BindAllocInd ==
  ASSUME IndInv, NEW d \in Devices, BindAlloc(d)
  PROVE  IndInv'
<1> USE BusAssumption DEF BusAssumption, IndInv, BindAlloc, Move, idVars, errVars, lifeVars
<1> PICK i \in Grants(TypeOf[d], requested[d]) :
      /\ ida' = [ida EXCEPT ![TypeOf[d]] = @ \cup {i}]
      /\ grant' = [grant EXCEPT ![d] = i]
  OBVIOUS
<1>1. i \in Ids /\ i \notin ida[TypeOf[d]]
  BY DEF Grants, FreeIds
<1>2. requested[d] # NoId => i = requested[d]
  <2> SUFFICES ASSUME requested[d] # NoId PROVE i = requested[d]
    OBVIOUS
  <2>1. requested[d] >= 0
    <3>1. requested[d] \in Ids \cup {NoId}
      BY DEF TypeOK
    <3>2. requested[d] \in Ids
      BY <3>1
    <3>3. \A n \in Ids : n >= 0
      BY BusAssumption
    <3>4. QED
      BY <3>2, <3>3
  <2>2. Grants(TypeOf[d], requested[d]) = FreeIds(TypeOf[d]) \cap {requested[d]}
    BY <2>1 DEF Grants
  <2>3. QED
    BY <2>2
<1>3. TypeOK'
  <2>a. ida \in [Types -> SUBSET Ids] /\ grant \in [Devices -> Ids \cup {NoGrant}]
    BY DEF TypeOK
  <2>b. ida' \in [Types -> SUBSET Ids]
    <3> HIDE DEF IndInv, BindAlloc, Move
    <3> QED
      BY <1>1, <2>a
  <2>c. grant' \in [Devices -> Ids \cup {NoGrant}]
    <3> HIDE DEF IndInv, BindAlloc, Move
    <3> QED
      BY <1>1, <2>a
  <2>1. ida' \in [Types -> SUBSET Ids] /\ grant' \in [Devices -> Ids \cup {NoGrant}]
    BY <2>b, <2>c
  <2>2. pc' \in [Devices -> Labels]
    BY DEF TypeOK, Labels
  <2>3. UNCHANGED <<bus, life, requested, id, idAllocated, type, caps, state, lastError,
                    count, node>>
    OBVIOUS
  <2>4. QED
    BY <2>1, <2>2, <2>3 DEF TypeOK
<1>4. LifeInv' /\ GrantInv' /\ RequestInv'
  BY <1>1, <1>2 DEF TypeOK, LifeInv, GrantInv, RequestInv, Holding
<1>5. FieldsInv' /\ CleanInv' /\ NodeInv'
  BY DEF TypeOK, FieldsInv, CleanInv, NodeInv, Marked, Served
<1>6. \A e \in Devices \ {d} : Holds(e)' = Holds(e) /\ pc'[e] = pc[e]
  BY DEF TypeOK, Holds
<1>7. Holds(d)' = <<TypeOf[d], i>> /\ pc'[d] \in Holding /\ pc[d] \notin Holding
  BY DEF TypeOK, Holds, Holding
<1>8. \A e \in Devices : pc[e] \in Holding => Holds(e) # <<TypeOf[d], i>>
  BY <1>1 DEF NoIdLeak
<1>9. UniqueInstances'
  BY <1>6, <1>7, <1>8 DEF UniqueInstances
<1>10. NoIdLeak'
  <2> SUFFICES ASSUME NEW t \in Types, NEW j \in Ids
               PROVE  j \in ida'[t] <=>
                        \E e \in Devices : pc'[e] \in Holding /\ Holds(e)' = <<t, j>>
    BY DEF NoIdLeak
  <2>1. CASE <<t, j>> = <<TypeOf[d], i>>
    BY <1>7, <2>1 DEF TypeOK
  <2>2. CASE <<t, j>> # <<TypeOf[d], i>>
    <3>1. j \in ida'[t] <=> j \in ida[t]
      BY <2>2 DEF TypeOK
    <3>2. QED
      BY <1>6, <1>7, <2>2, <3>1 DEF NoIdLeak
  <2>3. QED
    BY <2>1, <2>2
<1>11. QED
  BY <1>3, <1>4, <1>5, <1>9, <1>10

(* The steps of a binding thread that keep its number, and its error paths *)
(* before it has one.                                                      *)
LEMMA BindRestInd ==
  ASSUME IndInv, NEW d \in Devices,
         \/ BindCount(d) \/ BindFields(d) \/ BindState(d)
         \/ BindFails(d) \/ \E e \in Errors : BindFailed(d, e)
  PROVE  IndInv'
<1> USE BusAssumption DEF BusAssumption, IndInv, Move, idVars, errVars, lifeVars, allocVars
<1>1. CASE BindCount(d)
  <2> USE <1>1 DEF BindCount
  <2>1. TypeOK'
    BY DEF TypeOK, Labels
  <2>2. LifeInv' /\ GrantInv' /\ RequestInv'
    BY DEF TypeOK, LifeInv, GrantInv, RequestInv, Holding
  <2>3. FieldsInv' /\ CleanInv' /\ NodeInv'
    BY DEF TypeOK, FieldsInv, CleanInv, NodeInv, Marked, Served
  <2>4. UniqueInstances' /\ NoIdLeak'
    <3>1. \A e \in Devices : /\ pc'[e] \in Holding <=> pc[e] \in Holding
                             /\ Holds(e)' = Holds(e)
      BY DEF TypeOK, Holding, Holds
    <3>2. QED
      BY <3>1, SameHoldings
  <2>5. QED
    BY <2>1, <2>2, <2>3, <2>4
<1>2. CASE BindFields(d)
  <2> USE <1>2 DEF BindFields
  <2>1. TypeOK'
    BY DEF TypeOK, Labels, GrantInv, Holding
  <2>2. LifeInv' /\ GrantInv' /\ RequestInv'
    BY DEF TypeOK, LifeInv, GrantInv, RequestInv, Holding
  <2>3. FieldsInv' /\ CleanInv' /\ NodeInv'
    BY DEF TypeOK, FieldsInv, CleanInv, NodeInv, Marked, Served
  <2>4. UniqueInstances' /\ NoIdLeak'
    <3>1. \A e \in Devices : /\ pc'[e] \in Holding <=> pc[e] \in Holding
                             /\ Holds(e)' = Holds(e)
      BY DEF TypeOK, Holding, Holds
    <3>2. QED
      BY <3>1, SameHoldings
  <2>5. QED
    BY <2>1, <2>2, <2>3, <2>4
<1>3. CASE BindState(d)
  <2> USE <1>3 DEF BindState
  <2>1. TypeOK'
    BY DEF TypeOK, Labels, States
  <2>2. LifeInv' /\ GrantInv' /\ RequestInv'
    BY DEF TypeOK, LifeInv, GrantInv, RequestInv, Holding
  <2>3. FieldsInv' /\ CleanInv' /\ NodeInv'
    BY DEF TypeOK, FieldsInv, CleanInv, NodeInv, Marked, Served
  <2>4. UniqueInstances' /\ NoIdLeak'
    <3>1. \A e \in Devices : /\ pc'[e] \in Holding <=> pc[e] \in Holding
                             /\ Holds(e)' = Holds(e)
      BY DEF TypeOK, Holding, Holds
    <3>2. QED
      BY <3>1, SameHoldings
  <2>5. QED
    BY <2>1, <2>2, <2>3, <2>4
<1>4. CASE BindFails(d)
  <2> USE <1>4 DEF BindFails
  <2>1. TypeOK'
    BY DEF TypeOK, Labels
  <2>2. LifeInv' /\ GrantInv' /\ RequestInv'
    BY DEF TypeOK, LifeInv, GrantInv, RequestInv, Holding
  <2>3. FieldsInv' /\ CleanInv' /\ NodeInv'
    BY DEF TypeOK, FieldsInv, CleanInv, NodeInv, Marked, Served
  <2>4. UniqueInstances' /\ NoIdLeak'
    <3>1. \A e \in Devices : /\ pc'[e] \in Holding <=> pc[e] \in Holding
                             /\ Holds(e)' = Holds(e)
      BY DEF TypeOK, Holding, Holds
    <3>2. QED
      BY <3>1, SameHoldings
  <2>5. QED
    BY <2>1, <2>2, <2>3, <2>4
<1>5. CASE \E e \in Errors : BindFailed(d, e)
  <2> PICK err \in Errors : BindFailed(d, err)
    BY <1>5
  <2> USE DEF BindFailed, RecordError
  <2>1. TypeOK'
    BY DEF TypeOK, Labels, States
  <2>2. LifeInv' /\ GrantInv' /\ RequestInv'
    BY DEF TypeOK, LifeInv, GrantInv, RequestInv, Holding
  <2>3. FieldsInv' /\ CleanInv' /\ NodeInv'
    BY DEF TypeOK, FieldsInv, CleanInv, NodeInv, Marked, Served
  <2>4. UniqueInstances' /\ NoIdLeak'
    <3>1. \A e \in Devices : /\ pc'[e] \in Holding <=> pc[e] \in Holding
                             /\ Holds(e)' = Holds(e)
      BY DEF TypeOK, Holding, Holds
    <3>2. QED
      BY <3>1, SameHoldings
  <2>5. QED
    BY <2>1, <2>2, <2>3, <2>4
<1>6. QED
  BY <1>1, <1>2, <1>3, <1>4, <1>5

(* The driver's probe, its failure, and the tail of pdm_bus_device_probe.  *)
LEMMA ProbeInd ==
  ASSUME IndInv, NEW d \in Devices, Probe(d)
  PROVE  IndInv'
<1> USE BusAssumption DEF BusAssumption, IndInv, Move, idVars, errVars, lifeVars, allocVars
<1>1. CASE ProbeOk(d)
  <2> USE <1>1 DEF ProbeOk
  <2>1. TypeOK'
    BY DEF TypeOK, Labels, Instances, NodeName, GrantInv, FieldsInv, Holding, Marked
  <2>2. LifeInv' /\ GrantInv' /\ RequestInv'
    BY DEF TypeOK, LifeInv, GrantInv, RequestInv, Holding
  <2>3. FieldsInv' /\ CleanInv' /\ NodeInv'
    <3>1. /\ pc[d] = "probe" /\ pc'[d] = "bound_state" /\ node'[d] = NodeName(d)
          /\ \A e \in Devices \ {d} :
                pc'[e] = pc[e] /\ node'[e] = node[e] /\ caps'[e] = caps[e]
      BY DEF TypeOK
    <3>2. UNCHANGED <<requested, id, idAllocated, type, grant>>
      OBVIOUS
    <3>3. FieldsInv'
      BY <3>1, <3>2 DEF FieldsInv, Marked
    <3>4. CleanInv'
      BY <3>1, <3>2 DEF CleanInv, Marked
    <3>5. NodeInv'
      BY <3>1, <3>2 DEF FieldsInv, NodeInv, Marked, Served, NodeName
    <3>6. QED
      BY <3>3, <3>4, <3>5
  <2>4. UniqueInstances' /\ NoIdLeak'
    <3>1. \A e \in Devices : /\ pc'[e] \in Holding <=> pc[e] \in Holding
                             /\ Holds(e)' = Holds(e)
      BY DEF TypeOK, Holding, Holds
    <3>2. QED
      BY <3>1, SameHoldings
  <2>5. QED
    BY <2>1, <2>2, <2>3, <2>4
<1>2. CASE ProbeFails(d)
  <2> USE <1>2 DEF ProbeFails
  <2>1. TypeOK'
    BY DEF TypeOK, Labels
  <2>2. LifeInv' /\ GrantInv' /\ RequestInv'
    BY DEF TypeOK, LifeInv, GrantInv, RequestInv, Holding
  <2>3. FieldsInv' /\ CleanInv' /\ NodeInv'
    BY DEF TypeOK, FieldsInv, CleanInv, NodeInv, Marked, Served
  <2>4. UniqueInstances' /\ NoIdLeak'
    <3>1. \A e \in Devices : /\ pc'[e] \in Holding <=> pc[e] \in Holding
                             /\ Holds(e)' = Holds(e)
      BY DEF TypeOK, Holding, Holds
    <3>2. QED
      BY <3>1, SameHoldings
  <2>5. QED
    BY <2>1, <2>2, <2>3, <2>4
<1>3. CASE \E e \in Errors : ProbeFailed(d, e)
  <2> PICK err \in Errors : ProbeFailed(d, err)
    BY <1>3
  <2> USE DEF ProbeFailed, RecordError
  <2>1. TypeOK'
    BY DEF TypeOK, Labels, States
  <2>2. LifeInv' /\ GrantInv' /\ RequestInv'
    BY DEF TypeOK, LifeInv, GrantInv, RequestInv, Holding
  <2>3. FieldsInv' /\ CleanInv' /\ NodeInv'
    BY DEF TypeOK, FieldsInv, CleanInv, NodeInv, Marked, Served
  <2>4. UniqueInstances' /\ NoIdLeak'
    <3>1. \A e \in Devices : /\ pc'[e] \in Holding <=> pc[e] \in Holding
                             /\ Holds(e)' = Holds(e)
      BY DEF TypeOK, Holding, Holds
    <3>2. QED
      BY <3>1, SameHoldings
  <2>5. QED
    BY <2>1, <2>2, <2>3, <2>4
<1>4. CASE BoundState(d)
  <2> USE <1>4 DEF BoundState
  <2>1. TypeOK'
    BY DEF TypeOK, Labels, States
  <2>2. LifeInv' /\ GrantInv' /\ RequestInv'
    BY DEF TypeOK, LifeInv, GrantInv, RequestInv, Holding
  <2>3. FieldsInv' /\ CleanInv' /\ NodeInv'
    BY DEF TypeOK, FieldsInv, CleanInv, NodeInv, Marked, Served
  <2>4. UniqueInstances' /\ NoIdLeak'
    <3>1. \A e \in Devices : /\ pc'[e] \in Holding <=> pc[e] \in Holding
                             /\ Holds(e)' = Holds(e)
      BY DEF TypeOK, Holding, Holds
    <3>2. QED
      BY <3>1, SameHoldings
  <2>5. QED
    BY <2>1, <2>2, <2>3, <2>4
<1>5. CASE BoundError(d)
  <2> USE <1>5 DEF BoundError
  <2>1. TypeOK'
    BY DEF TypeOK, Labels
  <2>2. LifeInv' /\ GrantInv' /\ RequestInv'
    BY DEF TypeOK, LifeInv, GrantInv, RequestInv, Holding
  <2>3. FieldsInv' /\ CleanInv' /\ NodeInv'
    BY DEF TypeOK, FieldsInv, CleanInv, NodeInv, Marked, Served
  <2>4. UniqueInstances' /\ NoIdLeak'
    <3>1. \A e \in Devices : /\ pc'[e] \in Holding <=> pc[e] \in Holding
                             /\ Holds(e)' = Holds(e)
      BY DEF TypeOK, Holding, Holds
    <3>2. QED
      BY <3>1, SameHoldings
  <2>5. QED
    BY <2>1, <2>2, <2>3, <2>4
<1>6. QED
  BY <1>1, <1>2, <1>3, <1>4, <1>5 DEF Probe

(* Removing the driver, and the two steps of unbind after ida_free.        *)
LEMMA UnbindRestInd ==
  ASSUME IndInv, NEW d \in Devices, Remove(d) \/ UnbindCount(d) \/ UnbindClear(d)
  PROVE  IndInv'
<1> USE BusAssumption DEF BusAssumption, IndInv, Move, idVars, errVars, lifeVars, allocVars
<1>1. CASE Remove(d)
  <2> USE <1>1 DEF Remove
  <2>1. TypeOK'
    BY DEF TypeOK, Labels
  <2>2. LifeInv' /\ GrantInv' /\ RequestInv'
    BY DEF TypeOK, LifeInv, GrantInv, RequestInv, Holding
  <2>3. FieldsInv' /\ CleanInv' /\ NodeInv'
    <3>1. /\ pc[d] = "bound" /\ pc'[d] = "unbind_free" /\ node'[d] = NoNode
          /\ \A e \in Devices \ {d} : pc'[e] = pc[e] /\ node'[e] = node[e]
      BY DEF TypeOK
    <3>2. UNCHANGED <<requested, id, idAllocated, type, grant, caps>>
      OBVIOUS
    <3>3. FieldsInv'
      BY <3>1, <3>2 DEF FieldsInv, Marked
    <3>4. CleanInv'
      BY <3>1, <3>2 DEF CleanInv, Marked
    <3>5. NodeInv'
      BY <3>1, <3>2 DEF NodeInv, Served
    <3>6. QED
      BY <3>3, <3>4, <3>5
  <2>4. UniqueInstances' /\ NoIdLeak'
    <3>1. \A e \in Devices : /\ pc'[e] \in Holding <=> pc[e] \in Holding
                             /\ Holds(e)' = Holds(e)
      BY DEF TypeOK, Holding, Holds
    <3>2. QED
      BY <3>1, SameHoldings
  <2>5. QED
    BY <2>1, <2>2, <2>3, <2>4
<1>2. CASE UnbindCount(d)
  <2> USE <1>2 DEF UnbindCount
  <2>1. TypeOK'
    BY DEF TypeOK, Labels, FieldsInv, Marked
  <2>2. LifeInv' /\ GrantInv' /\ RequestInv'
    BY DEF TypeOK, LifeInv, GrantInv, RequestInv, Holding
  <2>3. FieldsInv' /\ CleanInv' /\ NodeInv'
    BY DEF TypeOK, FieldsInv, CleanInv, NodeInv, Marked, Served
  <2>4. UniqueInstances' /\ NoIdLeak'
    <3>1. \A e \in Devices : /\ pc'[e] \in Holding <=> pc[e] \in Holding
                             /\ Holds(e)' = Holds(e)
      BY DEF TypeOK, Holding, Holds
    <3>2. QED
      BY <3>1, SameHoldings
  <2>5. QED
    BY <2>1, <2>2, <2>3, <2>4
<1>3. CASE UnbindClear(d)
  <2> USE <1>3 DEF UnbindClear
  <2>1. TypeOK'
    BY DEF TypeOK, Labels, States, NoGrant
  <2>2. LifeInv' /\ GrantInv' /\ RequestInv'
    BY DEF TypeOK, LifeInv, GrantInv, RequestInv, Holding
  <2>3. FieldsInv' /\ CleanInv' /\ NodeInv'
    BY DEF TypeOK, FieldsInv, CleanInv, NodeInv, Marked, Served
  <2>4. UniqueInstances' /\ NoIdLeak'
    <3>1. \A e \in Devices : /\ pc'[e] \in Holding <=> pc[e] \in Holding
                             /\ Holds(e)' = Holds(e)
      BY DEF TypeOK, Holding, Holds
    <3>2. QED
      BY <3>1, SameHoldings
  <2>5. QED
    BY <2>1, <2>2, <2>3, <2>4
<1>4. QED
  BY <1>1, <1>2, <1>3

(* An ioctl writes the state and the last error only.                      *)
LEMMA IoctlInd ==
  ASSUME IndInv, NEW d \in Devices, Ioctl(d)
  PROVE  IndInv'
<1> USE BusAssumption DEF BusAssumption, IndInv, Ioctl, IoctlDone, IoctlFailed, RecordError, idVars, lifeVars, allocVars
<1>1. TypeOK'
  <2>1. state' \in [Devices -> States]
    BY DEF TypeOK, States
  <2>2. lastError' \in [Devices -> Errors \cup {0}]
    <3>1. CASE IoctlDone(d)
      BY <3>1 DEF TypeOK
    <3>2. CASE \E e \in Errors : IoctlFailed(d, e)
      BY <3>2 DEF TypeOK
    <3>3. QED
      BY <3>1, <3>2
  <2>3. QED
    BY <2>1, <2>2 DEF TypeOK
<1>2. UNCHANGED <<lifeVars, idVars, allocVars, node, pc, grant>>
  OBVIOUS
<1>3. LifeInv' /\ GrantInv' /\ FieldsInv' /\ CleanInv' /\ NodeInv' /\ RequestInv'
  BY <1>2 DEF LifeInv, GrantInv, FieldsInv, CleanInv, NodeInv, RequestInv
<1>4. UniqueInstances' /\ NoIdLeak'
  BY <1>2, SameHoldings DEF Holds
<1>5. QED
  BY <1>1, <1>3, <1>4

(* ida_free gives back exactly the number the device holds.                *)
LEMMA UnbindFreeInd ==
  ASSUME IndInv, NEW d \in Devices, UnbindFree(d)
  PROVE  IndInv'
<1> USE BusAssumption DEF BusAssumption, IndInv, UnbindFree, Move, idVars, errVars, lifeVars
<1>1. type[d] = TypeOf[d] /\ id[d] = grant[d] /\ pc[d] \in Holding
  BY DEF FieldsInv, Marked, Holding
<1>2. ida' = [ida EXCEPT ![TypeOf[d]] = @ \ {grant[d]}]
  BY <1>1
<1>3. TypeOK'
  <2>1. ida' \in [Types -> SUBSET Ids]
    <3>1. TypeOf[d] \in Types /\ ida \in [Types -> SUBSET Ids]
      BY DEF TypeOK
    <3>2. ida[TypeOf[d]] \ {grant[d]} \in SUBSET Ids
      BY <3>1
    <3>3. QED
      BY <1>2, <3>1, <3>2
  <2>2. pc' \in [Devices -> Labels]
    BY DEF TypeOK, Labels
  <2>3. QED
    BY <2>1, <2>2 DEF TypeOK
<1>4. LifeInv' /\ GrantInv' /\ RequestInv'
  BY DEF TypeOK, LifeInv, GrantInv, RequestInv, Holding
<1>5. FieldsInv' /\ CleanInv' /\ NodeInv'
  BY DEF TypeOK, FieldsInv, CleanInv, NodeInv, Marked, Served
<1>6. \A e \in Devices \ {d} : Holds(e)' = Holds(e) /\ pc'[e] = pc[e]
  BY DEF TypeOK, Holds
<1>7. Holds(d) = <<TypeOf[d], grant[d]>> /\ pc'[d] \notin Holding
  BY <1>1 DEF TypeOK, Holds, Holding
<1>8. UniqueInstances'
  BY <1>6, <1>7 DEF UniqueInstances
<1>9. NoIdLeak'
  <2> SUFFICES ASSUME NEW t \in Types, NEW j \in Ids
               PROVE  j \in ida'[t] <=>
                        \E e \in Devices : pc'[e] \in Holding /\ Holds(e)' = <<t, j>>
    BY DEF NoIdLeak
  <2>1. CASE <<t, j>> = Holds(d)
    <3>1. j \notin ida'[t]
      BY <1>2, <1>7, <2>1 DEF TypeOK
    <3>2. \A e \in Devices : pc'[e] \in Holding => Holds(e)' # <<t, j>>
      BY <1>1, <1>6, <1>7, <2>1 DEF UniqueInstances
    <3>3. QED
      BY <3>1, <3>2
  <2>2. CASE <<t, j>> # Holds(d)
    <3>1. j \in ida'[t] <=> j \in ida[t]
      BY <1>2, <1>7, <2>2 DEF TypeOK
    <3>2. j \in ida[t] <=> \E e \in Devices : pc[e] \in Holding /\ Holds(e) = <<t, j>>
      BY DEF NoIdLeak
    <3>3. QED
      BY <1>6, <1>7, <2>2, <3>1, <3>2
  <2>3. QED
    BY <2>1, <2>2
<1>10. QED
  BY <1>3, <1>4, <1>5, <1>8, <1>9

(* Every step preserves the invariant. *)
LEMMA NextInd == IndInv /\ [Next]_vars => IndInv'
<1> SUFFICES ASSUME IndInv, [Next]_vars PROVE IndInv'
  OBVIOUS
<1>1. CASE Next
  <2> PICK d \in Devices : Enumerate(d) \/ Bind(d) \/ Probe(d) \/ Unbind(d) \/ Ioctl(d)
    BY <1>1 DEF Next
  <2>1. CASE Bind(d)
    BY <2>1, BindAllocInd, BindRestInd DEF Bind
  <2>2. CASE Unbind(d)
    BY <2>2, UnbindFreeInd, UnbindRestInd DEF Unbind
  <2>3. QED
    BY <2>1, <2>2, EnumerateInd, ProbeInd, IoctlInd
<1>2. CASE UNCHANGED vars
  <2> USE <1>2 DEF vars, IndInv
  <2>1. TypeOK' /\ LifeInv' /\ GrantInv' /\ FieldsInv' /\ CleanInv' /\ NodeInv' /\ RequestInv'
    BY DEF TypeOK, LifeInv, GrantInv, FieldsInv, CleanInv, NodeInv, RequestInv
  <2>2. UniqueInstances' /\ NoIdLeak'
    BY SameHoldings DEF Holds
  <2>3. QED
    BY <2>1, <2>2
<1>3. QED
  BY <1>1, <1>2
-------------------------------------------------------------------------------
(* IndInv is an invariant of the bus. *)
THEOREM Invariant == Spec => []IndInv
<1>1. QED
  BY InitInd, NextInd, PTL DEF Spec

(* Type correctness; and the last error user space reads is 0 or negative, *)
(* as every error path of probe and of the ioctls records it               *)
(* (pdm_device_record_error, pdm_device_clear_error).                      *)
THEOREM TypeCorrect == Spec => [](TypeOK /\ \A d \in Devices : lastError[d] <= 0)
<1>1. IndInv => TypeOK
  BY DEF IndInv
<1>2. ASSUME TypeOK, NEW d \in Devices PROVE lastError[d] <= 0
  <2>1. lastError[d] = 0 \/ lastError[d] \in Errors
    BY <1>2 DEF TypeOK
  <2>2. \A e \in Errors : e \in Int /\ e < 0
    BY BusAssumption DEF BusAssumption
  <2>3. QED
    BY <2>1, <2>2
<1>3. IndInv => TypeOK /\ \A d \in Devices : lastError[d] <= 0
  BY <1>1, <1>2
<1>4. QED
  BY <1>3, Invariant, PTL

(* No interleaving of bindings and unbindings gives two devices one number *)
(* (pdm_device_bind, pdm_device_unbind).                                   *)
THEOREM InstancesAreUnique == Spec => []UniqueInstances
<1>1. IndInv => UniqueInstances
  BY DEF IndInv
<1>2. QED
  BY <1>1, Invariant, PTL

(* A number is reserved exactly while a device holds it: no path of probe  *)
(* or remove leaks one or frees another device's.                          *)
THEOREM NumbersDoNotLeak == Spec => []NoIdLeak
<1>1. IndInv => NoIdLeak
  BY DEF IndInv
<1>2. QED
  BY <1>1, Invariant, PTL

(* A bound device has the number its enumerator requested, if any.         *)
THEOREM RequestsAreHonoured == Spec => []RequestHonoured
<1>1. IndInv => RequestHonoured
  BY DEF IndInv, RequestHonoured, RequestInv, FieldsInv, Marked, Holding
<1>2. QED
  BY <1>1, Invariant, PTL

(* The node name a driver is about to register is free: the holder of a    *)
(* node still holds the number in its name.                                *)
THEOREM NodeNamesAreFree == Spec => []NodeNameFree
<1>1. IndInv => NodeNameFree
  <2> SUFFICES ASSUME IndInv, NEW d \in Devices, pc[d] = "probe",
                      NEW e \in Devices, node[e] = NodeName(d)
               PROVE  FALSE
    BY DEF NodeNameFree, NodeTaken
  <2>1. NodeName(d) = <<TypeOf[d], grant[d]>> /\ grant[d] \in Ids
    BY DEF IndInv, NodeName, FieldsInv, GrantInv, Marked, Holding
  <2>2. pc[e] \in Served
    <3>1. TypeOf[d] # INVALID
      BY BusAssumption DEF BusAssumption
    <3>2. node[e] # NoNode
      BY <2>1, <3>1 DEF NoNode
    <3>3. QED
      BY <3>2 DEF IndInv, NodeInv
  <2>3. e # d /\ pc[e] \in Holding /\ pc[d] \in Holding
    BY <2>2 DEF Served, Holding
  <2>4. Holds(e) = Holds(d)
    BY <2>1, <2>2, <2>3 DEF IndInv, NodeInv, Holds
  <2>5. QED
    BY <2>3, <2>4 DEF IndInv, UniqueInstances
<1>2. QED
  BY <1>1, Invariant, PTL

(* A device without a driver shows no trace of a binding, so binding it    *)
(* again starts afresh and its release has nothing to unbind.              *)
THEOREM UnboundDevicesAreClean == Spec => []UnboundIsClean
<1>1. IndInv => UnboundIsClean
  BY DEF IndInv, UnboundIsClean, CleanInv, NodeInv, Marked, Served
<1>2. QED
  BY <1>1, Invariant, PTL
-------------------------------------------------------------------------------
(* The devices an allocator has counted and not yet uncounted.             *)
TakesCount(d) == pc[d] \in (Holding \ {"bind_count"}) \cup {"unbind_count"}

Counted(t) == {d \in Devices : TypeOf[d] = t /\ TakesCount(d)}

(* They are always finitely many: one step binds one device.               *)
CountInv ==
  \A t \in Types :
    IsFiniteSet(Counted(t)) /\ count[t] = Cardinality(Counted(t))

(* atomic_inc counts a device that was not counted.                        *)
LEMMA BindCountCounts ==
  ASSUME TypeOK, CountInv, NEW d \in Devices, BindCount(d)
  PROVE  CountInv'
<1> USE BusAssumption DEF BusAssumption, BindCount, Move
<1> SUFFICES ASSUME NEW t \in Types
             PROVE  IsFiniteSet(Counted(t)') /\ count'[t] = Cardinality(Counted(t)')
  BY DEF CountInv
<1>1. IsFiniteSet(Counted(t)) /\ count[t] = Cardinality(Counted(t))
  BY DEF CountInv
<1>2. CASE t = TypeOf[d]
  <2>1. Counted(t)' = Counted(t) \cup {d}
    BY <1>2 DEF Counted, TakesCount, Holding, TypeOK
  <2>2. d \notin Counted(t)
    BY DEF Counted, TakesCount, Holding
  <2>3. count'[t] = count[t] + 1
    BY <1>2 DEF TypeOK
  <2>4. QED
    BY <1>1, <2>1, <2>2, <2>3, FS_AddElement
<1>3. CASE t # TypeOf[d]
  <2>1. Counted(t)' = Counted(t)
    BY <1>3 DEF Counted, TakesCount, TypeOK
  <2>2. count'[t] = count[t]
    BY <1>3 DEF TypeOK
  <2>3. QED
    BY <1>1, <2>1, <2>2
<1>4. QED
  BY <1>2, <1>3

(* atomic_dec_if_positive finds the counter positive and uncounts a device *)
(* that was counted.                                                       *)
LEMMA UnbindCountCounts ==
  ASSUME IndInv, CountInv, NEW d \in Devices, UnbindCount(d)
  PROVE  CountInv'
<1> USE BusAssumption DEF BusAssumption, IndInv, UnbindCount, Move
<1> SUFFICES ASSUME NEW t \in Types
             PROVE  IsFiniteSet(Counted(t)') /\ count'[t] = Cardinality(Counted(t)')
  BY DEF CountInv
<1>1. IsFiniteSet(Counted(t)) /\ count[t] = Cardinality(Counted(t))
  BY DEF CountInv
<1>2. type[d] = TypeOf[d]
  BY DEF FieldsInv, Marked
<1>3. CASE t = TypeOf[d]
  <2>1. Counted(t)' = Counted(t) \ {d}
    BY <1>3 DEF Counted, TakesCount, Holding, TypeOK
  <2>2. d \in Counted(t)
    BY <1>3 DEF Counted, TakesCount
  <2>3. Cardinality(Counted(t)) # 0 /\ Cardinality(Counted(t)) \in Nat
    BY <1>1, <2>2, FS_EmptySet, FS_CardinalityType
  <2>4. count'[t] = count[t] - 1
    BY <1>1, <1>2, <1>3, <2>3 DEF TypeOK
  <2>5. QED
    BY <1>1, <2>1, <2>2, <2>4, FS_RemoveElement
<1>4. CASE t # TypeOf[d]
  <2>1. Counted(t)' = Counted(t)
    BY <1>4 DEF Counted, TakesCount, TypeOK
  <2>2. count'[t] = count[t]
    BY <1>2, <1>4 DEF TypeOK
  <2>3. QED
    BY <1>1, <2>1, <2>2
<1>5. QED
  BY <1>3, <1>4

(* No other step moves a device into or out of the counted ones.           *)
LEMMA OtherStepsCount ==
  ASSUME TypeOK, CountInv, NEW d \in Devices,
         Enumerate(d) \/ Bind(d) \/ Probe(d) \/ Unbind(d) \/ Ioctl(d),
         ~BindCount(d), ~UnbindCount(d)
  PROVE  CountInv'
<1> USE DEF TypeOK, Move, TakesCount, Holding, idVars, errVars, allocVars, lifeVars
<1>1. count' = count /\ \A e \in Devices : TakesCount(e)' <=> TakesCount(e)
  <2>1. CASE Enumerate(d)
    BY <2>1 DEF Enumerate, Alloc, Register, RegisterFails, Unregister, Release
  <2>2. CASE Bind(d)
    BY <2>2 DEF Bind, BindAlloc, BindFields, BindState, BindFails, BindFailed
  <2>3. CASE Probe(d)
    BY <2>3 DEF Probe, ProbeOk, ProbeFails, ProbeFailed, BoundState, BoundError
  <2>4. CASE Unbind(d)
    BY <2>4 DEF Unbind, Remove, UnbindFree, UnbindClear
  <2>5. CASE Ioctl(d)
    BY <2>5 DEF Ioctl, IoctlDone, IoctlFailed
  <2>6. QED
    BY <2>1, <2>2, <2>3, <2>4, <2>5
<1>2. \A t \in Types : Counted(t)' = Counted(t)
  BY <1>1 DEF Counted
<1>3. QED
  BY <1>1, <1>2 DEF CountInv

(* The counter of an allocator is the number of devices that use it, and   *)
(* its saturating decrement never meets zero (pdm_device_bind, _unbind).   *)
THEOREM CountersAreExact == Spec => []CountExact
<1>1. Init => CountInv
  <2> SUFFICES ASSUME Init, NEW t \in Types
               PROVE  IsFiniteSet(Counted(t)) /\ count[t] = Cardinality(Counted(t))
    BY DEF CountInv
  <2>1. Counted(t) = {}
    BY DEF Init, Counted, TakesCount, Holding
  <2>2. QED
    BY <2>1, FS_EmptySet DEF Init
<1>2. IndInv /\ CountInv /\ [Next]_vars => CountInv'
  <2> SUFFICES ASSUME IndInv, CountInv, [Next]_vars PROVE CountInv'
    OBVIOUS
  <2>1. TypeOK
    BY DEF IndInv
  <2>2. CASE Next
    <3> PICK d \in Devices : Enumerate(d) \/ Bind(d) \/ Probe(d) \/ Unbind(d) \/ Ioctl(d)
      BY <2>2 DEF Next
    <3>1. QED
      BY <2>1, BindCountCounts, UnbindCountCounts, OtherStepsCount
  <2>3. CASE UNCHANGED vars
    BY <2>3 DEF vars, CountInv, Counted, TakesCount
  <2>4. QED
    BY <2>2, <2>3
<1>3. CountInv => CountExact
  BY DEF CountInv, CountExact, Counted, TakesCount
<1>4. QED
  BY <1>1, <1>2, <1>3, Invariant, PTL DEF Spec
-------------------------------------------------------------------------------
(* What the devices hold, as PdmIdService sees it. *)
Held == [d \in Devices |-> Holds(d)]

(* A step that changes nobody's holding is a stutter of the service.       *)
LEMMA Stutter ==
  ASSUME \A e \in Devices : Holds(e)' = Holds(e)
  PROVE  Held' = Held
BY DEF Held

(* Reserving a number is the service's Acquire. *)
LEMMA AcquireStep ==
  ASSUME IndInv, NEW d \in Devices, BindAlloc(d)
  PROVE  \E n \in Instances : IdService!Acquire(d, n)
<1> USE BusAssumption DEF BusAssumption, IndInv, BindAlloc, Move
<1> PICK i \in Grants(TypeOf[d], requested[d]) :
      /\ ida' = [ida EXCEPT ![TypeOf[d]] = @ \cup {i}]
      /\ grant' = [grant EXCEPT ![d] = i]
  OBVIOUS
<1>1. i \in Ids /\ i \notin ida[TypeOf[d]]
  BY DEF Grants, FreeIds
<1>2. <<TypeOf[d], i>> \in Instances
  BY <1>1 DEF Instances
<1>3. Held[d] = NoNode
  BY DEF Held, Holds, Holding
<1>4. \A e \in Devices : Held[e] # <<TypeOf[d], i>>
  <2> SUFFICES ASSUME NEW e \in Devices, Holds(e) = <<TypeOf[d], i>> PROVE FALSE
    BY DEF Held
  <2>1. pc[e] \notin Holding
    BY <1>1 DEF NoIdLeak
  <2>2. INVALID = TypeOf[d]
    BY <2>1 DEF Holds, NoNode
  <2>3. QED
    BY <2>2
<1>5. Held' = [Held EXCEPT ![d] = <<TypeOf[d], i>>]
  <2>1. \A e \in Devices : Holds(e)' = IF e = d THEN <<TypeOf[d], i>> ELSE Holds(e)
    BY DEF TypeOK, Holds, Holding
  <2>2. QED
    BY <2>1 DEF Held
<1>6. QED
  BY <1>2, <1>3, <1>4, <1>5 DEF IdService!Acquire, Held

(* Freeing it is the service's Release. *)
LEMMA ReleaseStep ==
  ASSUME IndInv, NEW d \in Devices, UnbindFree(d)
  PROVE  IdService!Release(d)
<1> USE BusAssumption DEF BusAssumption, IndInv, UnbindFree, Move
<1>1. Held[d] # NoNode
  BY DEF Held, Holds, Holding, NoNode
<1>2. Held' = [Held EXCEPT ![d] = NoNode]
  <2>1. \A e \in Devices : Holds(e)' = IF e = d THEN NoNode ELSE Holds(e)
    BY DEF TypeOK, Holds, Holding
  <2>2. QED
    BY <2>1 DEF Held
<1>3. QED
  BY <1>1, <1>2 DEF IdService!Release, Held

(* A move between two positions of which both or neither hold a number.      *)
LEMMA MoveKeepsHeld ==
  ASSUME TypeOK, NEW d \in Devices, NEW from, NEW to, Move(d, from, to),
         grant' = grant, from \in Holding <=> to \in Holding
  PROVE  Held' = Held
<1>1. pc[d] = from /\ pc'[d] = to /\ \A e \in Devices : e # d => pc'[e] = pc[e]
  BY DEF Move, TypeOK
<1>2. \A e \in Devices : pc'[e] \in Holding <=> pc[e] \in Holding
  BY <1>1
<1>3. \A e \in Devices : Holds(e)' = Holds(e)
  BY <1>2 DEF Holds
<1>4. QED
  BY <1>3, Stutter

(* Every other step leaves all holdings as they are. *)
LEMMA OtherSteps ==
  ASSUME IndInv, NEW d \in Devices,
         Enumerate(d) \/ Bind(d) \/ Probe(d) \/ Unbind(d) \/ Ioctl(d),
         ~BindAlloc(d), ~UnbindFree(d)
  PROVE  Held' = Held
<1> USE DEF IndInv, TypeOK, Holds, Holding, Move
<1>1. CASE Enumerate(d)
  BY <1>1, Stutter
     DEF Enumerate, Alloc, Register, RegisterFails, Unregister, Release
<1>2. CASE Bind(d)
  <2> HIDE DEF Move, Holds
  <2>1. CASE BindCount(d)
    BY <2>1, MoveKeepsHeld DEF BindCount
  <2>2. CASE BindFields(d)
    BY <2>2, MoveKeepsHeld DEF BindFields
  <2>3. CASE BindState(d)
    BY <2>3, MoveKeepsHeld DEF BindState
  <2>4. CASE BindFails(d)
    BY <2>4, MoveKeepsHeld DEF BindFails
  <2>5. ASSUME NEW e \in Errors, BindFailed(d, e) PROVE Held' = Held
    BY <2>5, MoveKeepsHeld DEF BindFailed
  <2>6. QED
    BY <1>2, <2>1, <2>2, <2>3, <2>4, <2>5 DEF Bind
<1>3. CASE Probe(d)
  <2> HIDE DEF Move, Holds
  <2>1. CASE ProbeOk(d)
    BY <2>1, MoveKeepsHeld DEF ProbeOk
  <2>2. CASE ProbeFails(d)
    BY <2>2, MoveKeepsHeld DEF ProbeFails
  <2>3. ASSUME NEW e \in Errors, ProbeFailed(d, e) PROVE Held' = Held
    BY <2>3, MoveKeepsHeld DEF ProbeFailed
  <2>4. CASE BoundState(d)
    BY <2>4, MoveKeepsHeld DEF BoundState
  <2>5. CASE BoundError(d)
    BY <2>5, MoveKeepsHeld DEF BoundError
  <2>6. QED
    BY <1>3, <2>1, <2>2, <2>3, <2>4, <2>5 DEF Probe
<1>4. CASE Unbind(d)
  <2>1. CASE Remove(d)
    BY <2>1, MoveKeepsHeld DEF Remove
  <2>2. CASE UnbindCount(d)
    BY <2>2, MoveKeepsHeld DEF UnbindCount
  <2>3. CASE UnbindClear(d)
    BY <2>3, Stutter DEF UnbindClear
  <2>4. QED
    BY <1>4, <2>1, <2>2, <2>3 DEF Unbind
<1>5. CASE Ioctl(d)
  BY <1>5, Stutter DEF Ioctl, IoctlDone, IoctlFailed
<1>6. QED
  BY <1>1, <1>2, <1>3, <1>4, <1>5

(* The bus implements the numbering service: two devices never hold one    *)
(* instance, and a device gives its instance back before it takes another. *)
THEOREM NumberingIsService == Spec => IdServiceSpec
<1>1. Init => IdService!Init
  BY DEF Init, IdService!Init, Holds, Holding
<1>2. IndInv /\ [Next]_vars => [IdService!Next]_Held
  <2> SUFFICES ASSUME IndInv, [Next]_vars PROVE [IdService!Next]_Held
    OBVIOUS
  <2>1. CASE Next
    <3> PICK d \in Devices : Enumerate(d) \/ Bind(d) \/ Probe(d) \/ Unbind(d) \/ Ioctl(d)
      BY <2>1 DEF Next
    <3>1. CASE BindAlloc(d)
      BY <3>1, AcquireStep DEF IdService!Next
    <3>2. CASE UnbindFree(d)
      BY <3>2, ReleaseStep DEF IdService!Next
    <3>3. CASE ~BindAlloc(d) /\ ~UnbindFree(d)
      BY <3>3, OtherSteps
    <3>4. QED
      BY <3>1, <3>2, <3>3
  <2>2. CASE UNCHANGED vars
    BY <2>2, Stutter DEF vars, Holds
  <2>3. QED
    BY <2>1, <2>2
<1>3. QED
  BY <1>1, <1>2, Invariant, PTL DEF Spec, IdServiceSpec, IdService!Spec, Held
===============================================================================
