------------------------------ MODULE PdmManager ------------------------------
(***************************************************************************)
(* Discovery through /dev/pdm_manager (kernel/pdm/bus/pdm_cdev.c) while    *)
(* devices are bound and unbound.  An ioctl walks the bus with             *)
(* bus_for_each_dev, which pins one device at a time and takes no lock a   *)
(* binding takes; every callback is a step of its own, and so is the copy  *)
(* of the device that matched.  pdi_list_devices (user/pdi) puts a list    *)
(* together from one ioctl per index.                                      *)
(***************************************************************************)
EXTENDS PdmBus_proofs

CONSTANTS
  Readers,     (* processes with the control node open                     *)
  ListLen,     (* capacity of the array given to pdi_list_devices          *)
  MaxSeen,     (* bound on the devices one walk counts                     *)
  Queries      (* the queries issued directly                              *)

ASSUME ManagerAssumption ==
  /\ ListLen \in Nat
  /\ MaxSeen \in Nat
  /\ \A q \in Queries :
       /\ q.kind \in {"info", "device", "name"}
       /\ q.kind = "device" => q.index \in Nat

VARIABLES
  rpc,       (* where each reader is: idle, scan, fill, done               *)
  query,     (* the query it has issued                                    *)
  visited,   (* devices the walk is past                                   *)
  seen,      (* ctx.seen, or the device count of GET_INFO                  *)
  matched,   (* the device a callback has matched                          *)
  answer,    (* what the ioctl returns                                     *)
  listing,   (* whether the ioctl is one of pdi_list_devices               *)
  list,      (* the devices pdi_list_devices has stored so far             *)
  churn,     (* history: the discoverable state changed since the call     *)
  steady     (* history: devices discoverable ever since the call          *)

walkVars == <<query, visited, seen, matched, answer>>
listVars == <<listing, list>>
histVars == <<churn, steady>>
managerVars == <<rpc, walkVars, listVars, histVars>>
allVars == <<vars, managerVars>>

NoQuery == [kind |-> "none"]
NoAnswer == <<"none">>
ENODEV == <<"ENODEV">>

At(r, from, to) ==
  /\ rpc[r] = from
  /\ rpc' = [rpc EXCEPT ![r] = to]

(* pdm_manager_fill_device_info *)
Info(d) ==
  [name |-> d, type |-> type[d], index |-> id[d], state |-> state[d],
   lastError |-> lastError[d], caps |-> caps[d]]

(* The order in which bus_for_each_dev comes to the devices. *)
OnBus == {bus[k] : k \in DOMAIN bus}

Precedes(d, e) == \E j, k \in DOMAIN bus : j < k /\ bus[j] = d /\ bus[k] = e

(* What an observer of one instant would list: the devices, what is known  *)
(* of each, and their order.                                               *)
Discoverable == {d \in OnBus : Visible(d)}

View ==
  <<[d \in Discoverable |-> Info(d)],
    {p \in Discoverable \X Discoverable : Precedes(p[1], p[2])}>>

ManagerInit ==
  /\ Init
  /\ rpc = [r \in Readers |-> "idle"]
  /\ query = [r \in Readers |-> NoQuery]
  /\ visited = [r \in Readers |-> {}]
  /\ seen = [r \in Readers |-> 0]
  /\ matched = [r \in Readers |-> {}]
  /\ answer = [r \in Readers |-> NoAnswer]
  /\ listing = [r \in Readers |-> FALSE]
  /\ list = [r \in Readers |-> <<>>]
  /\ churn = [r \in Readers |-> FALSE]
  /\ steady = [r \in Readers |-> {}]

Issue(r, q) ==
  /\ query' = [query EXCEPT ![r] = q]
  /\ visited' = [visited EXCEPT ![r] = {}]
  /\ seen' = [seen EXCEPT ![r] = 0]
  /\ matched' = [matched EXCEPT ![r] = {}]
  /\ answer' = [answer EXCEPT ![r] = NoAnswer]

Observe(r) ==
  /\ churn' = [churn EXCEPT ![r] = FALSE]
  /\ steady' = [steady EXCEPT ![r] = Discoverable]

(* pdm_manager_ioctl, called with one of the queries *)
ManagerIoctl(r, q) ==
  /\ At(r, "idle", "scan")
  /\ Issue(r, q)
  /\ Observe(r)
  /\ UNCHANGED <<vars, listVars>>

(* Devices the walk has not come to, and the first of them. *)
Ahead(r) == OnBus \ visited[r]

Following(r) == {d \in Ahead(r) : \A e \in Ahead(r) : ~Precedes(e, d)}

(* The conditions of the match callbacks. *)
Matches(r, d) ==
  LET q == query[r] IN
    /\ Visible(d)
    /\ \/ q.kind = "device" /\ q.need \subseteq caps[d] /\ seen[r] = q.index
       \/ q.kind = "name" /\ q.name = d

Counts(r, d) ==
  LET q == query[r] IN
    /\ Visible(d)
    /\ \/ q.kind = "info"
       \/ q.kind = "device" /\ q.need \subseteq caps[d]

(* A callback that asks for the next device.  MaxSeen bounds a walk that   *)
(* devices registered behind it would keep going.                          *)
Pass(r) ==
  /\ rpc[r] = "scan"
  /\ \E d \in Following(r) :
       /\ ~Matches(r, d)
       /\ Counts(r, d) => seen[r] < MaxSeen
       /\ visited' = [visited EXCEPT ![r] = @ \cup {d}]
       /\ seen' = [seen EXCEPT ![r] = IF Counts(r, d) THEN @ + 1 ELSE @]
  /\ UNCHANGED <<vars, rpc, query, matched, answer, listVars, histVars>>

(* A callback that finds the device it looks for ... *)
Match(r) ==
  /\ At(r, "scan", "fill")
  /\ \E d \in Following(r) :
       /\ Matches(r, d)
       /\ matched' = [matched EXCEPT ![r] = {d}]
  /\ visited' = [visited EXCEPT ![r] = {}]
  /\ seen' = [seen EXCEPT ![r] = 0]
  /\ UNCHANGED <<vars, query, answer, listVars, histVars>>

(* ... and copies its fields, which may have changed meanwhile. *)
Fill(r) ==
  /\ At(r, "fill", "done")
  /\ \E d \in matched[r] : answer' = [answer EXCEPT ![r] = <<"info", Info(d)>>]
  /\ matched' = [matched EXCEPT ![r] = {}]
  /\ UNCHANGED <<vars, query, visited, seen, listVars, histVars>>

(* The walk reaches the end of the bus. *)
Exhaust(r) ==
  /\ At(r, "scan", "done")
  /\ Ahead(r) = {}
  /\ answer' = [answer EXCEPT ![r] =
       IF query[r].kind = "info" THEN <<"count", seen[r]>> ELSE ENODEV]
  /\ visited' = [visited EXCEPT ![r] = {}]
  /\ seen' = [seen EXCEPT ![r] = 0]
  /\ UNCHANGED <<vars, query, matched, listVars, histVars>>

(* The process has the answer and issues something else later. *)
Return(r) ==
  /\ ~listing[r]
  /\ At(r, "done", "idle")
  /\ Issue(r, NoQuery)
  /\ churn' = [churn EXCEPT ![r] = FALSE]
  /\ steady' = [steady EXCEPT ![r] = {}]
  /\ UNCHANGED <<vars, listVars>>

(* A slip: the list starts from index 1. *)
IndexQueryFromOne(i) == [kind |-> "device", index |-> i + 1, need |-> {}]

IndexQuery(i) == [kind |-> "device", index |-> i, need |-> {}]

(* pdi_list_devices asks for index 0 ... *)
ListFirst(r) ==
  /\ ListLen > 0
  /\ At(r, "idle", "scan")
  /\ Issue(r, IndexQuery(0))
  /\ Observe(r)
  /\ listing' = [listing EXCEPT ![r] = TRUE]
  /\ list' = [list EXCEPT ![r] = <<>>]
  /\ UNCHANGED vars

Collected(r) ==
  IF answer[r] = ENODEV THEN list[r] ELSE Append(list[r], answer[r][2])

(* ... stores the answer and asks for the next index ... *)
ListNext(r) ==
  /\ listing[r]
  /\ At(r, "done", "scan")
  /\ answer[r] # ENODEV
  /\ Len(Collected(r)) < ListLen
  /\ list' = [list EXCEPT ![r] = Collected(r)]
  /\ Issue(r, IndexQuery(Len(Collected(r))))
  /\ UNCHANGED <<vars, listing, histVars>>

(* ... until an ioctl fails or the array is full. *)
ListEnd(r) ==
  /\ listing[r]
  /\ At(r, "done", "listed")
  /\ answer[r] = ENODEV \/ Len(Collected(r)) = ListLen
  /\ list' = [list EXCEPT ![r] = Collected(r)]
  /\ UNCHANGED <<vars, walkVars, listing, histVars>>

ListReturn(r) ==
  /\ At(r, "listed", "idle")
  /\ Issue(r, NoQuery)
  /\ listing' = [listing EXCEPT ![r] = FALSE]
  /\ list' = [list EXCEPT ![r] = <<>>]
  /\ churn' = [churn EXCEPT ![r] = FALSE]
  /\ steady' = [steady EXCEPT ![r] = {}]
  /\ UNCHANGED vars

(* A step of the bus.  A device that leaves the bus leaves the walk: its   *)
(* storage may come back as a new device at the end of the bus.            *)
BusStep ==
  /\ Next
  /\ visited' = [r \in Readers |->
       {d \in visited[r] : life[d] = "added" => life'[d] = "added"}]
  /\ churn' = [r \in Readers |-> churn[r] \/ (rpc[r] # "idle" /\ View' # View)]
  /\ steady' = [r \in Readers |->
       {d \in steady[r] : life'[d] = "added" /\ Visible(d)'}]
  /\ UNCHANGED <<rpc, query, seen, matched, answer, listVars>>

ReaderStep(r) ==
  \/ \E q \in Queries : ManagerIoctl(r, q)
  \/ Pass(r) \/ Match(r) \/ Fill(r) \/ Exhaust(r) \/ Return(r)
  \/ ListFirst(r) \/ ListNext(r) \/ ListEnd(r) \/ ListReturn(r)

ManagerNext == BusStep \/ \E r \in Readers : ReaderStep(r)

ManagerSpec == ManagerInit /\ [][ManagerNext]_allVars
-------------------------------------------------------------------------------
(* The discoverable devices that have the capabilities a query asks for,    *)
(* and the index of one of them.                                           *)
Able(q) == {d \in Discoverable : q.kind = "device" => q.need \subseteq caps[d]}

Index(q, d) == Cardinality({e \in Able(q) : Precedes(e, d)})

(* The answer an instant of the current state would give to a query.       *)
Exact(q, a) ==
  \/ /\ q.kind = "info"
     /\ a = <<"count", Cardinality(Able(q))>>
  \/ /\ q.kind = "device"
     /\ \/ \E d \in Able(q) : Index(q, d) = q.index /\ a = <<"info", Info(d)>>
        \/ Cardinality(Able(q)) <= q.index /\ a = ENODEV
  \/ /\ q.kind = "name"
     /\ a = IF q.name \in Discoverable THEN <<"info", Info(q.name)>> ELSE ENODEV

AnswerExact(r) == rpc[r] = "done" /\ ~churn[r] => Exact(query[r], answer[r])

SteadyAnswered(r) ==
  rpc[r] = "done" =>
    LET q == query[r] IN
      /\ q.kind = "info" => answer[r][2] >= Cardinality(steady[r])
      /\ q.kind = "name" /\ q.name \in steady[r] => answer[r] # ENODEV
      /\ (/\ ~listing[r]
          /\ q.kind = "device"
          /\ q.need = {}
          /\ q.index < Cardinality(steady[r])) => answer[r] # ENODEV

EntriesExact(r) ==
  \A k \in 1..Len(list[r]) : Exact(IndexQuery(k - 1), <<"info", list[r][k]>>)

ListExact(r) ==
  rpc[r] = "listed" /\ ~churn[r] =>
    /\ Len(list[r]) = IF Cardinality(Discoverable) < ListLen
                     THEN Cardinality(Discoverable) ELSE ListLen
    /\ EntriesExact(r)

(* When nothing discoverable changes during a query, its answer is exact:  *)
(* the count, the device at the index among those with the capabilities,   *)
(* the device of that name (pdm_manager_do_get_info, _get_device).        *)
QuietAnswerExact == \A r \in Readers : AnswerExact(r)

(* Whatever else changes, the walk does not overlook a device that is      *)
(* discoverable from the call to the answer: it is counted, it is found by *)
(* its name, and an index below the number of such devices has an answer.  *)
SteadyDevicesAnswered == \A r \in Readers : SteadyAnswered(r)

(* When nothing discoverable changes, pdi_list_devices returns the first   *)
(* ListLen devices of the bus, each once and in order.                     *)
QuietListExact == \A r \in Readers : ListExact(r)

(* Every query keeps these three, in whatever order devices come and go.    *)
AnswersAreExact == QuietAnswerExact /\ SteadyDevicesAnswered /\ QuietListExact

(* user/pdi/README.md: discovery is snapshot-based.  Then a list that had  *)
(* room for more holds every device that was discoverable all the time.    *)
(* It may not: an unbinding shifts the indices of the devices behind it.   *)
ListHoldsSteadyDevices ==
  \A r \in Readers :
    rpc[r] = "listed" /\ Len(list[r]) < ListLen =>
      \A d \in steady[r] : \E k \in 1..Len(list[r]) : list[r][k].name = d

(* docs/architecture.md: the control node exposes discovery snapshots.     *)
(* Then a device it reports is of a type and has a number.  The walk may   *)
(* copy it after unbind has cleared both.                                  *)
ReportedDeviceHasInstance ==
  \A r \in Readers :
    rpc[r] = "done" /\ answer[r][1] = "info" =>
      answer[r][2].type # INVALID /\ answer[r][2].index # NoId
-------------------------------------------------------------------------------
(* What keeps the answers exact while devices come and go.                 *)
Infos ==
  [name : Devices, type : Types \cup {INVALID}, index : Ids \cup {NoId},
   state : States, lastError : Errors \cup {0}, caps : SUBSET {"driver", "backend"}]

ReaderLabels == {"idle", "scan", "fill", "done", "listed"}

ManagerTypeOK ==
  /\ rpc \in [Readers -> ReaderLabels]
  /\ query \in [Readers -> Queries \cup {NoQuery}
                            \cup [kind : {"device"}, index : Nat, need : {{}}]]
  /\ visited \in [Readers -> SUBSET Devices]
  /\ seen \in [Readers -> Nat]
  /\ matched \in [Readers -> SUBSET Devices]
  /\ answer \in [Readers -> {NoAnswer, ENODEV} \cup ({"count"} \X Nat)
                             \cup ({"info"} \X Infos)]
  /\ listing \in [Readers -> BOOLEAN]
  /\ list \in [Readers -> Seq(Infos)]
  /\ churn \in [Readers -> BOOLEAN]
  /\ steady \in [Readers -> SUBSET Devices]

(* The bus holds each device that has been added, once.                    *)
BusOrder ==
  /\ \A j, k \in DOMAIN bus : j # k => bus[j] # bus[k]
  /\ \A d \in Devices : life[d] = "added" <=> d \in OnBus

(* What has been discoverable ever since the call still is, and it is all  *)
(* there is when nothing has changed.                                      *)
HistoryInv(r) ==
  /\ steady[r] \subseteq Discoverable
  /\ rpc[r] # "idle" /\ ~churn[r] => steady[r] = Discoverable

QueryInv(r) ==
  rpc[r] # "idle" =>
    /\ query[r].kind \in {"info", "device", "name"}
    /\ query[r].kind = "device" => query[r].index \in Nat

(* A walk has passed every device that precedes one it has passed; it has  *)
(* counted the steady ones among them, and exactly the able ones when      *)
(* nothing has changed.                                                    *)
Passed(V) ==
  V \subseteq OnBus /\ \A d \in V, e \in OnBus : Precedes(e, d) => e \in V

CountsAll(q) == q.kind = "info" \/ (q.kind = "device" /\ q.need = {})

WalkInv(r) ==
  rpc[r] = "scan" =>
    /\ Passed(visited[r])
    /\ query[r].kind = "device" => seen[r] <= query[r].index
    /\ query[r].kind = "name" => query[r].name \notin visited[r] \cap steady[r]
    /\ CountsAll(query[r]) => seen[r] >= Cardinality(visited[r] \cap steady[r])
    /\ ~churn[r] /\ query[r].kind # "name"
       => seen[r] = Cardinality(visited[r] \cap Able(query[r]))

(* The device a callback matched is the one asked for, when nothing has    *)
(* changed.                                                                *)
IsAskedFor(q, d) ==
  /\ d \in Able(q)
  /\ q.kind = "device" => Index(q, d) = q.index
  /\ q.kind = "name" => d = q.name

FillInv(r) ==
  rpc[r] = "fill" =>
    /\ query[r].kind # "info"
    /\ \E d \in Devices :
         matched[r] = {d} /\ (~churn[r] => IsAskedFor(query[r], d))

DoneInv(r) ==
  rpc[r] = "done" =>
    answer[r] \in IF query[r].kind = "info" THEN {"count"} \X Nat
                  ELSE {ENODEV} \cup ({"info"} \X Infos)

(* The list holds the devices of the indices asked for so far.             *)
ListInv(r) ==
  /\ listing[r] /\ rpc[r] \in {"scan", "fill", "done"}
     => query[r] = IndexQuery(Len(list[r])) /\ Len(list[r]) < ListLen
  /\ rpc[r] = "idle" => ~listing[r]
  /\ ~listing[r] => rpc[r] # "listed" /\ list[r] = <<>>
  /\ ~churn[r] => EntriesExact(r)

ReaderInv(r) ==
  /\ HistoryInv(r) /\ QueryInv(r) /\ WalkInv(r) /\ FillInv(r)
  /\ DoneInv(r) /\ AnswerExact(r) /\ SteadyAnswered(r)
  /\ ListInv(r) /\ ListExact(r)

ManagerInv ==
  IndInv /\ ManagerTypeOK /\ BusOrder /\ \A r \in Readers : ReaderInv(r)
-------------------------------------------------------------------------------
(* A step that leaves the bus alone leaves everything an observer sees.    *)
LEMMA SameBus ==
  ASSUME UNCHANGED vars
  PROVE  /\ OnBus' = OnBus /\ Discoverable' = Discoverable
         /\ \A d : Info(d)' = Info(d) /\ (Visible(d)' <=> Visible(d))
         /\ \A d, e : Precedes(d, e)' <=> Precedes(d, e)
         /\ \A q : Able(q)' = Able(q)
         /\ \A q, d : Index(q, d)' = Index(q, d)
         /\ \A q, a : Exact(q, a)' <=> Exact(q, a)
<1> USE DEF vars
<1>1. OnBus' = OnBus /\ \A d, e : Precedes(d, e)' <=> Precedes(d, e)
  BY DEF OnBus, Precedes
<1>2. \A d : Info(d)' = Info(d) /\ (Visible(d)' <=> Visible(d))
  BY DEF Info, Visible
<1>3. Discoverable' = Discoverable
  BY <1>1, <1>2 DEF Discoverable
<1>4. \A q : Able(q)' = Able(q)
  BY <1>3 DEF Able
<1>5. \A q, d : Index(q, d)' = Index(q, d)
  BY <1>1, <1>4 DEF Index
<1>6. \A q, a : Exact(q, a)' <=> Exact(q, a)
  BY <1>2, <1>3, <1>4, <1>5 DEF Exact
<1>7. QED
  BY <1>1, <1>2, <1>3, <1>4, <1>5, <1>6

(* So does a step of the bus that shows in no list.                        *)
LEMMA SameView ==
  ASSUME View' = View
  PROVE  /\ Discoverable' = Discoverable
         /\ \A d \in Discoverable : Info(d)' = Info(d)
         /\ \A d, e \in Discoverable : Precedes(d, e)' <=> Precedes(d, e)
         /\ \A q : Able(q)' = Able(q)
         /\ \A q : \A d \in Able(q) : Index(q, d)' = Index(q, d)
         /\ \A q, a : Exact(q, a)' <=> Exact(q, a)
<1>1. /\ [d \in Discoverable |-> Info(d)]' = [d \in Discoverable |-> Info(d)]
      /\ {p \in Discoverable \X Discoverable : Precedes(p[1], p[2])}'
         = {p \in Discoverable \X Discoverable : Precedes(p[1], p[2])}
  BY DEF View
<1>2. Discoverable' = Discoverable
  <2>1. DOMAIN [d \in Discoverable |-> Info(d)]' = DOMAIN [d \in Discoverable |-> Info(d)]
    BY <1>1
  <2>2. QED
    BY <2>1
<1>3. \A d \in Discoverable : Info(d)' = Info(d)
  <2> TAKE d \in Discoverable
  <2>1. [e \in Discoverable |-> Info(e)]'[d] = [e \in Discoverable |-> Info(e)][d]
    BY <1>1
  <2>2. QED
    BY <1>2, <2>1
<1>4. \A d, e \in Discoverable : Precedes(d, e)' <=> Precedes(d, e)
  <2> TAKE d, e \in Discoverable
  <2>1. <<d, e>> \in {p \in Discoverable \X Discoverable : Precedes(p[1], p[2])}
        <=> Precedes(d, e)
    OBVIOUS
  <2>2. <<d, e>> \in {p \in Discoverable \X Discoverable : Precedes(p[1], p[2])}'
        <=> Precedes(d, e)'
    BY <1>2
  <2>3. QED
    BY <1>1, <2>1, <2>2
<1>5. \A q : Able(q)' = Able(q)
  <2>1. \A d \in Discoverable : caps'[d] = caps[d]
    <3> TAKE d \in Discoverable
    <3>1. Info(d)'.caps = Info(d).caps
      BY <1>3
    <3>2. QED
      BY <3>1 DEF Info
  <2>2. QED
    BY <1>2, <2>1 DEF Able
<1>6. \A q : \A d \in Able(q) : Index(q, d)' = Index(q, d)
  <2> TAKE q
  <2> TAKE d \in Able(q)
  <2>1. {e \in Able(q) : Precedes(e, d)}' = {e \in Able(q) : Precedes(e, d)}
    BY <1>4, <1>5 DEF Able
  <2>2. QED
    BY <2>1 DEF Index
<1>7. \A q, a : Exact(q, a)' <=> Exact(q, a)
  <2> TAKE q, a
  <2>1. Able(q)' = Able(q) /\ \A d \in Able(q) : Index(q, d)' = Index(q, d) /\ Info(d)' = Info(d)
    BY <1>3, <1>5, <1>6 DEF Able
  <2>2. QED
    BY <1>2, <1>3, <2>1 DEF Exact
<1>8. QED
  BY <1>2, <1>3, <1>4, <1>5, <1>6, <1>7

(* The devices on the bus are finitely many.                               *)
LEMMA BusIsFinite ==
  ASSUME TypeOK
  PROVE  /\ OnBus \subseteq Devices
         /\ \A S \in SUBSET OnBus : IsFiniteSet(S) /\ Cardinality(S) \in Nat
<1>1. bus \in [1..Len(bus) -> Devices] /\ Len(bus) \in Nat
  BY LenProperties DEF TypeOK
<1>2. OnBus \subseteq Devices
  BY <1>1 DEF OnBus
<1>3. bus \in Surjection(1..Len(bus), OnBus)
  BY <1>1 DEF Surjection, OnBus
<1>4. IsFiniteSet(1..Len(bus))
  BY <1>1, FS_Interval
<1>5. IsFiniteSet(OnBus)
  BY <1>3, <1>4, FS_Surjection
<1>6. QED
  BY <1>2, <1>5, FS_Subset, FS_CardinalityType

(* Taking one element out of a sequence moves the ones behind it forward.  *)
Old(i, k) == IF i < k THEN i ELSE i + 1

LEMMA UnlinkElements ==
  ASSUME NEW S, NEW s \in Seq(S), NEW k \in 1..Len(s)
  PROVE  LET t == SubSeq(s, 1, k - 1) \o SubSeq(s, k + 1, Len(s))
         IN  /\ DOMAIN t = 1..(Len(s) - 1)
             /\ \A i \in 1..(Len(s) - 1) : t[i] = s[Old(i, k)]
<1> DEFINE front == SubSeq(s, 1, k - 1)
           back == SubSeq(s, k + 1, Len(s))
<1>1. Len(s) \in Nat /\ \A i \in 1..Len(s) : s[i] \in S
  BY LenProperties, ElementOfSeq
<1>2. PICK n \in Nat : n = Len(s)
  BY <1>1
<1>A. k \in Nat /\ 1 <= k /\ k <= n
  BY <1>2
<1>3. /\ front \in Seq(S) /\ Len(front) = k - 1
      /\ \A i \in 1..(k - 1) : front[i] = s[i]
  <2>1. \A i \in 1..(k - 1) : s[i] \in S
    BY <1>1, <1>2, <1>A
  <2>2. /\ front \in Seq(S) /\ Len(front) = IF 1 <= k - 1 THEN k - 1 - 1 + 1 ELSE 0
        /\ \A i \in 1..(k - 1 - 1 + 1) : front[i] = s[1 + i - 1]
    BY <1>A, <2>1, SubSeqProperties
  <2>3. QED
    BY <1>A, <2>2
<1>4. /\ back \in Seq(S) /\ Len(back) = n - k
      /\ \A i \in 1..(n - k) : back[i] = s[k + i]
  <2>1. \A i \in (k + 1)..n : s[i] \in S
    BY <1>1, <1>2, <1>A
  <2>2. /\ back \in Seq(S) /\ Len(back) = IF k + 1 <= n THEN n - (k + 1) + 1 ELSE 0
        /\ \A i \in 1..(n - (k + 1) + 1) : back[i] = s[k + 1 + i - 1]
    BY <1>2, <1>A, <2>1, SubSeqProperties
  <2>3. /\ back \in Seq(S) /\ Len(back) = n - k
    BY <1>A, <2>2
  <2>4. ASSUME NEW i \in 1..(n - k) PROVE back[i] = s[k + i]
    <3>1. i \in 1..(n - (k + 1) + 1) /\ k + 1 + i - 1 = k + i
      BY <1>A
    <3>2. QED
      BY <2>2, <3>1
  <2>5. QED
    BY <2>3, <2>4
<1> DEFINE t == front \o back
<1>B. t = SubSeq(s, 1, k - 1) \o SubSeq(s, k + 1, Len(s))
  OBVIOUS
<1> HIDE DEF front, back
<1>5. /\ t \in Seq(S) /\ Len(t) = n - 1
      /\ \A i \in 1..(n - 1) : t[i] = IF i <= k - 1 THEN front[i] ELSE back[i - (k - 1)]
  <2>1. /\ t \in Seq(S) /\ Len(t) = Len(front) + Len(back)
        /\ \A i \in 1..(Len(front) + Len(back)) :
             t[i] = IF i <= Len(front) THEN front[i] ELSE back[i - Len(front)]
    BY <1>3, <1>4, ConcatProperties
  <2>2. Len(front) + Len(back) = n - 1
    BY <1>3, <1>4, <1>A
  <2>3. QED
    BY <1>3, <2>1, <2>2
<1> HIDE DEF t
<1>6. ASSUME NEW i \in 1..(n - 1) PROVE t[i] = s[Old(i, k)]
  <2>1. CASE i < k
    BY <1>3, <1>5, <1>A, <2>1 DEF Old
  <2>2. CASE ~(i < k)
    <3>1. i - (k - 1) \in 1..(n - k) /\ k + (i - (k - 1)) = i + 1 /\ ~(i <= k - 1)
      BY <1>A, <2>2
    <3>2. t[i] = back[i - (k - 1)]
      BY <1>5, <3>1
    <3>3. back[i - (k - 1)] = s[i + 1]
      BY <1>4, <3>1
    <3>4. QED
      BY <2>2, <3>2, <3>3 DEF Old
  <2>3. QED
    BY <2>1, <2>2
<1>7. DOMAIN t = 1..(n - 1)
  BY <1>5, LenProperties
<1>8. QED
  BY <1>2, <1>6, <1>7, <1>B

(* Devices keep their order on the bus, whatever joins or leaves it.       *)
KeepsOrder ==
  \A d \in OnBus, e \in Devices :
    d \in OnBus' /\ Precedes(e, d)' => e \in OnBus /\ Precedes(e, d)

(* device_add appends ...                                                  *)
LEMMA RegisterOrder ==
  ASSUME TypeOK, BusOrder, NEW x \in Devices, Register(x)
  PROVE  BusOrder' /\ KeepsOrder
<1>1. /\ Len(bus) \in Nat /\ DOMAIN bus = 1..Len(bus)
      /\ \A k \in 1..Len(bus) : bus[k] \in Devices
  BY LenProperties, ElementOfSeq DEF TypeOK
<1>2. bus' = Append(bus, x) /\ bus' \in Seq(Devices)
  BY AppendProperties DEF Register, TypeOK
<1>3. Len(bus') = Len(bus) + 1 /\ DOMAIN bus' = 1..(Len(bus) + 1)
  BY <1>2, AppendProperties, LenProperties DEF TypeOK
<1>4. (\A k \in 1..Len(bus) : bus'[k] = bus[k]) /\ bus'[Len(bus) + 1] = x
  BY <1>2, AppendProperties DEF TypeOK
<1>5. x \notin OnBus /\ \A k \in 1..Len(bus) : bus[k] # x
  BY <1>1 DEF Register, BusOrder, OnBus
<1>6. OnBus' = OnBus \cup {x}
  <2>1. \A d \in OnBus' : d \in OnBus \cup {x}
    <3> SUFFICES ASSUME NEW k \in 1..(Len(bus) + 1) PROVE bus'[k] \in OnBus \cup {x}
      BY <1>3 DEF OnBus
    <3>1. k \in 1..Len(bus) \/ k = Len(bus) + 1
      BY <1>1
    <3>2. QED
      BY <1>1, <1>4, <3>1 DEF OnBus
  <2>2. \A d \in OnBus : d \in OnBus'
    <3> SUFFICES ASSUME NEW k \in 1..Len(bus) PROVE bus[k] \in OnBus'
      BY <1>1 DEF OnBus
    <3>1. k \in DOMAIN bus' /\ bus'[k] = bus[k]
      BY <1>1, <1>3, <1>4
    <3>2. QED
      BY <3>1 DEF OnBus
  <2>3. x \in OnBus'
    <3>1. Len(bus) + 1 \in DOMAIN bus'
      BY <1>1, <1>3
    <3>2. QED
      BY <1>4, <3>1 DEF OnBus
  <2>4. QED
    BY <2>1, <2>2, <2>3
<1>7. BusOrder'
  <2>1. ASSUME NEW j \in DOMAIN bus', NEW k \in DOMAIN bus', j # k
        PROVE  bus'[j] # bus'[k]
    <3>1. j \in 1..Len(bus) \/ j = Len(bus) + 1
      BY <1>1, <1>3
    <3>2. k \in 1..Len(bus) \/ k = Len(bus) + 1
      BY <1>1, <1>3
    <3>3. QED
      BY <1>1, <1>4, <1>5, <2>1, <3>1, <3>2 DEF BusOrder
  <2>2. \A d \in Devices : life'[d] = "added" <=> d \in OnBus'
    BY <1>6 DEF Register, BusOrder, TypeOK
  <2>3. QED
    BY <2>1, <2>2 DEF BusOrder
<1>8. KeepsOrder
  <2> SUFFICES ASSUME NEW d \in OnBus, NEW e \in Devices,
                      NEW j \in DOMAIN bus', NEW k \in DOMAIN bus',
                      j < k, bus'[j] = e, bus'[k] = d
               PROVE  e \in OnBus /\ Precedes(e, d)
    BY DEF KeepsOrder, Precedes
  <2>1. k \in 1..Len(bus)
    BY <1>1, <1>3, <1>4, <1>5
  <2>2. j \in 1..Len(bus)
    BY <1>1, <1>3, <2>1
  <2>3. QED
    BY <1>1, <1>4, <2>1, <2>2 DEF OnBus, Precedes
<1>9. QED
  BY <1>7, <1>8

(* ... device_del unlinks ...                                              *)
LEMMA UnregisterOrder ==
  ASSUME TypeOK, BusOrder, NEW x \in Devices, Unregister(x)
  PROVE  BusOrder' /\ KeepsOrder
<1>1. PICK n \in Nat : n = Len(bus)
  BY LenProperties DEF TypeOK
<1>2. PICK k \in 1..n :
        /\ bus[k] = x
        /\ bus' = SubSeq(bus, 1, k - 1) \o SubSeq(bus, k + 1, Len(bus))
  BY <1>1 DEF Unregister
<1>3. DOMAIN bus = 1..n /\ \A i \in 1..n : bus[i] \in Devices
  BY <1>1, LenProperties, ElementOfSeq DEF TypeOK
<1>4. DOMAIN bus' = 1..(n - 1) /\ \A i \in 1..(n - 1) : bus'[i] = bus[Old(i, k)]
  <2>1. bus \in Seq(Devices) /\ k \in 1..Len(bus)
    BY <1>1, <1>2 DEF TypeOK
  <2>2. QED
    BY <1>1, <1>2, <2>1, UnlinkElements
<1>5. \A i \in 1..(n - 1) : Old(i, k) \in 1..n /\ Old(i, k) # k
  BY DEF Old
<1>6. \A i, j \in 1..(n - 1) : i < j => Old(i, k) < Old(j, k)
  BY DEF Old
<1>7. ASSUME NEW i \in 1..n, i # k PROVE \E j \in 1..(n - 1) : Old(j, k) = i
  <2>1. CASE i < k
    <3>1. i \in 1..(n - 1) /\ Old(i, k) = i
      BY <2>1 DEF Old
    <3>2. QED
      BY <3>1
  <2>2. CASE i > k
    <3>1. i - 1 \in 1..(n - 1) /\ Old(i - 1, k) = i
      BY <2>2 DEF Old
    <3>2. QED
      BY <3>1
  <2>3. QED
    BY <1>7, <2>1, <2>2
<1>8. OnBus' = OnBus \ {x}
  <2>1. \A d \in OnBus' : d \in OnBus \ {x}
    <3> SUFFICES ASSUME NEW i \in 1..(n - 1) PROVE bus'[i] \in OnBus \ {x}
      BY <1>4 DEF OnBus
    <3>1. bus'[i] = bus[Old(i, k)] /\ Old(i, k) \in DOMAIN bus /\ k \in DOMAIN bus
      BY <1>3, <1>4, <1>5
    <3>2. bus[Old(i, k)] # bus[k]
      BY <1>5, <3>1 DEF BusOrder
    <3>3. QED
      BY <1>2, <3>1, <3>2 DEF OnBus
  <2>2. \A d \in OnBus \ {x} : d \in OnBus'
    <3> SUFFICES ASSUME NEW i \in 1..n, bus[i] # x PROVE bus[i] \in OnBus'
      BY <1>3 DEF OnBus
    <3>1. PICK j \in 1..(n - 1) : Old(j, k) = i
      BY <1>2, <1>7
    <3>2. j \in DOMAIN bus' /\ bus'[j] = bus[i]
      BY <1>4, <3>1
    <3>3. QED
      BY <3>2 DEF OnBus
  <2>3. QED
    BY <2>1, <2>2
<1>9. BusOrder'
  <2>1. ASSUME NEW i \in 1..(n - 1), NEW j \in 1..(n - 1), i # j
        PROVE  bus'[i] # bus'[j]
    <3>1. i < j \/ j < i
      BY <2>1
    <3>2. Old(i, k) # Old(j, k) /\ Old(i, k) \in DOMAIN bus /\ Old(j, k) \in DOMAIN bus
      BY <1>3, <1>5, <1>6, <3>1
    <3>3. QED
      BY <1>4, <3>2 DEF BusOrder
  <2>2. \A d \in Devices : life'[d] = "added" <=> d \in OnBus'
    BY <1>8 DEF Unregister, BusOrder, TypeOK
  <2>3. QED
    BY <1>4, <2>1, <2>2 DEF BusOrder
<1>10. KeepsOrder
  <2> SUFFICES ASSUME NEW d \in OnBus, NEW e \in Devices,
                      NEW i \in 1..(n - 1), NEW j \in 1..(n - 1),
                      i < j, bus'[i] = e, bus'[j] = d
               PROVE  e \in OnBus /\ Precedes(e, d)
    BY <1>4 DEF KeepsOrder, Precedes
  <2>1. Old(i, k) < Old(j, k) /\ bus[Old(i, k)] = e /\ bus[Old(j, k)] = d
    BY <1>4, <1>6
  <2>2. Old(i, k) \in DOMAIN bus /\ Old(j, k) \in DOMAIN bus
    BY <1>3, <1>5
  <2>3. QED
    BY <2>1, <2>2 DEF OnBus, Precedes
<1>11. QED
  BY <1>9, <1>10

(* ... and no other step touches the bus.                                  *)
LEMMA BusKeepsOrder ==
  ASSUME TypeOK, BusOrder, [Next]_vars
  PROVE  BusOrder' /\ KeepsOrder
<1>1. ASSUME bus' = bus, \A d \in Devices : life'[d] = "added" <=> life[d] = "added"
      PROVE  BusOrder' /\ KeepsOrder
  BY <1>1 DEF BusOrder, KeepsOrder, OnBus, Precedes
<1>2. ASSUME UNCHANGED lifeVars
      PROVE  BusOrder' /\ KeepsOrder
  BY <1>1, <1>2 DEF lifeVars
<1>3. CASE UNCHANGED vars
  BY <1>2, <1>3 DEF vars, lifeVars
<1>4. CASE Next
  <2> PICK d \in Devices : Enumerate(d) \/ Bind(d) \/ Probe(d) \/ Unbind(d) \/ Ioctl(d)
    BY <1>4 DEF Next
  <2>1. CASE Enumerate(d)
    <3>1. CASE Register(d)
      BY <3>1, RegisterOrder
    <3>2. CASE Unregister(d)
      BY <3>2, UnregisterOrder
    <3>3. CASE (\E req \in Requests : Alloc(d, req)) \/ RegisterFails(d) \/ Release(d)
      BY <1>1, <3>3 DEF Alloc, RegisterFails, Release, TypeOK
    <3>4. QED
      BY <2>1, <3>1, <3>2, <3>3 DEF Enumerate
  <2>2. CASE Bind(d)
    BY <1>2, <2>2 DEF Bind, BindAlloc, BindCount, BindFields, BindState, BindFails, BindFailed
  <2>3. CASE Probe(d)
    BY <1>2, <2>3 DEF Probe, ProbeOk, ProbeFails, ProbeFailed, BoundState, BoundError
  <2>4. CASE Unbind(d)
    BY <1>2, <2>4 DEF Unbind, Remove, UnbindFree, UnbindCount, UnbindClear
  <2>5. CASE Ioctl(d)
    BY <1>2, <2>5 DEF Ioctl, IoctlDone, IoctlFailed
  <2>6. QED
    BY <2>1, <2>2, <2>3, <2>4, <2>5
<1>5. QED
  BY <1>3, <1>4

(* What a step of the bus does to the readers.                             *)
LEMMA BusStepFacts ==
  ASSUME IndInv, ManagerTypeOK, BusOrder, BusStep
  PROVE  /\ IndInv' /\ BusOrder' /\ KeepsOrder /\ OnBus' \subseteq Devices
         /\ \A r \in Readers :
              /\ steady'[r] = steady[r] \cap Discoverable'
              /\ visited[r] \subseteq OnBus => visited'[r] = visited[r] \cap OnBus'
              /\ ~churn'[r] => ~churn[r] /\ (rpc[r] # "idle" => View' = View)
<1>1. IndInv'
  BY NextInd DEF BusStep
<1>2. BusOrder' /\ KeepsOrder
  BY BusKeepsOrder DEF BusStep, IndInv
<1>3. OnBus' \subseteq Devices
  <2>1. bus' \in Seq(Devices)
    BY <1>1 DEF IndInv, TypeOK
  <2>2. QED
    BY <2>1, LenProperties, ElementOfSeq DEF OnBus
<1>4. \A d \in Devices : life'[d] = "added" <=> d \in OnBus'
  BY <1>2 DEF BusOrder
<1>5. \A d \in Devices : life[d] = "added" <=> d \in OnBus
  BY DEF BusOrder
<1> SUFFICES ASSUME NEW r \in Readers
             PROVE  /\ steady'[r] = steady[r] \cap Discoverable'
                    /\ visited[r] \subseteq OnBus => visited'[r] = visited[r] \cap OnBus'
                    /\ ~churn'[r] => ~churn[r] /\ (rpc[r] # "idle" => View' = View)
  BY <1>1, <1>2, <1>3
<1>6. visited[r] \subseteq Devices /\ steady[r] \subseteq Devices
  BY DEF ManagerTypeOK
<1>7. steady'[r] = steady[r] \cap Discoverable'
  <2>1. steady'[r] = {d \in steady[r] : life'[d] = "added" /\ Visible(d)'}
    BY DEF BusStep
  <2>2. Discoverable' = {d \in OnBus' : Visible(d)'}
    BY DEF Discoverable
  <2>3. QED
    BY <1>4, <1>6, <2>1, <2>2
<1>8. ASSUME visited[r] \subseteq OnBus PROVE visited'[r] = visited[r] \cap OnBus'
  <2>1. visited'[r] = {d \in visited[r] : life[d] = "added" => life'[d] = "added"}
    BY DEF BusStep
  <2>2. QED
    BY <1>4, <1>5, <1>6, <1>8, <2>1
<1>9. ~churn'[r] => ~churn[r] /\ (rpc[r] # "idle" => View' = View)
  BY DEF BusStep
<1>10. QED
  BY <1>1, <1>2, <1>7, <1>8, <1>9

(* No step of the bus breaks what a reader relies on.                      *)
LEMMA BusStepInd ==
  ASSUME ManagerInv, BusStep
  PROVE  ManagerInv'
<1> USE DEF ManagerInv
<1>1. IndInv' /\ BusOrder' /\ KeepsOrder /\ OnBus' \subseteq Devices
  BY BusStepFacts
<1>2. UNCHANGED <<rpc, query, seen, matched, answer, listing, list>>
  BY DEF BusStep, listVars
<1>3. ManagerTypeOK'
  <2>1. visited' \in [Readers -> SUBSET Devices] /\ steady' \in [Readers -> SUBSET Devices]
    BY DEF BusStep, ManagerTypeOK
  <2>2. churn' \in [Readers -> BOOLEAN]
    BY DEF BusStep, ManagerTypeOK
  <2>3. QED
    BY <1>2, <2>1, <2>2 DEF ManagerTypeOK
<1> SUFFICES ASSUME NEW r \in Readers PROVE ReaderInv(r)'
  BY <1>1, <1>3
<1>4. /\ HistoryInv(r) /\ QueryInv(r) /\ WalkInv(r) /\ FillInv(r)
      /\ DoneInv(r) /\ AnswerExact(r) /\ SteadyAnswered(r)
      /\ ListInv(r) /\ ListExact(r)
  BY DEF ReaderInv
<1>5. /\ steady'[r] = steady[r] \cap Discoverable'
      /\ visited[r] \subseteq OnBus => visited'[r] = visited[r] \cap OnBus'
      /\ ~churn'[r] => ~churn[r] /\ (rpc[r] # "idle" => View' = View)
  BY BusStepFacts
<1>6. TypeOK /\ Discoverable \subseteq OnBus /\ Discoverable' \subseteq OnBus'
  BY DEF IndInv, Discoverable
<1>7. steady[r] \subseteq OnBus
  BY <1>4, <1>6 DEF HistoryInv
<1>8. Cardinality(steady'[r]) <= Cardinality(steady[r])
      /\ Cardinality(steady'[r]) \in Nat /\ Cardinality(steady[r]) \in Nat
  <2>1. steady'[r] \in SUBSET steady[r] /\ steady[r] \in SUBSET OnBus
    BY <1>5, <1>7
  <2>2. QED
    BY <1>6, <2>1, BusIsFinite, FS_Subset
<1>9. seen[r] \in Nat
  BY DEF ManagerTypeOK
<1>10. HistoryInv(r)'
  <2>1. ASSUME rpc[r] # "idle", ~churn'[r] PROVE steady'[r] = Discoverable'
    BY <1>4, <1>5, <2>1, SameView DEF HistoryInv
  <2>2. QED
    BY <1>2, <1>5, <2>1 DEF HistoryInv
<1>11. QueryInv(r)'
  BY <1>2, <1>4 DEF QueryInv
<1>12. WalkInv(r)'
  <2> SUFFICES ASSUME rpc[r] = "scan" PROVE WalkInv(r)'
    BY <1>2 DEF WalkInv
  <2>1. visited[r] \subseteq OnBus /\ visited'[r] = visited[r] \cap OnBus'
    BY <1>4, <1>5 DEF WalkInv, Passed
  <2>2. Passed(visited[r])'
    <3> SUFFICES ASSUME NEW d \in visited'[r], NEW e \in OnBus', Precedes(e, d)'
                 PROVE  e \in visited'[r]
      BY <2>1 DEF Passed
    <3>1. e \in Devices
      BY <1>1
    <3>2. e \in OnBus /\ Precedes(e, d)
      BY <1>1, <2>1, <3>1 DEF KeepsOrder
    <3>3. QED
      BY <1>4, <2>1, <3>2 DEF WalkInv, Passed
  <2>3. query'[r].kind = "device" => seen'[r] <= query'[r].index
    BY <1>2, <1>4 DEF WalkInv
  <2>4. query'[r].kind = "name" => query'[r].name \notin visited'[r] \cap steady'[r]
    BY <1>2, <1>4, <1>5, <2>1 DEF WalkInv
  <2>5. CountsAll(query'[r]) => seen'[r] >= Cardinality(visited'[r] \cap steady'[r])
    <3>1. /\ visited'[r] \cap steady'[r] \in SUBSET (visited[r] \cap steady[r])
          /\ visited[r] \cap steady[r] \in SUBSET OnBus
          /\ visited'[r] \cap steady'[r] \in SUBSET OnBus
      BY <1>5, <1>7, <2>1
    <3>2. /\ Cardinality(visited'[r] \cap steady'[r]) <= Cardinality(visited[r] \cap steady[r])
          /\ Cardinality(visited[r] \cap steady[r]) \in Nat
          /\ Cardinality(visited'[r] \cap steady'[r]) \in Nat
      BY <1>6, <3>1, BusIsFinite, FS_Subset
    <3>3. CountsAll(query'[r]) => CountsAll(query[r]) /\ seen'[r] = seen[r]
      BY <1>2
    <3>4. QED
      BY <1>4, <1>9, <3>2, <3>3 DEF WalkInv
  <2>6. ~churn'[r] /\ query'[r].kind # "name"
        => seen'[r] = Cardinality(visited[r] \cap Able(query[r]))'
    <3> SUFFICES ASSUME ~churn'[r], query[r].kind # "name"
                 PROVE  seen[r] = Cardinality(visited[r] \cap Able(query[r]))'
      BY <1>2
    <3>1. Able(query[r])' = Able(query[r])
      BY <1>2, <1>5, SameView
    <3>2. Able(query[r])' \subseteq OnBus'
      BY <1>6 DEF Able
    <3>3. (visited[r] \cap Able(query[r]))' = visited[r] \cap Able(query[r])
      BY <2>1, <3>1, <3>2
    <3>4. QED
      BY <1>4, <1>5, <3>3 DEF WalkInv
  <2>7. QED
    BY <2>2, <2>3, <2>4, <2>5, <2>6 DEF WalkInv, CountsAll
<1>13. FillInv(r)'
  <2> SUFFICES ASSUME rpc[r] = "fill" PROVE FillInv(r)'
    BY <1>2 DEF FillInv
  <2>1. PICK d \in Devices : matched[r] = {d} /\ (~churn[r] => IsAskedFor(query[r], d))
    BY <1>4 DEF FillInv
  <2>2. ~churn'[r] => IsAskedFor(query[r], d)'
    BY <1>2, <1>5, <2>1, SameView DEF IsAskedFor
  <2>3. QED
    BY <1>2, <1>4, <2>1, <2>2 DEF FillInv
<1>14. DoneInv(r)'
  BY <1>2, <1>4 DEF DoneInv, Infos
<1>15. AnswerExact(r)'
  BY <1>2, <1>4, <1>5, SameView DEF AnswerExact
<1>16. SteadyAnswered(r)'
  <2> SUFFICES ASSUME rpc[r] = "done" PROVE SteadyAnswered(r)'
    BY <1>2 DEF SteadyAnswered
  <2>1. query[r].kind = "info" => answer[r][2] \in Nat
    BY <1>4 DEF DoneInv
  <2>2. query[r].kind = "device" => query[r].index \in Nat
    BY <1>4 DEF QueryInv
  <2>3. query[r].kind = "info" => answer[r][2] >= Cardinality(steady'[r])
    BY <1>4, <1>8, <2>1 DEF SteadyAnswered
  <2>4. query[r].kind = "name" /\ query[r].name \in steady'[r] => answer[r] # ENODEV
    BY <1>4, <1>5 DEF SteadyAnswered
  <2>5. (/\ ~listing[r]
         /\ query[r].kind = "device"
         /\ query[r].need = {}
         /\ query[r].index < Cardinality(steady'[r])) => answer[r] # ENODEV
    BY <1>4, <1>8, <2>2 DEF SteadyAnswered
  <2>6. QED
    BY <1>2, <2>3, <2>4, <2>5 DEF SteadyAnswered
<1>17. ListInv(r)' /\ ListExact(r)'
  <2>1. ASSUME ~churn'[r], list[r] # <<>> PROVE EntriesExact(r)' /\ Discoverable' = Discoverable
    <3>1. rpc[r] # "idle" /\ ~churn[r] /\ View' = View
      BY <1>4, <1>5, <2>1 DEF ListInv
    <3>2. EntriesExact(r)
      BY <1>4, <3>1 DEF ListInv
    <3>3. QED
      BY <1>2, <3>1, <3>2, SameView DEF EntriesExact
  <2>2. ~churn'[r] => EntriesExact(r)'
    <3>1. list[r] = <<>> => EntriesExact(r)'
      BY <1>2 DEF EntriesExact
    <3>2. QED
      BY <2>1, <3>1
  <2>3. ListInv(r)'
    BY <1>2, <1>4, <2>2 DEF ListInv
  <2>4. ListExact(r)'
    <3> SUFFICES ASSUME rpc[r] = "listed", ~churn'[r] PROVE ListExact(r)'
      BY <1>2 DEF ListExact
    <3>1. Discoverable' = Discoverable /\ ~churn[r]
      BY <1>5, SameView
    <3>2. QED
      BY <1>2, <1>4, <2>2, <3>1 DEF ListExact
  <2>5. QED
    BY <2>3, <2>4
<1>18. QED
  BY <1>10, <1>11, <1>12, <1>13, <1>14, <1>15, <1>16, <1>17 DEF ReaderInv

(* A reader's step leaves the others alone.                                *)
Untouched(x) ==
  /\ rpc'[x] = rpc[x] /\ query'[x] = query[x] /\ visited'[x] = visited[x]
  /\ seen'[x] = seen[x] /\ matched'[x] = matched[x] /\ answer'[x] = answer[x]
  /\ listing'[x] = listing[x] /\ list'[x] = list[x]
  /\ churn'[x] = churn[x] /\ steady'[x] = steady[x]

(* What holds of a reader holds on while others step.                      *)
LEMMA UntouchedInd ==
  ASSUME UNCHANGED vars, NEW x, Untouched(x), ReaderInv(x)
  PROVE  ReaderInv(x)'
<1> USE SameBus DEF Untouched, ReaderInv
<1>1. HistoryInv(x)' /\ QueryInv(x)' /\ ListExact(x)' /\ ListInv(x)'
  BY DEF HistoryInv, QueryInv, ListExact, ListInv, EntriesExact
<1>2. WalkInv(x)'
  BY DEF WalkInv, CountsAll, Passed
<1>3. FillInv(x)'
  BY DEF FillInv, IsAskedFor
<1>4. DoneInv(x)' /\ AnswerExact(x)' /\ SteadyAnswered(x)'
  BY DEF DoneInv, AnswerExact, SteadyAnswered, Infos
<1>5. QED
  BY <1>1, <1>2, <1>3, <1>4

(* So a step of a reader has to be looked at for that reader alone.        *)
LEMMA ReaderInd ==
  ASSUME ManagerInv, UNCHANGED vars, ManagerTypeOK', NEW r \in Readers,
         \A x \in Readers \ {r} : Untouched(x), ReaderInv(r)'
  PROVE  ManagerInv'
<1>1. IndInv'
  BY NextInd DEF ManagerInv
<1>2. BusOrder'
  BY DEF ManagerInv, BusOrder, OnBus, vars
<1>3. \A x \in Readers : ReaderInv(x)'
  BY UntouchedInd DEF ManagerInv
<1>4. QED
  BY <1>1, <1>2, <1>3 DEF ManagerInv

(* A walk that has not begun satisfies what holds of walks.                *)
LEMMA WalkBegins ==
  ASSUME NEW r, visited'[r] = {}, seen'[r] = 0,
         query'[r].kind = "device" => query'[r].index \in Nat
  PROVE  WalkInv(r)'
<1>1. Passed(visited[r])'
  BY DEF Passed
<1>2. /\ \A S : Cardinality(visited'[r] \cap S) = 0
  BY FS_EmptySet
<1>3. Cardinality(visited[r] \cap steady[r])' = 0
  BY <1>2
<1>4. Cardinality(visited[r] \cap Able(query[r]))' = 0
  BY <1>2
<1>5. QED
  BY <1>1, <1>3, <1>4 DEF WalkInv

(* pdm_manager_fill_device_info fills a well-typed record.                 *)
LEMMA InfoType ==
  ASSUME TypeOK, NEW d \in Devices
  PROVE  Info(d) \in Infos
BY DEF TypeOK, Info, Infos

(* The queries issued directly are of the three kinds.                     *)
LEMMA QueryType ==
  ASSUME NEW q \in Queries
  PROVE  /\ q.kind \in {"info", "device", "name"}
         /\ q.kind = "device" => q.index \in Nat
BY ManagerAssumption DEF ManagerAssumption

(* One lemma for each step of a reader.                                    *)
LEMMA ManagerIoctlInd ==
  ASSUME ManagerInv, NEW r \in Readers, NEW q \in Queries, ManagerIoctl(r, q)
  PROVE  ManagerInv'
<1> USE DEF ManagerIoctl, At, Issue, Observe, listVars
<1>1. /\ rpc[r] = "idle" /\ rpc'[r] = "scan" /\ query'[r] = q /\ visited'[r] = {}
      /\ seen'[r] = 0 /\ matched'[r] = {} /\ answer'[r] = NoAnswer
      /\ churn'[r] = FALSE /\ steady'[r] = Discoverable
      /\ listing'[r] = listing[r] /\ list'[r] = list[r]
  BY DEF ManagerInv, ManagerTypeOK
<1>2. \A x \in Readers \ {r} : Untouched(x)
  BY DEF ManagerInv, ManagerTypeOK, Untouched
<1>3. Discoverable \subseteq Devices
  BY BusIsFinite DEF ManagerInv, IndInv, Discoverable
<1>4. ManagerTypeOK'
  BY <1>3 DEF ManagerInv, ManagerTypeOK, ReaderLabels
<1>5. q.kind \in {"info", "device", "name"} /\ (q.kind = "device" => q.index \in Nat)
  BY QueryType
<1>6. Discoverable' = Discoverable
  BY SameBus
<1>7. HistoryInv(r)' /\ QueryInv(r)'
  BY <1>1, <1>5, <1>6 DEF HistoryInv, QueryInv
<1>8. WalkInv(r)'
  BY <1>1, <1>5, WalkBegins
<1>9. FillInv(r)' /\ DoneInv(r)' /\ AnswerExact(r)' /\ SteadyAnswered(r)' /\ ListExact(r)'
  BY <1>1 DEF FillInv, DoneInv, AnswerExact, SteadyAnswered, ListExact
<1>10. ListInv(r)'
  BY <1>1 DEF ManagerInv, ReaderInv, ListInv, EntriesExact
<1>11. QED
  BY <1>2, <1>4, <1>7, <1>8, <1>9, <1>10, ReaderInd DEF ReaderInv

(* What passing one device adds to a count.                                *)
LEMMA OneMore ==
  ASSUME NEW V, NEW A, NEW d, d \notin V, IsFiniteSet(V \cap A)
  PROVE  Cardinality((V \cup {d}) \cap A) =
           IF d \in A THEN Cardinality(V \cap A) + 1 ELSE Cardinality(V \cap A)
<1>1. CASE d \in A
  <2>1. (V \cup {d}) \cap A = (V \cap A) \cup {d}
    BY <1>1
  <2>2. QED
    BY <1>1, <2>1, FS_AddElement
<1>2. CASE d \notin A
  <2>1. (V \cup {d}) \cap A = V \cap A
    BY <1>2
  <2>2. QED
    BY <1>2, <2>1
<1>3. QED
  BY <1>1, <1>2

(* A callback that passes a device counts it if it asks for it.            *)
LEMMA PassWalks ==
  ASSUME ManagerInv, NEW r \in Readers, rpc[r] = "scan", NEW d \in Following(r),
         ~Matches(r, d), UNCHANGED vars, query'[r] = query[r], churn'[r] = churn[r],
         steady'[r] = steady[r], visited'[r] = visited[r] \cup {d},
         seen'[r] = IF Counts(r, d) THEN seen[r] + 1 ELSE seen[r]
  PROVE  WalkInv(r)'
<1> DEFINE q == query[r]
<1>1. HistoryInv(r) /\ QueryInv(r) /\ WalkInv(r) /\ TypeOK /\ seen[r] \in Nat
  BY DEF ManagerInv, ReaderInv, IndInv, ManagerTypeOK
<1>2. d \in OnBus /\ d \notin visited[r] /\ \A e \in OnBus : Precedes(e, d) => e \in visited[r]
  BY DEF Following, Ahead
<1>3. OnBus' = OnBus /\ Able(q)' = Able(q) /\ \A e, f : Precedes(e, f)' <=> Precedes(e, f)
  BY SameBus
<1>4. Passed(visited[r])'
  BY <1>1, <1>2, <1>3 DEF WalkInv, Passed
<1>5. q.kind = "device" => seen'[r] <= q.index
  <2>1. Counts(r, d) /\ q.kind = "device" => seen[r] # q.index
    BY DEF Counts, Matches
  <2>2. q.kind = "device" => seen[r] <= q.index /\ q.index \in Nat
    BY <1>1 DEF WalkInv, QueryInv
  <2>3. QED
    BY <1>1, <2>1, <2>2
<1>6. d \in steady[r] => Visible(d)
  BY <1>1 DEF HistoryInv, Discoverable
<1>7. q.kind = "name" => q.name \notin visited'[r] \cap steady'[r]
  <2>1. q.kind = "name" /\ d \in steady[r] => q.name # d
    BY <1>6 DEF Matches
  <2>2. QED
    BY <1>1, <2>1 DEF WalkInv
<1>8. /\ IsFiniteSet(visited[r] \cap steady[r]) /\ IsFiniteSet(visited[r] \cap Able(q))
      /\ Cardinality(visited[r] \cap steady[r]) \in Nat
  <2>1. visited[r] \in SUBSET OnBus
    BY <1>1 DEF WalkInv, Passed
  <2>2. visited[r] \cap steady[r] \in SUBSET OnBus /\ visited[r] \cap Able(q) \in SUBSET OnBus
    BY <2>1
  <2>3. QED
    BY <1>1, <2>2, BusIsFinite
<1>9. CountsAll(q) => seen'[r] >= Cardinality(visited'[r] \cap steady'[r])
  <2> SUFFICES ASSUME CountsAll(q) PROVE seen'[r] >= Cardinality(visited'[r] \cap steady'[r])
    OBVIOUS
  <2>1. d \in steady[r] => Counts(r, d)
    BY <1>6 DEF Counts, CountsAll
  <2>2. seen[r] >= Cardinality(visited[r] \cap steady[r])
    BY <1>1 DEF WalkInv
  <2>3. Cardinality(visited'[r] \cap steady'[r]) =
          IF d \in steady[r] THEN Cardinality(visited[r] \cap steady[r]) + 1
          ELSE Cardinality(visited[r] \cap steady[r])
    BY <1>2, <1>8, OneMore
  <2>4. QED
    BY <1>1, <1>8, <2>1, <2>2, <2>3
<1>10. ~churn[r] /\ q.kind # "name" => seen'[r] = Cardinality(visited'[r] \cap Able(q))
  <2> SUFFICES ASSUME ~churn[r], q.kind # "name"
               PROVE  seen'[r] = Cardinality(visited'[r] \cap Able(q))
    OBVIOUS
  <2>1. d \in Able(q) <=> Counts(r, d)
    BY <1>1, <1>2 DEF Able, Discoverable, Counts, QueryInv
  <2>2. seen[r] = Cardinality(visited[r] \cap Able(q))
    BY <1>1 DEF WalkInv
  <2>3. Cardinality(visited'[r] \cap Able(q)) =
          IF d \in Able(q) THEN Cardinality(visited[r] \cap Able(q)) + 1
          ELSE Cardinality(visited[r] \cap Able(q))
    BY <1>2, <1>8, OneMore
  <2>4. QED
    BY <2>1, <2>2, <2>3
<1>11. QED
  BY <1>3, <1>4, <1>5, <1>7, <1>9, <1>10 DEF WalkInv, CountsAll

(* pdm_manager_count_visible and the match callbacks that go on.           *)
LEMMA PassInd ==
  ASSUME ManagerInv, NEW r \in Readers, Pass(r)
  PROVE  ManagerInv'
<1> USE DEF listVars, histVars
<1>1. PICK d \in Following(r) :
        /\ ~Matches(r, d)
        /\ visited' = [visited EXCEPT ![r] = @ \cup {d}]
        /\ seen' = [seen EXCEPT ![r] = IF Counts(r, d) THEN @ + 1 ELSE @]
  BY DEF Pass
<1>2. rpc[r] = "scan" /\ UNCHANGED <<vars, rpc, query, matched, answer, listing, list, churn, steady>>
  BY DEF Pass
<1>3. /\ visited'[r] = visited[r] \cup {d}
      /\ seen'[r] = IF Counts(r, d) THEN seen[r] + 1 ELSE seen[r]
  BY <1>1 DEF ManagerInv, ManagerTypeOK
<1>4. \A x \in Readers \ {r} : Untouched(x)
  BY <1>1, <1>2 DEF ManagerInv, ManagerTypeOK, Untouched
<1>5. d \in Devices
  BY BusIsFinite DEF ManagerInv, IndInv, Following, Ahead
<1>6. ManagerTypeOK'
  BY <1>1, <1>2, <1>3, <1>5 DEF ManagerInv, ManagerTypeOK
<1>7. WalkInv(r)'
  BY <1>1, <1>2, <1>3, PassWalks
<1>8. HistoryInv(r)' /\ QueryInv(r)'
  BY <1>2, SameBus DEF HistoryInv, QueryInv, ManagerInv, ReaderInv
<1>9. FillInv(r)' /\ DoneInv(r)' /\ AnswerExact(r)' /\ SteadyAnswered(r)' /\ ListExact(r)'
  BY <1>2 DEF FillInv, DoneInv, AnswerExact, SteadyAnswered, ListExact
<1>10. ListInv(r)'
  BY <1>2, SameBus DEF ManagerInv, ReaderInv, ListInv, EntriesExact
<1>11. QED
  BY <1>2, <1>4, <1>6, <1>7, <1>8, <1>9, <1>10, ReaderInd DEF ReaderInv

(* Of two devices on the bus one precedes the other.                       *)
LEMMA BusIsTotal ==
  ASSUME TypeOK, NEW d \in OnBus, NEW e \in OnBus, d # e
  PROVE  Precedes(d, e) \/ Precedes(e, d)
<1>1. DOMAIN bus = 1..Len(bus) /\ Len(bus) \in Nat
  BY LenProperties DEF TypeOK
<1>2. PICK j, k \in DOMAIN bus : bus[j] = d /\ bus[k] = e
  BY DEF OnBus
<1>3. j < k \/ k < j
  BY <1>1, <1>2
<1>4. QED
  BY <1>2, <1>3 DEF Precedes

(* The device a callback matches is the one asked for.                     *)
LEMMA MatchIsAskedFor ==
  ASSUME ManagerInv, NEW r \in Readers, rpc[r] = "scan", NEW d \in Following(r),
         Matches(r, d), ~churn[r]
  PROVE  IsAskedFor(query[r], d)
<1> DEFINE q == query[r]
<1>1. WalkInv(r) /\ TypeOK
  BY DEF ManagerInv, ReaderInv, IndInv
<1>2. d \in OnBus /\ d \notin visited[r] /\ \A e \in OnBus : Precedes(e, d) => e \in visited[r]
  BY DEF Following, Ahead
<1>3. d \in Able(q)
  BY <1>2 DEF Able, Discoverable, Matches
<1>4. q.kind = "name" => d = q.name
  BY DEF Matches
<1>5. ASSUME q.kind = "device" PROVE Index(q, d) = q.index
  <2>1. seen[r] = q.index /\ seen[r] = Cardinality(visited[r] \cap Able(q))
    BY <1>1, <1>5 DEF WalkInv, Matches
  <2>2. \A e \in Able(q) : Precedes(e, d) => e \in visited[r]
    BY <1>2 DEF Able, Discoverable
  <2>3. \A e \in Able(q) : e \in visited[r] => Precedes(e, d)
    <3> SUFFICES ASSUME NEW e \in Able(q), e \in visited[r] PROVE Precedes(e, d)
      OBVIOUS
    <3>1. e \in OnBus /\ e # d
      BY <1>2 DEF Able, Discoverable
    <3>2. ~Precedes(d, e)
      BY <1>1, <1>2 DEF WalkInv, Passed
    <3>3. QED
      BY <1>1, <1>2, <3>1, <3>2, BusIsTotal
  <2>4. {e \in Able(q) : Precedes(e, d)} = visited[r] \cap Able(q)
    BY <2>2, <2>3
  <2>5. QED
    BY <2>1, <2>4 DEF Index
<1>6. QED
  BY <1>3, <1>4, <1>5 DEF IsAskedFor

(* pdm_manager_match_device stops the walk.                                *)
LEMMA MatchInd ==
  ASSUME ManagerInv, NEW r \in Readers, Match(r)
  PROVE  ManagerInv'
<1> USE DEF listVars, histVars, At
<1>1. PICK d \in Following(r) : Matches(r, d) /\ matched' = [matched EXCEPT ![r] = {d}]
  BY DEF Match
<1>2. /\ rpc[r] = "scan" /\ rpc' = [rpc EXCEPT ![r] = "fill"]
      /\ visited' = [visited EXCEPT ![r] = {}] /\ seen' = [seen EXCEPT ![r] = 0]
      /\ UNCHANGED <<vars, query, answer, listing, list, churn, steady>>
  BY DEF Match
<1>3. rpc'[r] = "fill" /\ matched'[r] = {d}
  BY <1>1, <1>2 DEF ManagerInv, ManagerTypeOK
<1>4. \A x \in Readers \ {r} : Untouched(x)
  BY <1>1, <1>2 DEF ManagerInv, ManagerTypeOK, Untouched
<1>5. d \in Devices
  BY BusIsFinite DEF ManagerInv, IndInv, Following, Ahead
<1>6. ManagerTypeOK'
  BY <1>1, <1>2, <1>5 DEF ManagerInv, ManagerTypeOK, ReaderLabels
<1>7. FillInv(r)'
  <2>1. query[r].kind # "info"
    BY <1>1 DEF Matches
  <2>2. ~churn[r] => IsAskedFor(query[r], d)
    BY <1>1, <1>2, MatchIsAskedFor
  <2>3. ~churn'[r] => IsAskedFor(query[r], d)'
    BY <1>2, <2>2, SameBus DEF IsAskedFor
  <2>4. QED
    BY <1>2, <1>3, <1>5, <2>1, <2>3 DEF FillInv
<1>8. HistoryInv(r)' /\ QueryInv(r)'
  BY <1>2, <1>3, SameBus DEF HistoryInv, QueryInv, ManagerInv, ReaderInv
<1>9. WalkInv(r)' /\ DoneInv(r)' /\ AnswerExact(r)' /\ SteadyAnswered(r)' /\ ListExact(r)'
  BY <1>3 DEF WalkInv, DoneInv, AnswerExact, SteadyAnswered, ListExact
<1>10. ListInv(r)'
  BY <1>2, <1>3, SameBus DEF ManagerInv, ReaderInv, ListInv, EntriesExact
<1>11. QED
  BY <1>2, <1>4, <1>6, <1>7, <1>8, <1>9, <1>10, ReaderInd DEF ReaderInv

(* pdm_manager_fill_device_info copies the device.                         *)
LEMMA FillInd ==
  ASSUME ManagerInv, NEW r \in Readers, Fill(r)
  PROVE  ManagerInv'
<1> USE DEF listVars, histVars, At
<1>1. /\ rpc[r] = "fill" /\ rpc' = [rpc EXCEPT ![r] = "done"]
      /\ matched' = [matched EXCEPT ![r] = {}]
      /\ UNCHANGED <<vars, query, visited, seen, listing, list, churn, steady>>
      /\ \E d \in matched[r] : answer' = [answer EXCEPT ![r] = <<"info", Info(d)>>]
  BY DEF Fill
<1>2. /\ HistoryInv(r) /\ QueryInv(r) /\ FillInv(r) /\ ListInv(r) /\ TypeOK
  BY DEF ManagerInv, ReaderInv, IndInv
<1>3. PICK d \in Devices :
        /\ ~churn[r] => IsAskedFor(query[r], d)
        /\ answer' = [answer EXCEPT ![r] = <<"info", Info(d)>>]
  BY <1>1, <1>2 DEF FillInv
<1>4. rpc'[r] = "done" /\ answer'[r] = <<"info", Info(d)>>
  BY <1>1, <1>3 DEF ManagerInv, ManagerTypeOK
<1>5. \A x \in Readers \ {r} : Untouched(x)
  BY <1>1, <1>3 DEF ManagerInv, ManagerTypeOK, Untouched
<1>6. Info(d) \in Infos
  BY <1>2, InfoType
<1>7. ManagerTypeOK'
  <2>1. answer' \in [Readers -> {NoAnswer, ENODEV} \cup ({"count"} \X Nat) \cup ({"info"} \X Infos)]
    BY <1>3, <1>6 DEF ManagerInv, ManagerTypeOK
  <2>2. QED
    BY <1>1, <2>1 DEF ManagerInv, ManagerTypeOK, ReaderLabels, Infos
<1>8. query'[r] = query[r] /\ query[r].kind \in {"device", "name"}
  BY <1>1, <1>2 DEF FillInv, QueryInv
<1>9. answer'[r] # ENODEV
  BY <1>4 DEF ENODEV
<1>10. DoneInv(r)' /\ SteadyAnswered(r)'
  BY <1>4, <1>6, <1>8, <1>9 DEF DoneInv, SteadyAnswered, Infos
<1>11. AnswerExact(r)'
  <2> SUFFICES ASSUME ~churn[r] PROVE Exact(query[r], <<"info", Info(d)>>)
    BY <1>1, <1>4, <1>8, SameBus DEF AnswerExact
  <2>1. IsAskedFor(query[r], d)
    BY <1>3
  <2>2. CASE query[r].kind = "device"
    BY <2>1, <2>2 DEF Exact, IsAskedFor
  <2>3. CASE query[r].kind = "name"
    BY <2>1, <2>3 DEF Exact, IsAskedFor, Able
  <2>4. QED
    BY <1>8, <2>2, <2>3
<1>12. HistoryInv(r)' /\ QueryInv(r)'
  BY <1>1, <1>2, <1>4, SameBus DEF HistoryInv, QueryInv
<1>13. WalkInv(r)' /\ FillInv(r)' /\ ListExact(r)'
  BY <1>4 DEF WalkInv, FillInv, ListExact
<1>14. ListInv(r)'
  BY <1>1, <1>2, <1>4, SameBus DEF ListInv, EntriesExact
<1>15. QED
  BY <1>1, <1>5, <1>7, <1>10, <1>11, <1>12, <1>13, <1>14, ReaderInd DEF ReaderInv

(* At the end of the bus everything has been passed.                       *)
LEMMA ExhaustAnswers ==
  ASSUME ManagerInv, NEW r \in Readers, rpc[r] = "scan", Ahead(r) = {}
  PROVE  LET a == IF query[r].kind = "info" THEN <<"count", seen[r]>> ELSE ENODEV
         IN  /\ ~churn[r] => Exact(query[r], a)
             /\ query[r].kind = "info" => a[2] >= Cardinality(steady[r])
             /\ query[r].kind = "name" => query[r].name \notin steady[r]
             /\ query[r].kind = "device" /\ query[r].need = {}
                => query[r].index >= Cardinality(steady[r])
<1> DEFINE q == query[r]
<1>1. HistoryInv(r) /\ QueryInv(r) /\ WalkInv(r) /\ TypeOK /\ seen[r] \in Nat
  BY DEF ManagerInv, ReaderInv, IndInv, ManagerTypeOK
<1>2. visited[r] = OnBus
  BY <1>1 DEF WalkInv, Passed, Ahead
<1>3. Able(q) \subseteq OnBus /\ steady[r] \subseteq OnBus
  BY <1>1 DEF Able, Discoverable, HistoryInv
<1>4. visited[r] \cap Able(q) = Able(q) /\ visited[r] \cap steady[r] = steady[r]
  BY <1>2, <1>3
<1>5. Cardinality(Able(q)) \in Nat /\ Cardinality(steady[r]) \in Nat
  BY <1>1, <1>3, BusIsFinite
<1>6. q.kind = "name" => q.name \notin steady[r]
  BY <1>1, <1>4 DEF WalkInv
<1>7. CountsAll(q) => seen[r] >= Cardinality(steady[r])
  BY <1>1, <1>4 DEF WalkInv
<1>8. q.kind = "device" => q.index \in Nat /\ seen[r] <= q.index
  BY <1>1 DEF WalkInv, QueryInv
<1>9. ~churn[r] /\ q.kind # "name" => seen[r] = Cardinality(Able(q))
  BY <1>1, <1>4 DEF WalkInv
<1>10. ASSUME ~churn[r]
       PROVE  Exact(q, IF q.kind = "info" THEN <<"count", seen[r]>> ELSE ENODEV)
  <2>1. CASE q.kind = "info"
    BY <1>9, <1>10, <2>1 DEF Exact
  <2>2. CASE q.kind = "device"
    BY <1>8, <1>9, <1>10, <2>2 DEF Exact
  <2>3. CASE q.kind = "name"
    <3>1. q.name \notin Discoverable
      BY <1>1, <1>6, <1>10, <2>3 DEF HistoryInv
    <3>2. QED
      BY <2>3, <3>1 DEF Exact
  <2>4. QED
    BY <1>1, <2>1, <2>2, <2>3 DEF QueryInv
<1>11. q.kind = "device" /\ q.need = {} => q.index >= Cardinality(steady[r])
  BY <1>1, <1>5, <1>7, <1>8 DEF CountsAll
<1>12. q.kind = "info" => seen[r] >= Cardinality(steady[r])
  BY <1>7 DEF CountsAll
<1>13. QED
  BY <1>6, <1>10, <1>11, <1>12

(* bus_for_each_dev comes to the end.                                      *)
LEMMA ExhaustInd ==
  ASSUME ManagerInv, NEW r \in Readers, Exhaust(r)
  PROVE  ManagerInv'
<1> USE DEF listVars, histVars, At
<1> DEFINE a == IF query[r].kind = "info" THEN <<"count", seen[r]>> ELSE ENODEV
<1>1. /\ rpc[r] = "scan" /\ rpc' = [rpc EXCEPT ![r] = "done"] /\ Ahead(r) = {}
      /\ answer' = [answer EXCEPT ![r] = a]
      /\ visited' = [visited EXCEPT ![r] = {}] /\ seen' = [seen EXCEPT ![r] = 0]
      /\ UNCHANGED <<vars, query, matched, listing, list, churn, steady>>
  BY DEF Exhaust
<1>2. /\ HistoryInv(r) /\ QueryInv(r) /\ ListInv(r) /\ TypeOK /\ seen[r] \in Nat
  BY DEF ManagerInv, ReaderInv, IndInv, ManagerTypeOK
<1>3. /\ ~churn[r] => Exact(query[r], a)
      /\ query[r].kind = "info" => a[2] >= Cardinality(steady[r])
      /\ query[r].kind = "name" => query[r].name \notin steady[r]
      /\ query[r].kind = "device" /\ query[r].need = {}
         => query[r].index >= Cardinality(steady[r])
  BY <1>1, ExhaustAnswers
<1>4. a \in IF query[r].kind = "info" THEN {"count"} \X Nat ELSE {ENODEV}
  BY <1>2
<1> HIDE DEF a
<1>5. rpc'[r] = "done" /\ answer'[r] = a
  BY <1>1 DEF ManagerInv, ManagerTypeOK
<1>6. \A x \in Readers \ {r} : Untouched(x)
  BY <1>1 DEF ManagerInv, ManagerTypeOK, Untouched
<1>7. ManagerTypeOK'
  BY <1>1, <1>4 DEF ManagerInv, ManagerTypeOK, ReaderLabels, Infos
<1>8. DoneInv(r)'
  BY <1>1, <1>4, <1>5 DEF DoneInv
<1>9. AnswerExact(r)'
  BY <1>1, <1>3, <1>5, SameBus DEF AnswerExact
<1>10. SteadyAnswered(r)'
  <2>1. Cardinality(steady[r]) \in Nat
    BY <1>2, BusIsFinite DEF HistoryInv, Discoverable
  <2>2. query[r].kind = "device" => query[r].index \in Nat
    BY <1>1, <1>2 DEF QueryInv
  <2>3. QED
    BY <1>1, <1>3, <1>5, <2>1, <2>2 DEF SteadyAnswered
<1>11. HistoryInv(r)' /\ QueryInv(r)'
  BY <1>1, <1>2, <1>5, SameBus DEF HistoryInv, QueryInv
<1>12. WalkInv(r)' /\ FillInv(r)' /\ ListExact(r)'
  BY <1>5 DEF WalkInv, FillInv, ListExact
<1>13. ListInv(r)'
  BY <1>1, <1>2, <1>5, SameBus DEF ListInv, EntriesExact
<1>14. QED
  BY <1>1, <1>6, <1>7, <1>8, <1>9, <1>10, <1>11, <1>12, <1>13, ReaderInd DEF ReaderInv

(* The call returns.                                                       *)
LEMMA ReturnInd ==
  ASSUME ManagerInv, NEW r \in Readers, Return(r) \/ ListReturn(r)
  PROVE  ManagerInv'
<1> USE DEF listVars, At, Issue
<1>1. /\ rpc'[r] = "idle" /\ churn'[r] = FALSE /\ steady'[r] = {}
      /\ listing'[r] = FALSE /\ list'[r] = <<>> /\ UNCHANGED vars
  <2>1. CASE Return(r)
    <3>1. ListInv(r)
      BY DEF ManagerInv, ReaderInv
    <3>2. list[r] = <<>> /\ listing[r] = FALSE
      BY <2>1, <3>1 DEF Return, ListInv, ManagerInv, ManagerTypeOK
    <3>3. QED
      BY <2>1, <3>2 DEF Return, ManagerInv, ManagerTypeOK
  <2>2. CASE ListReturn(r)
    BY <2>2 DEF ListReturn, ManagerInv, ManagerTypeOK
  <2>3. QED
    BY <2>1, <2>2
<1>2. \A x \in Readers \ {r} : Untouched(x)
  BY DEF Return, ListReturn, ManagerInv, ManagerTypeOK, Untouched
<1>3. ManagerTypeOK'
  <2>1. CASE Return(r)
    BY <2>1 DEF Return, ManagerInv, ManagerTypeOK, ReaderLabels, Infos
  <2>2. CASE ListReturn(r)
    BY <2>2, EmptySeq DEF ListReturn, ManagerInv, ManagerTypeOK, ReaderLabels
  <2>3. QED
    BY <2>1, <2>2
<1>4. HistoryInv(r)' /\ QueryInv(r)' /\ WalkInv(r)' /\ FillInv(r)'
  BY <1>1 DEF HistoryInv, QueryInv, WalkInv, FillInv
<1>5. DoneInv(r)' /\ AnswerExact(r)' /\ SteadyAnswered(r)' /\ ListExact(r)'
  BY <1>1 DEF DoneInv, AnswerExact, SteadyAnswered, ListExact
<1>6. EntriesExact(r)'
  BY <1>1 DEF EntriesExact
<1>7. ListInv(r)'
  BY <1>1, <1>6 DEF ListInv
<1>8. QED
  BY <1>1, <1>2, <1>3, <1>4, <1>5, <1>7, ReaderInd DEF ReaderInv

(* pdi_list_devices begins ...                                             *)
LEMMA ListFirstInd ==
  ASSUME ManagerInv, NEW r \in Readers, ListFirst(r)
  PROVE  ManagerInv'
<1> USE DEF ListFirst, At, Issue, Observe
<1>1. /\ rpc'[r] = "scan" /\ query'[r] = IndexQuery(0) /\ visited'[r] = {}
      /\ seen'[r] = 0 /\ churn'[r] = FALSE /\ steady'[r] = Discoverable
      /\ listing'[r] = TRUE /\ list'[r] = <<>> /\ UNCHANGED vars
  BY DEF ManagerInv, ManagerTypeOK
<1>2. \A x \in Readers \ {r} : Untouched(x)
  BY DEF ManagerInv, ManagerTypeOK, Untouched
<1>3. Discoverable \subseteq Devices
  BY BusIsFinite DEF ManagerInv, IndInv, Discoverable
<1>4. ManagerTypeOK'
  BY <1>3, EmptySeq DEF ManagerInv, ManagerTypeOK, ReaderLabels, IndexQuery
<1>5. Discoverable' = Discoverable
  BY SameBus
<1>6. HistoryInv(r)' /\ QueryInv(r)'
  BY <1>1, <1>5 DEF HistoryInv, QueryInv, IndexQuery
<1>7. WalkInv(r)'
  BY <1>1, WalkBegins DEF IndexQuery
<1>8. FillInv(r)' /\ DoneInv(r)' /\ AnswerExact(r)' /\ SteadyAnswered(r)' /\ ListExact(r)'
  BY <1>1 DEF FillInv, DoneInv, AnswerExact, SteadyAnswered, ListExact
<1>9. ListInv(r)'
  BY <1>1, ManagerAssumption DEF ManagerAssumption, ListInv, EntriesExact
<1>10. QED
  BY <1>2, <1>4, <1>6, <1>7, <1>8, <1>9, ReaderInd DEF ReaderInv

(* One more exact answer makes one more exact entry.                       *)
LEMMA CollectedExact ==
  ASSUME ManagerInv, NEW r \in Readers, rpc[r] = "done", listing[r], answer[r] # ENODEV
  PROVE  /\ Collected(r) \in Seq(Infos) /\ Len(Collected(r)) = Len(list[r]) + 1
         /\ ~churn[r] => \A k \in 1..Len(Collected(r)) :
                           Exact(IndexQuery(k - 1), <<"info", Collected(r)[k]>>)
<1>1. /\ QueryInv(r) /\ DoneInv(r) /\ AnswerExact(r) /\ ListInv(r)
      /\ list[r] \in Seq(Infos)
  BY DEF ManagerInv, ReaderInv, ManagerTypeOK
<1>2. query[r] = IndexQuery(Len(list[r]))
  BY <1>1 DEF ListInv
<1>3. answer[r] \in {"info"} \X Infos
  BY <1>1, <1>2 DEF DoneInv, IndexQuery
<1>4. PICK i \in Infos : answer[r] = <<"info", i>>
  BY <1>3
<1>5. Collected(r) = Append(list[r], i)
  BY <1>4 DEF Collected
<1>6. PICK n \in Nat : n = Len(list[r])
  BY <1>1, LenProperties
<1>7. /\ Collected(r) \in Seq(Infos) /\ Len(Collected(r)) = n + 1
      /\ \A k \in 1..n : Collected(r)[k] = list[r][k]
      /\ Collected(r)[n + 1] = i
  BY <1>1, <1>5, <1>6, AppendProperties
<1>8. ASSUME ~churn[r], NEW k \in 1..(n + 1)
      PROVE  Exact(IndexQuery(k - 1), <<"info", Collected(r)[k]>>)
  <2>1. CASE k \in 1..n
    BY <1>1, <1>6, <1>7, <1>8, <2>1 DEF ListInv, EntriesExact
  <2>2. CASE k = n + 1
    <3>1. Exact(IndexQuery(n), <<"info", i>>)
      BY <1>1, <1>2, <1>4, <1>6, <1>8 DEF AnswerExact
    <3>2. k - 1 = n /\ Collected(r)[k] = i
      BY <1>7, <2>2
    <3>3. QED
      BY <3>1, <3>2
  <2>3. QED
    BY <1>8, <2>1, <2>2
<1>9. QED
  BY <1>6, <1>7, <1>8

(* ... goes on ...                                                         *)
LEMMA ListNextInd ==
  ASSUME ManagerInv, NEW r \in Readers, ListNext(r)
  PROVE  ManagerInv'
<1> USE DEF histVars, At, Issue
<1> DEFINE l == Collected(r)
<1>1. /\ rpc[r] = "done" /\ listing[r] /\ answer[r] # ENODEV /\ Len(l) < ListLen
      /\ rpc' = [rpc EXCEPT ![r] = "scan"] /\ list' = [list EXCEPT ![r] = l]
      /\ query' = [query EXCEPT ![r] = IndexQuery(Len(l))]
      /\ visited' = [visited EXCEPT ![r] = {}] /\ seen' = [seen EXCEPT ![r] = 0]
      /\ matched' = [matched EXCEPT ![r] = {}] /\ answer' = [answer EXCEPT ![r] = NoAnswer]
      /\ UNCHANGED <<vars, listing, churn, steady>>
  BY DEF ListNext
<1>2. /\ l \in Seq(Infos)
      /\ ~churn[r] => \A k \in 1..Len(l) : Exact(IndexQuery(k - 1), <<"info", l[k]>>)
  BY <1>1, CollectedExact
<1>3. HistoryInv(r)
  BY DEF ManagerInv, ReaderInv
<1> HIDE DEF l
<1>4. Len(l) \in Nat
  BY <1>2, LenProperties
<1>5. /\ rpc'[r] = "scan" /\ list'[r] = l /\ query'[r] = IndexQuery(Len(l))
      /\ visited'[r] = {} /\ seen'[r] = 0
  BY <1>1 DEF ManagerInv, ManagerTypeOK
<1>6. \A x \in Readers \ {r} : Untouched(x)
  BY <1>1 DEF ManagerInv, ManagerTypeOK, Untouched
<1>7. ManagerTypeOK'
  BY <1>1, <1>2, <1>4 DEF ManagerInv, ManagerTypeOK, ReaderLabels, IndexQuery, Infos
<1>8. HistoryInv(r)' /\ QueryInv(r)'
  BY <1>1, <1>3, <1>4, <1>5, SameBus DEF HistoryInv, QueryInv, IndexQuery
<1>9. WalkInv(r)'
  BY <1>4, <1>5, WalkBegins DEF IndexQuery
<1>10. FillInv(r)' /\ DoneInv(r)' /\ AnswerExact(r)' /\ SteadyAnswered(r)' /\ ListExact(r)'
  BY <1>5 DEF FillInv, DoneInv, AnswerExact, SteadyAnswered, ListExact
<1>11. ListInv(r)'
  BY <1>1, <1>2, <1>5, SameBus DEF ListInv, EntriesExact
<1>12. QED
  BY <1>1, <1>6, <1>7, <1>8, <1>9, <1>10, <1>11, ReaderInd DEF ReaderInv

(* There is a device for each index that has an answer, and none for one   *)
(* that has not.                                                           *)
LEMMA IndexBounds ==
  ASSUME TypeOK, BusOrder, NEW i \in Nat
  PROVE  /\ \A x : Exact(IndexQuery(i), <<"info", x>>) => i < Cardinality(Discoverable)
         /\ Exact(IndexQuery(i), ENODEV) => Cardinality(Discoverable) <= i
<1>1. Able(IndexQuery(i)) = Discoverable
  BY DEF Able, IndexQuery
<1>2. IsFiniteSet(Discoverable) /\ Cardinality(Discoverable) \in Nat
  BY BusIsFinite DEF Discoverable
<1>3. ASSUME NEW x, Exact(IndexQuery(i), <<"info", x>>)
      PROVE  i < Cardinality(Discoverable)
  <2>1. PICK d \in Discoverable : Index(IndexQuery(i), d) = i
    BY <1>1, <1>3 DEF Exact, IndexQuery, ENODEV
  <2>2. ~Precedes(d, d)
    BY LenProperties DEF Precedes, BusOrder, TypeOK
  <2>3. {e \in Discoverable : Precedes(e, d)} \in SUBSET (Discoverable \ {d})
    BY <2>2
  <2>4. /\ IsFiniteSet(Discoverable \ {d})
        /\ Cardinality(Discoverable \ {d}) = Cardinality(Discoverable) - 1
    BY <1>2, FS_RemoveElement
  <2>5. i <= Cardinality(Discoverable) - 1
    BY <1>1, <2>1, <2>3, <2>4, FS_Subset DEF Index
  <2>6. QED
    BY <1>2, <2>5
<1>4. Exact(IndexQuery(i), ENODEV) => Cardinality(Discoverable) <= i
  BY <1>1 DEF Exact, IndexQuery, ENODEV
<1>5. QED
  BY <1>3, <1>4

(* ... and ends with the smaller of the two bounds.                        *)
LEMMA ListEndInd ==
  ASSUME ManagerInv, NEW r \in Readers, ListEnd(r)
  PROVE  ManagerInv'
<1> USE DEF walkVars, histVars, At
<1> DEFINE l == Collected(r)
<1>1. /\ rpc[r] = "done" /\ listing[r] /\ (answer[r] = ENODEV \/ Len(l) = ListLen)
      /\ rpc' = [rpc EXCEPT ![r] = "listed"] /\ list' = [list EXCEPT ![r] = l]
      /\ UNCHANGED <<vars, query, visited, seen, matched, answer, listing, churn, steady>>
  BY DEF ListEnd
<1>2. /\ HistoryInv(r) /\ QueryInv(r) /\ AnswerExact(r) /\ ListInv(r) /\ TypeOK
      /\ BusOrder /\ list[r] \in Seq(Infos)
  BY DEF ManagerInv, ReaderInv, IndInv, ManagerTypeOK
<1>3. /\ l \in Seq(Infos)
      /\ ~churn[r] => \A k \in 1..Len(l) : Exact(IndexQuery(k - 1), <<"info", l[k]>>)
  <2>1. CASE answer[r] = ENODEV
    BY <1>2, <2>1 DEF Collected, ListInv, EntriesExact
  <2>2. CASE answer[r] # ENODEV
    BY <1>1, <2>2, CollectedExact
  <2>3. QED
    BY <2>1, <2>2
<1>4. answer[r] = ENODEV => l = list[r]
  BY DEF Collected
<1> HIDE DEF l
<1>5. PICK n \in Nat : n = Len(l)
  BY <1>3, LenProperties
<1>6. ~churn[r] /\ n > 0 => n <= Cardinality(Discoverable)
  <2> SUFFICES ASSUME ~churn[r], n > 0 PROVE n <= Cardinality(Discoverable)
    OBVIOUS
  <2>1. Exact(IndexQuery(n - 1), <<"info", l[n]>>) /\ n - 1 \in Nat
    BY <1>3, <1>5
  <2>2. n - 1 < Cardinality(Discoverable)
    BY <1>2, <2>1, IndexBounds
  <2>3. Cardinality(Discoverable) \in Nat
    BY <1>2, BusIsFinite DEF Discoverable
  <2>4. QED
    BY <2>2, <2>3
<1>7. answer[r] = ENODEV => n < ListLen /\ (~churn[r] => Cardinality(Discoverable) <= n)
  <2> SUFFICES ASSUME answer[r] = ENODEV
               PROVE  n < ListLen /\ (~churn[r] => Cardinality(Discoverable) <= n)
    OBVIOUS
  <2>1. query[r] = IndexQuery(n) /\ n < ListLen
    BY <1>1, <1>2, <1>4, <1>5 DEF ListInv
  <2>2. ~churn[r] => Exact(IndexQuery(n), ENODEV)
    BY <1>1, <1>2, <2>1 DEF AnswerExact
  <2>3. QED
    BY <1>2, <2>1, <2>2, IndexBounds
<1>8. ~churn[r] => n = IF Cardinality(Discoverable) < ListLen
                       THEN Cardinality(Discoverable) ELSE ListLen
  <2>1. Cardinality(Discoverable) \in Nat /\ ListLen \in Nat
    BY <1>2, BusIsFinite, ManagerAssumption DEF Discoverable, ManagerAssumption
  <2>2. QED
    BY <1>1, <1>5, <1>6, <1>7, <2>1
<1>9. rpc'[r] = "listed" /\ list'[r] = l
  BY <1>1 DEF ManagerInv, ManagerTypeOK
<1>10. \A x \in Readers \ {r} : Untouched(x)
  BY <1>1 DEF ManagerInv, ManagerTypeOK, Untouched
<1>11. ManagerTypeOK'
  BY <1>1, <1>3 DEF ManagerInv, ManagerTypeOK, ReaderLabels, Infos
<1>12. HistoryInv(r)' /\ QueryInv(r)'
  BY <1>1, <1>2, <1>9, SameBus DEF HistoryInv, QueryInv
<1>13. WalkInv(r)' /\ FillInv(r)' /\ DoneInv(r)' /\ AnswerExact(r)' /\ SteadyAnswered(r)'
  BY <1>9 DEF WalkInv, FillInv, DoneInv, AnswerExact, SteadyAnswered
<1>14. ~churn'[r] => EntriesExact(r)'
  BY <1>1, <1>3, <1>9, SameBus DEF EntriesExact
<1>15. ListInv(r)'
  BY <1>1, <1>2, <1>9, <1>14 DEF ListInv
<1>16. ListExact(r)'
  BY <1>1, <1>5, <1>8, <1>9, <1>14, SameBus DEF ListExact
<1>17. QED
  BY <1>1, <1>10, <1>11, <1>12, <1>13, <1>15, <1>16, ReaderInd DEF ReaderInv

(* ManagerInv is an invariant.                                             *)
THEOREM ManagerInvariant == ManagerSpec => []ManagerInv
<1>1. ManagerInit => ManagerInv
  <2> SUFFICES ASSUME ManagerInit PROVE ManagerInv
    OBVIOUS
  <2> USE DEF ManagerInit
  <2>1. IndInv
    BY InitInd
  <2>2. ManagerTypeOK
    BY DEF ManagerTypeOK, ReaderLabels, Infos
  <2>3. BusOrder
    BY DEF Init, BusOrder, OnBus
  <2>4. ASSUME NEW r \in Readers PROVE ReaderInv(r)
    <3>1. HistoryInv(r) /\ QueryInv(r) /\ WalkInv(r) /\ FillInv(r) /\ DoneInv(r)
      BY DEF HistoryInv, QueryInv, WalkInv, FillInv, DoneInv
    <3>2. AnswerExact(r) /\ SteadyAnswered(r) /\ ListInv(r) /\ ListExact(r)
      BY DEF AnswerExact, SteadyAnswered, ListInv, ListExact, EntriesExact
    <3>3. QED
      BY <3>1, <3>2 DEF ReaderInv
  <2>5. QED
    BY <2>1, <2>2, <2>3, <2>4 DEF ManagerInv
<1>2. ManagerInv /\ [ManagerNext]_allVars => ManagerInv'
  <2> SUFFICES ASSUME ManagerInv, [ManagerNext]_allVars PROVE ManagerInv'
    OBVIOUS
  <2>1. CASE BusStep
    BY <2>1, BusStepInd
  <2>2. ASSUME NEW r \in Readers, ReaderStep(r) PROVE ManagerInv'
    BY <2>2, ManagerIoctlInd, PassInd, MatchInd, FillInd, ExhaustInd, ReturnInd,
       ListFirstInd, ListNextInd, ListEndInd DEF ReaderStep
  <2>3. CASE UNCHANGED allVars
    <3> USE <2>3 DEF allVars, managerVars, walkVars, listVars, histVars
    <3>1. IndInv'
      BY NextInd DEF ManagerInv
    <3>2. BusOrder'
      BY DEF ManagerInv, BusOrder, OnBus, vars
    <3>3. ManagerTypeOK'
      BY DEF ManagerInv, ManagerTypeOK, ReaderLabels, Infos
    <3>4. \A r \in Readers : ReaderInv(r)'
      BY UntouchedInd DEF ManagerInv, Untouched
    <3>5. QED
      BY <3>1, <3>2, <3>3, <3>4 DEF ManagerInv
  <2>4. QED
    BY <2>1, <2>2, <2>3 DEF ManagerNext
<1>3. QED
  BY <1>1, <1>2, PTL DEF ManagerSpec

(* What the control node tells is exact when nothing discoverable changes  *)
(* meanwhile, and overlooks no device that is discoverable throughout,     *)
(* however bindings, unbindings and other readers interleave.              *)
THEOREM AnswersAreSound == ManagerSpec => []AnswersAreExact
<1>1. ManagerInv => AnswersAreExact
  BY DEF ManagerInv, ReaderInv, AnswersAreExact, QuietAnswerExact,
         SteadyDevicesAnswered, QuietListExact
<1>2. QED
  BY <1>1, ManagerInvariant, PTL

(* Type correctness of the readers and of the bus under them.              *)
THEOREM ManagerTypes == ManagerSpec => [](TypeOK /\ ManagerTypeOK)
<1>1. ManagerInv => TypeOK /\ ManagerTypeOK
  BY DEF ManagerInv, IndInv
<1>2. QED
  BY <1>1, ManagerInvariant, PTL
===============================================================================
