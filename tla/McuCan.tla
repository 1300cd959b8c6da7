-------------------------------- MODULE McuCan --------------------------------
(***************************************************************************)
(* The CAN transport of an MCU (kernel/pdm/drivers/mcu/pdm_mcu_can.c) below *)
(* the protocol (pdm_mcu_protocol.c).  Every instance has a raw socket on   *)
(* the interface; whatever is on the bus, the requests of the others        *)
(* included, is queued on it, and the next frame of the queue is the answer *)
(* to whatever was asked last.  Requests of one instance follow one another *)
(* under its mutex.  Lengths are scaled down.                               *)
(***************************************************************************)
EXTENDS Integers, Sequences, FiniteSets

CONSTANTS
  Instances,
  MaxDlen,    (* CAN_MAX_DLEN, which is max_tx_size and max_rx_size        *)
  IndexLen,   (* length of the payload of the fixed requests               *)
  QueryLen,   (* sizeof(struct pdm_mcu_version)                            *)
  MaxTransfer,(* PDM_MCU_MAX_TRANSFER_SIZE                                 *)
  QueueSize,  (* frames the socket holds; what comes then is dropped       *)
  MaxRequests,(* bound of the requests of an instance                      *)
  Strangers   (* number of frames that other nodes of the bus send         *)

(* What the constants are; assumed by the module that instantiates this one. *)
CanAssumption ==
  /\ IsFiniteSet(Instances)
  /\ {MaxDlen, IndexLen, QueryLen, MaxTransfer} \subseteq Nat
  /\ IndexLen <= MaxDlen /\ MaxDlen <= MaxTransfer /\ QueryLen <= MaxTransfer
  /\ {QueueSize, MaxRequests, Strangers} \subseteq Nat

Requests == Instances \X (1..MaxRequests)
Nobody == <<>>    (* a frame that answers no request                       *)
Frames == [to : Requests \cup {Nobody}, len : 0..MaxDlen]

VARIABLES
  stage,    (* of the transport: closed, netdev, socket, open              *)
  refs,     (* references on the network device                            *)
  pc,       (* idle, send, receive, done or failed                         *)
  number,   (* of the last request                                         *)
  want,     (* the length asked for                                        *)
  query,    (* the request is a get_version or get_status                  *)
  got,      (* [Instances -> the frame received, or none: <<>>]            *)
  queue,    (* of the socket                                               *)
  due,      (* requests the MCU has not answered yet                       *)
  clean,    (* history: since the instance found the bus silent nobody     *)
            (* else has sent, and every answer it asked for has come       *)
  strangers (* frames of other nodes so far                                *)

xferVars == <<number, want, query, got>>
vars == <<stage, refs, pc, xferVars, queue, due, clean, strangers>>

Init ==
  /\ stage = [i \in Instances |-> "closed"]
  /\ refs = 0
  /\ pc = [i \in Instances |-> "idle"]
  /\ number = [i \in Instances |-> 0]
  /\ want = [i \in Instances |-> 0]
  /\ query = [i \in Instances |-> FALSE]
  /\ got = [i \in Instances |-> <<>>]
  /\ queue = [i \in Instances |-> <<>>]
  /\ due = [i \in Instances |-> {}]
  /\ clean = [i \in Instances |-> TRUE]
  /\ strangers = 0

Disturb(others) == clean' = [i \in Instances |-> clean[i] /\ i \notin others]
Stage(i, from, to) == stage[i] = from /\ stage' = [stage EXCEPT ![i] = to]
Goto(i, from, to) == pc[i] = from /\ pc' = [pc EXCEPT ![i] = to]

(* A frame reaches every bound socket but the sender's own.                *)
Broadcast(frame, receivers) ==
  queue' = [i \in Instances |->
              IF i \in receivers /\ stage[i] = "open" /\ Len(queue[i]) < QueueSize
              THEN Append(queue[i], frame) ELSE queue[i]]
-------------------------------------------------------------------------------
(* pdm_mcu_can_setup: the network device, the socket, the bind.            *)
FindNetdev(i) ==
  /\ Stage(i, "closed", "netdev")
  /\ refs' = refs + 1
  /\ UNCHANGED <<pc, xferVars, queue, due, clean, strangers>>

CreateSocket(i) ==
  /\ Stage(i, "netdev", "socket")
  /\ UNCHANGED <<refs, pc, xferVars, queue, due, clean, strangers>>

BindSocket(i) ==
  /\ Stage(i, "socket", "open")
  /\ clean' = [clean EXCEPT ![i] = due[i] = {}]
  /\ UNCHANGED <<refs, pc, xferVars, queue, due, strangers>>

(* A slip: the reference is kept when the bind fails.                      *)
SetupFailsHalf(i) ==
  /\ \/ Stage(i, "netdev", "closed") /\ refs' = refs - 1
     \/ Stage(i, "socket", "closed") /\ UNCHANGED refs
  /\ UNCHANGED <<pc, xferVars, queue, due, clean, strangers>>

(* err_release_sock and err_put_netdev.                                    *)
SetupFails(i) ==
  /\ \/ Stage(i, "netdev", "closed")
     \/ Stage(i, "socket", "closed")
  /\ refs' = refs - 1
  /\ UNCHANGED <<pc, xferVars, queue, due, clean, strangers>>

(* pdm_mcu_can_cleanup, with the mutex of the instance.                    *)
Cleanup(i) ==
  /\ pc[i] = "idle"
  /\ Stage(i, "open", "closed")
  /\ refs' = refs - 1
  /\ queue' = [queue EXCEPT ![i] = <<>>]
  /\ UNCHANGED <<pc, xferVars, due, clean, strangers>>
-------------------------------------------------------------------------------
(* pdm_mcu_protocol_xfer: what does not fit is refused.                    *)
Fits(tx, rx) == tx <= MaxDlen /\ rx <= MaxDlen

(* The requests: what they send and ask for (pdm_mcu_protocol_get_version, *)
(* _get_status, _reset, _command).                                         *)
Asks ==
  {[tx |-> IndexLen, rx |-> QueryLen, query |-> TRUE],
   [tx |-> IndexLen, rx |-> 0, query |-> FALSE]}
  \cup [tx : 0..MaxTransfer, rx : 0..MaxTransfer, query : {FALSE}]

Request(i, ask) ==
  /\ stage[i] = "open"
  /\ number[i] < MaxRequests
  /\ Goto(i, "idle", IF Fits(ask.tx, ask.rx) THEN "send" ELSE "refused")
  /\ number' = [number EXCEPT ![i] = @ + 1]
  /\ want' = [want EXCEPT ![i] = ask.rx]
  /\ query' = [query EXCEPT ![i] = ask.query]
  /\ got' = [got EXCEPT ![i] = <<>>]
  /\ UNCHANGED <<stage, refs, queue, due, clean, strangers>>

(* pdm_mcu_can_send_frame; the other sockets of the interface hear it too. *)
Send(i) ==
  /\ Goto(i, "send", IF want[i] = 0 THEN "done" ELSE "receive")
  /\ \E len \in 0..MaxDlen : Broadcast([to |-> Nobody, len |-> len], Instances \ {i})
  /\ due' = [due EXCEPT ![i] = IF want[i] = 0 THEN @ ELSE @ \cup {number[i]}]
  /\ Disturb(Instances \ {i})
  /\ UNCHANGED <<stage, refs, xferVars, strangers>>

SendFails(i) ==
  /\ Goto(i, "send", "failed")
  /\ UNCHANGED <<stage, refs, xferVars, queue, due, clean, strangers>>

(* pdm_mcu_can_recv_frame takes the next frame, whatever its id; one that   *)
(* is longer than what was asked for is lost.                              *)
Receive(i) ==
  /\ queue[i] # <<>>
  /\ Goto(i, "receive", IF Head(queue[i]).len <= want[i] THEN "done" ELSE "failed")
  /\ got' = [got EXCEPT ![i] = IF Head(queue[i]).len <= want[i]
                               THEN Head(queue[i]) ELSE <<>>]
  /\ queue' = [queue EXCEPT ![i] = Tail(@)]
  /\ UNCHANGED <<stage, refs, number, want, query, due, clean, strangers>>

(* sk_rcvtimeo is over, or a signal ends the wait.                         *)
Timeout(i) ==
  /\ queue[i] = <<>>
  /\ Goto(i, "receive", "failed")
  /\ UNCHANGED <<stage, refs, xferVars, queue, due, clean, strangers>>

(* The ioctl returns and releases the mutex.                               *)
Return(i) ==
  /\ pc[i] \in {"done", "failed", "refused"}
  /\ pc' = [pc EXCEPT ![i] = "idle"]
  /\ clean' = [clean EXCEPT ![i] = @ /\ pc[i] # "failed"]
  /\ UNCHANGED <<stage, refs, xferVars, queue, due, strangers>>
-------------------------------------------------------------------------------
(* An MCU answers a request with one frame, some time, or never; every     *)
(* socket on the interface gets it.                                        *)
Reply(i) ==
  \E n \in due[i], len \in 0..MaxDlen :
    /\ Broadcast([to |-> <<i, n>>, len |-> len], Instances)
    /\ due' = [due EXCEPT ![i] = @ \ {n}]
    /\ Disturb(Instances \ {i})
    /\ UNCHANGED <<stage, refs, pc, xferVars, strangers>>

NoReply(i) ==
  \E n \in due[i] :
    /\ due' = [due EXCEPT ![i] = @ \ {n}]
    /\ UNCHANGED <<stage, refs, pc, xferVars, queue, clean, strangers>>

(* Any other node of the bus sends.                                        *)
Stranger ==
  /\ strangers < Strangers
  /\ strangers' = strangers + 1
  /\ \E len \in 0..MaxDlen : Broadcast([to |-> Nobody, len |-> len], Instances)
  /\ Disturb(Instances)
  /\ UNCHANGED <<stage, refs, pc, xferVars, due>>

Setup(i) == FindNetdev(i) \/ CreateSocket(i) \/ BindSocket(i) \/ SetupFails(i)
Thread(i) == Send(i) \/ SendFails(i) \/ Receive(i) \/ Timeout(i) \/ Return(i)

Next ==
  \/ \E i \in Instances :
       \/ Setup(i) \/ Cleanup(i) \/ Thread(i) \/ Reply(i) \/ NoReply(i)
       \/ \E ask \in Asks : Request(i, ask)
  \/ Stranger

Spec == Init /\ [][Next]_vars

(* A thread inside a request goes on.                                      *)
Fairness == \A i \in Instances : WF_vars(Thread(i))

FairSpec == Spec /\ Fairness
-------------------------------------------------------------------------------
(* Types; and no request for more than a frame gets to the bus.             *)
TypeOK ==
  /\ stage \in [Instances -> {"closed", "netdev", "socket", "open"}]
  /\ refs \in Nat
  /\ pc \in [Instances -> {"idle", "send", "receive", "done", "failed", "refused"}]
  /\ number \in [Instances -> 0..MaxRequests]
  /\ want \in [Instances -> 0..MaxTransfer]
  /\ \A i \in Instances : pc[i] \in {"send", "receive"} => want[i] <= MaxDlen
  /\ query \in [Instances -> BOOLEAN]
  /\ got \in [Instances -> Frames \cup {<<>>}]
  /\ queue \in [Instances -> Seq(Frames)]
  /\ \A i \in Instances : Len(queue[i]) <= QueueSize
  /\ due \in [Instances -> SUBSET (1..MaxRequests)]
  /\ clean \in [Instances -> BOOLEAN]
  /\ strangers \in 0..Strangers

(* The network device is held once by every transport that is, or is being, *)
(* set up, whatever failed before (pdm_mcu_can_setup, _cleanup).            *)
NetdevRefsExact == refs = Cardinality({i \in Instances : stage[i] # "closed"})

(* Alone on a bus on which every answer has come, each request gets its own *)
(* answer, also after the transport was set up again: nothing of an earlier *)
(* socket is left (pdm_mcu_can_cmd_xfer, pdm_mcu_can_cleanup).              *)
CleanBusAnswers ==
  \A i \in Instances :
    clean[i] /\ pc[i] = "done" /\ want[i] > 0 => got[i].to = <<i, number[i]>>

(* A request ends, also when nobody answers it.                            *)
RequestEnds == \A i \in Instances : pc[i] = "send" ~> pc[i] = "idle"

(* docs: the transfer sends the frame, then receives the response frame.   *)
(* The frame may be anybody's.                                             *)
ReceivesResponse ==
  \A i \in Instances :
    pc[i] = "done" /\ want[i] > 0 => got[i].to = <<i, number[i]>>

(* docs: an MCU speaks the one protocol over UART, I2C, SPI and CAN.  Over  *)
(* CAN the protocol refuses to ask for a version or a status.              *)
QueryIsAsked == \A i \in Instances : query[i] => pc[i] # "refused"
===============================================================================
