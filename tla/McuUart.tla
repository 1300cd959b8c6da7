-------------------------------- MODULE McuUart --------------------------------
(***************************************************************************)
(* The UART transport of an MCU (kernel/pdm/drivers/mcu/pdm_mcu_uart.c,    *)
(* pdm_mcu_uart_serdev.c): the thread that transfers, one at a time under  *)
(* the mutex of the instance, the serdev callback that puts received bytes *)
(* into the rx fifo, and the MCU at the other end of the line, which       *)
(* answers a command with as many bytes as it asks for, any time later, or *)
(* not at all.  A byte is known by the transfer it answers, its position   *)
(* and the length of the answer; what it says is left out.                 *)
(***************************************************************************)
EXTENDS Integers, Sequences

CONSTANTS
  FifoSize,   (* PDM_MCU_UART_RX_FIFO_SIZE                                 *)
  MaxLen,     (* PDM_MCU_MAX_TRANSFER_SIZE                                 *)
  MaxXfers    (* bound on the transfers                                    *)

UartAssumption ==
  FifoSize \in Nat \ {0} /\ MaxLen \in Nat \ {0} /\ MaxXfers \in Nat

ASSUME UartConstants == UartAssumption

VARIABLES
  stage,     (* of the transport: closed, open, detached                   *)
  pc,        (* where the transferring thread is                           *)
  cur,       (* the number of its transfer                                 *)
  want,      (* xfer->rx_len                                               *)
  got,       (* the bytes read so far                                      *)
  expired,   (* the deadline of the read has passed                        *)
  fifo,      (* transport.uart.rx_fifo                                     *)
  wire,      (* bytes received by the tty, not taken by the callback yet   *)
  receiving, (* the callback: no, looked at bus_dev->inst once, copying;   *)
             (* lost: it goes on with a null pointer                       *)
  due,       (* answers the MCU has not sent yet                           *)
  clean      (* history: no transfer since the line was silent has failed  *)
             (* or come short                                              *)

lineVars == <<fifo, wire, receiving, due>>
readVars == <<cur, want, got, expired>>
uartVars == <<stage, pc, cur, want, got, expired, fifo, wire, receiving, due, clean>>

UartInit ==
  /\ stage = "closed"
  /\ pc = "idle"
  /\ cur = 0 /\ want = 0 /\ got = <<>>
  /\ expired = FALSE
  /\ fifo = <<>> /\ wire = <<>> /\ receiving = "no" /\ due = <<>>
  /\ clean = TRUE

Go(from, to) == pc = from /\ pc' = to

Response(xfer, len) == [k \in 1..len |-> <<xfer, k, len>>]

Lesser(a, b) == IF a < b THEN a ELSE b

Drop(s, n) == SubSeq(s, n + 1, Len(s))
-------------------------------------------------------------------------------
(* A slip: the fifo of the last instance is used again. *)
SetupKeepsFifo ==
  /\ stage = "closed"
  /\ stage' = "open"
  /\ clean' = (due = <<>>)
  /\ UNCHANGED <<pc, readVars, lineVars>>

(* pdm_mcu_uart_setup_bus *)
Setup ==
  /\ stage = "closed"
  /\ stage' = "open"
  /\ fifo' = <<>>
  /\ clean' = (due = <<>>)
  /\ UNCHANGED <<pc, readVars, wire, receiving, due>>

(* pdm_mcu_uart_cleanup_bus, with the mutex: first bus_dev->inst = NULL.   *)
Detach ==
  /\ stage = "open"
  /\ pc = "idle"
  /\ stage' = "detached"
  /\ UNCHANGED <<pc, readVars, lineVars, clean>>

(* A slip: the port stays open. *)
CleanupNoClose ==
  /\ stage = "detached"
  /\ stage' = "closed"
  /\ wire' = <<>>
  /\ UNCHANGED <<pc, readVars, fifo, receiving, due, clean>>

(* serdev_device_close waits for the callback and throws away what the tty *)
(* has; then the instance may be freed.                                    *)
Cleanup ==
  /\ stage = "detached"
  /\ receiving = "no"
  /\ stage' = "closed"
  /\ wire' = <<>>
  /\ UNCHANGED <<pc, readVars, fifo, receiving, due, clean>>

(* pdm_mcu_uart_xfer *)
Xfer(len) ==
  /\ stage = "open"
  /\ cur < MaxXfers
  /\ Go("idle", "write")
  /\ cur' = cur + 1
  /\ want' = len
  /\ got' = <<>>
  /\ expired' = FALSE
  /\ UNCHANGED <<stage, lineVars, clean>>

(* pdm_mcu_uart_write_exact writes all of the command. *)
Write ==
  /\ Go("write", IF want = 0 THEN "done" ELSE "copy")
  /\ due' = IF want = 0 THEN due ELSE Append(due, Response(cur, want))
  /\ UNCHANGED <<stage, readVars, fifo, wire, receiving, clean>>

(* It gives up: the line is busy or broken. *)
WriteFails ==
  /\ Go("write", "failed")
  /\ UNCHANGED <<stage, readVars, lineVars, clean>>

(* pdm_mcu_uart_read_bus takes what the fifo has ... *)
Copy ==
  LET n == Lesser(want - Len(got), Len(fifo)) IN
    /\ pc = "copy"
    /\ n > 0
    /\ got' = got \o SubSeq(fifo, 1, n)
    /\ fifo' = Drop(fifo, n)
    /\ pc' = IF Len(got) + n = want THEN "done" ELSE "copy"
    /\ UNCHANGED <<stage, cur, want, expired, wire, receiving, due, clean>>

(* ... gives up when the time is over and it has nothing to take ...       *)
Ended == IF got = <<>> THEN "failed" ELSE "done"

CopyNothing ==
  /\ pc = "copy"
  /\ fifo = <<>>
  /\ pc' = "check"
  /\ UNCHANGED <<stage, readVars, lineVars, clean>>

Check ==
  /\ Go("check", IF expired THEN Ended ELSE "wait")
  /\ UNCHANGED <<stage, readVars, lineVars, clean>>

(* ... and waits for more otherwise. *)
Wake ==
  /\ Go("wait", "copy")
  /\ fifo # <<>>
  /\ UNCHANGED <<stage, readVars, lineVars, clean>>

(* A slip: the wait starts over with a new deadline. *)
WaitRestarts ==
  /\ Go("wait", "copy")
  /\ expired
  /\ fifo = <<>>
  /\ expired' = FALSE
  /\ UNCHANGED <<stage, cur, want, got, lineVars, clean>>

WaitTimeout ==
  /\ Go("wait", Ended)
  /\ expired
  /\ fifo = <<>>
  /\ UNCHANGED <<stage, readVars, lineVars, clean>>

(* A signal ends the wait; what has been read is lost. *)
Signal ==
  /\ Go("wait", "failed")
  /\ fifo = <<>>
  /\ UNCHANGED <<stage, readVars, lineVars, clean>>

(* Time passes. *)
Expire ==
  /\ pc \in {"copy", "check", "wait"}
  /\ ~expired
  /\ expired' = TRUE
  /\ UNCHANGED <<stage, pc, cur, want, got, lineVars, clean>>

(* The ioctl returns and releases the mutex. *)
Return ==
  /\ pc \in {"done", "failed"}
  /\ pc' = "idle"
  /\ clean' = (clean /\ pc = "done" /\ Len(got) = want)
  /\ got' = <<>>
  /\ UNCHANGED <<stage, cur, want, expired, lineVars>>
-------------------------------------------------------------------------------
(* The MCU sends an answer, to a port that may be closed by now. *)
Reply ==
  /\ due # <<>>
  /\ due' = Tail(due)
  /\ wire' = IF stage = "closed" THEN wire ELSE wire \o Head(due)
  /\ UNCHANGED <<stage, pc, readVars, fifo, receiving, clean>>

(* The MCU has missed the command or does not answer it. *)
NoReply ==
  /\ due # <<>>
  /\ due' = Tail(due)
  /\ UNCHANGED <<stage, pc, readVars, fifo, wire, receiving, clean>>

(* pdm_mcu_serdev_receive_buf looks at bus_dev->inst ... *)
Receive ==
  /\ stage = "open"
  /\ receiving = "no"
  /\ wire # <<>>
  /\ receiving' = "looked"
  /\ UNCHANGED <<stage, pc, readVars, fifo, wire, due, clean>>

(* ... and reads it again, without a lock.  If it has been reset meanwhile *)
(* the callback has the instance only if the compiler kept the first value.*)
Take ==
  /\ receiving = "looked"
  /\ receiving' \in IF stage = "open" THEN {"copying"} ELSE {"copying", "lost"}
  /\ UNCHANGED <<stage, pc, readVars, fifo, wire, due, clean>>

(* A slip: the callback says it took everything. *)
ReceiveAll(count) ==
  /\ receiving = "copying"
  /\ receiving' = "no"
  /\ fifo' = fifo \o SubSeq(wire, 1, Lesser(count, FifoSize - Len(fifo)))
  /\ wire' = Drop(wire, count)
  /\ UNCHANGED <<stage, pc, readVars, due, clean>>

(* kfifo_in takes what fits; the tty keeps the rest. *)
ReceiveCopy(count) ==
  LET copied == Lesser(count, FifoSize - Len(fifo)) IN
    /\ receiving = "copying"
    /\ receiving' = "no"
    /\ fifo' = fifo \o SubSeq(wire, 1, copied)
    /\ wire' = Drop(wire, copied)
    /\ UNCHANGED <<stage, pc, readVars, due, clean>>

Thread ==
  \/ \E len \in 0..MaxLen : Xfer(len)
  \/ Write \/ WriteFails \/ Copy \/ CopyNothing \/ Check
  \/ Wake \/ WaitTimeout \/ Signal \/ Return

Line ==
  \/ Reply \/ NoReply \/ Receive \/ Take
  \/ \E count \in 1..Len(wire) : ReceiveCopy(count)

UartNext == Setup \/ Detach \/ Cleanup \/ Thread \/ Expire \/ Line

UartSpec == UartInit /\ [][UartNext]_uartVars

(* The thread runs when it can, and time passes. *)
UartFairness ==
  /\ WF_uartVars(pc # "idle" /\ Thread)
  /\ WF_uartVars(Expire)

FairUartSpec == UartSpec /\ UartFairness
-------------------------------------------------------------------------------
Bytes == (1..MaxXfers) \X (1..MaxLen) \X (1..MaxLen)

(* Types of the state; the fifo never holds more than it has room for.     *)
UartTypeOK ==
  /\ stage \in {"closed", "open", "detached"}
  /\ pc \in {"idle", "write", "copy", "check", "wait", "done", "failed"}
  /\ cur \in 0..MaxXfers /\ want \in 0..MaxLen
  /\ receiving \in {"no", "looked", "copying", "lost"}
  /\ expired \in BOOLEAN /\ clean \in BOOLEAN
  /\ got \in Seq(Bytes) /\ Len(got) <= want
  /\ fifo \in Seq(Bytes) /\ Len(fifo) <= FifoSize
  /\ wire \in Seq(Bytes) /\ due \in Seq(Seq(Bytes))

(* b is what the MCU may send right after a.                               *)
Follows(a, b) ==
  \/ b = <<a[1], a[2] + 1, a[3]>>
  \/ a[2] = a[3] /\ b[1] > a[1] /\ b[2] = 1

Unbroken(s) == \A k \in 1..Len(s) - 1 : Follows(s[k], s[k + 1])

(* What has come and is not with the user yet, oldest first.               *)
Stream == got \o fifo \o wire

(* From the tty to the reader's buffer no byte is lost, doubled or moved,  *)
(* not even when late answers fill the fifo and the callback can take only *)
(* part of what it is offered (pdm_mcu_serdev_receive_buf); and the        *)
(* callback never copies into an instance whose cleanup is over, since     *)
(* pdm_mcu_uart_cleanup_bus closes the port first.                         *)
StreamUnbroken ==
  /\ Unbroken(Stream)
  /\ receiving # "no" => stage # "closed"

(* As long as every answer has come whole and in time, each transfer reads *)
(* its own; and opening the port again makes up for what went wrong before *)
(* unless an answer is still under way (pdm_mcu_uart_cmd_xfer, _setup_bus).*)
CleanLineAnswers ==
  clean /\ pc = "done" => got = SubSeq(Response(cur, want), 1, Len(got))

(* A transfer ends, whatever the MCU does.                                 *)
XferEnds == pc = "write" ~> pc = "idle"

(* docs: the thread writes the command, then blocks waiting for the        *)
(* response.  Then what a transfer returns answers its own command.  It    *)
(* may be the late answer to an earlier one: nothing empties the fifo.     *)
AnswersOwnCommand ==
  pc = "done" => \A k \in 1..Len(got) : got[k][1] = cur

(* pdm_mcu_serdev_receive_buf returns early without an instance.  Then it  *)
(* never copies without one; but cleanup may reset bus_dev->inst between   *)
(* the check and the use.                                                  *)
CallbackHasInstance == receiving # "lost"
===============================================================================
