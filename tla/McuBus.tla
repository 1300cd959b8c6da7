--------------------------------- MODULE McuBus ---------------------------------
(***************************************************************************)
(* The I2C and the SPI transport of an MCU (kernel/pdm/drivers/mcu/          *)
(* pdm_mcu_i2c.c, pdm_mcu_spi.c): the bus driver that makes a PDM device for *)
(* a client, the driver of the PDM bus that sets the transport up, and a      *)
(* request, from the protocol layer to the wire.  The mutex of the instance   *)
(* makes a request one step (PdmInstance).  A bus either carries a request,    *)
(* or fails; an I2C adapter may also stop between the command and the answer. *)
(***************************************************************************)
EXTENDS Integers, Sequences

Seqs == INSTANCE SequencesExt

CONSTANTS
  Clients,     (* i2c_client, spi_device                                     *)
  Type,        (* [Clients -> {"i2c", "spi"}]                                *)
  Instances,   (* pdm_mcu_instance                                          *)
  Base,        (* the values of a byte                                      *)
  Prefixes,    (* what "command-bytes" may be in the device tree            *)
  MaxPrefix,   (* PDM_MCU_MAX_PREFIX_BYTES                                  *)
  MaxTransfer, (* PDM_MCU_MAX_TRANSFER_SIZE                                 *)
  MaxCommand,  (* bound on the commands that are asked                      *)
  None

(* What the constants are; assumed by the module that instantiates this one. *)
BusAssumption ==
  /\ Type \in [Clients -> {"i2c", "spi"}]
  /\ Base \in Nat \ {0, 1}
  /\ Prefixes \subseteq Nat /\ MaxPrefix \in Nat /\ MaxTransfer \in Nat
  /\ MaxCommand \in Nat
  /\ None \notin Instances /\ None # "ok"

VARIABLES
  device,   (* bus_dev->pdm_dev is there                                    *)
  back,     (* bus_dev->inst                                                *)
  bound,    (* history: the instance that the driver has set up, or None    *)
  client,   (* inst->transport.i2c.client, inst->transport.spi.spi          *)
  prefix,   (* inst->transport.*.command_bytes                              *)
  heard,    (* the bytes that the MCU has heard of the last request         *)
  said      (* history: the last request and what it returned               *)

linkVars == <<device, back, bound, client, prefix>>
vars == <<linkVars, heard, said>>

Nobody == [command |-> 0, tx |-> <<>>, rx |-> 0, bytes |-> 0, ret |-> None, got |-> 0]

Init ==
  /\ device = [c \in Clients |-> FALSE]
  /\ back = [c \in Clients |-> None]
  /\ bound = [c \in Clients |-> None]
  /\ client = [i \in Instances |-> None]
  /\ prefix = [i \in Instances |-> 0]
  /\ heard = <<>>
  /\ said = Nobody

(* pdm_mcu_i2c_encode_prefix: the low bytes of the command, highest first.   *)
Encode(command, bytes) ==
  [k \in 1..bytes |-> (command \div Base ^ (bytes - k)) % Base]

Lesser(a, b) == IF a < b THEN a ELSE b

Free(i) == \A c \in Clients : bound[c] # i
-------------------------------------------------------------------------------
(* pdm_mcu_i2c_probe, _spi_probe: pdm_mcu_register_bus_device.               *)
Probe(c) ==
  /\ ~device[c]
  /\ device' = [device EXCEPT ![c] = TRUE]
  /\ UNCHANGED <<back, bound, client, prefix, heard, said>>

(* pdm_mcu_i2c_setup: the driver binds an instance to the device.            *)
Setup(c, i, bytes) ==
  /\ device[c]
  /\ bound[c] = None
  /\ Free(i)
  /\ bound' = [bound EXCEPT ![c] = i]
  /\ back' = [back EXCEPT ![c] = i]
  /\ client' = [client EXCEPT ![i] = c]
  /\ prefix' = [prefix EXCEPT ![i] = Lesser(bytes, MaxPrefix)]
  /\ UNCHANGED <<device, heard, said>>

(* A slip: the transport keeps its client. *)
CleanupKeeps(c) ==
  LET i == bound[c] IN
    /\ i # None
    /\ back' = [back EXCEPT ![c] = IF back[c] = i THEN None ELSE back[c]]
    /\ bound' = [bound EXCEPT ![c] = None]
    /\ UNCHANGED <<device, client, prefix, heard, said>>

(* pdm_mcu_i2c_cleanup, when the driver leaves the device.                   *)
Cleanup(c) ==
  LET i == bound[c] IN
    /\ i # None
    /\ back' = [back EXCEPT ![c] = IF back[c] = i THEN None ELSE back[c]]
    /\ client' = [client EXCEPT ![i] = None]
    /\ bound' = [bound EXCEPT ![c] = None]
    /\ UNCHANGED <<device, prefix, heard, said>>

(* pdm_mcu_i2c_remove, _spi_remove: pdm_mcu_unregister_bus_device, under      *)
(* which the driver leaves the device first.                                *)
Remove(c) ==
  /\ device[c]
  /\ bound[c] = None
  /\ device' = [device EXCEPT ![c] = FALSE]
  /\ back' = [back EXCEPT ![c] = None]
  /\ UNCHANGED <<bound, client, prefix, heard, said>>
-------------------------------------------------------------------------------
(* What the bus makes of a message to the MCU and one from it: pdm_mcu_i2c_bus_xfer *)
(* has a message short or refused, pdm_mcu_spi_bus_xfer all or nothing.         *)
I2cOutcomes(rx) == {"ok", "EREMOTEIO"} \cup (IF rx > 0 THEN {"EIO"} ELSE {})
SpiOutcomes == {"ok", "EREMOTEIO"}
Outcomes(c, rx) == IF Type[c] = "i2c" THEN I2cOutcomes(rx) ELSE SpiOutcomes

(* pdm_mcu_spi_cmd_xfer, and that of i2c: what goes out is one buffer.          *)
Sent(command, tx, n) == Encode(command, n) \o tx

(* The checks of pdm_mcu_protocol_command and pdm_mcu_protocol_xfer ...       *)
Refused(tx, rx, need) ==
  \/ tx > MaxTransfer \/ rx > MaxTransfer
  \/ ~need /\ rx > 0

(* A slip: only the data has to fit, so a prefix of no bytes goes out.        *)
UnfitData(tx, rx, n) ==
  rx > MaxTransfer

(* ... and of pdm_mcu_i2c_cmd_xfer, for a device whose commands have n bytes. *)
Unfit(tx, rx, n) ==
  \/ n = 0
  \/ tx + n > MaxTransfer + MaxPrefix
  \/ rx > MaxTransfer

(* PDM_MCU_IOC_COMMAND on the instance of c, and what the bus does with it.    *)
Request(c, command, tx, rx, need) ==
  LET i == bound[c]
      n == prefix[i]
      Return(ret, got) ==
        said' = [command |-> command, tx |-> tx, rx |-> rx, bytes |-> n,
                 ret |-> ret, got |-> got]
  IN
    /\ i # None
    /\ UNCHANGED linkVars
    /\ \/ /\ Refused(Len(tx), rx, need) \/ Unfit(Len(tx), rx, n)
          /\ heard' = <<>>
          /\ Return("refused", 0)
       \/ /\ ~Refused(Len(tx), rx, need) /\ ~Unfit(Len(tx), rx, n)
          /\ \E ret \in Outcomes(client[i], rx) :
               /\ heard' = IF ret = "EREMOTEIO" THEN <<>>
                           ELSE Sent(command, tx, n)
               /\ Return(ret, IF ret = "ok" THEN rx ELSE 0)

Data == {[k \in 1..n |-> v] : n \in 0..MaxTransfer + 1, v \in {Base - 1}}

Next ==
  \E c \in Clients :
    \/ Probe(c) \/ Cleanup(c) \/ Remove(c)
    \/ \E i \in Instances, bytes \in Prefixes : Setup(c, i, bytes)
    \/ \E command \in 0..MaxCommand, tx \in Data, rx \in 0..MaxTransfer + 1,
          need \in BOOLEAN : Request(c, command, tx, rx, need)

Spec == Init /\ [][Next]_vars
-------------------------------------------------------------------------------
(* Types of the state. *)
TypeOK ==
  /\ device \in [Clients -> BOOLEAN]
  /\ back \in [Clients -> Instances \cup {None}]
  /\ bound \in [Clients -> Instances \cup {None}]
  /\ client \in [Instances -> Clients \cup {None}]
  /\ prefix \in [Instances -> 0..MaxPrefix]
  /\ heard \in Seq(0..Base - 1)

(* A request that returns success has been heard whole, as many bytes as the    *)
(* device has for its commands and then the data; and one that is refused has   *)
(* not been heard at all (pdm_mcu_i2c_cmd_xfer).                             *)
RequestsAreWhole ==
  /\ said.ret = "refused" => heard = <<>>
  /\ said.ret = "ok" =>
       /\ said.bytes > 0
       /\ said.got = said.rx
       /\ Len(heard) = said.bytes + Len(said.tx)
       /\ SubSeq(heard, said.bytes + 1, Len(heard)) = said.tx

Value(bytes) == Seqs!FoldLeft(LAMBDA acc, b : acc * Base + b, 0, bytes)

(* The bytes it is heard as say which command it was, if there are enough of    *)
(* them for it (pdm_mcu_i2c_encode_prefix, and that of SPI).                  *)
CommandsAreHeard ==
  said.ret = "ok" /\ said.command < Base ^ said.bytes =>
    Value(SubSeq(heard, 1, said.bytes)) = said.command

(* The device and its instance know each other, however often the driver comes *)
(* and goes: nothing else has the client (pdm_mcu_i2c_setup, _cleanup).       *)
LinksAgree ==
  /\ \A c \in Clients : back[c] = bound[c] /\ (back[c] # None => device[c])
  /\ \A i \in Instances : client[i] = None \/ bound[client[i]] = i

(* uapi/pdm/pdm_mcu.h: a command is a __u32.  Then commands that differ are    *)
(* heard as different.  With the default command-bytes they are cut to one.   *)
CommandsAreTold ==
  said.ret = "ok" => Value(SubSeq(heard, 1, said.bytes)) = said.command
=================================================================================
