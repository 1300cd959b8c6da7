------------------------------ MODULE MCDrivers ------------------------------
(***************************************************************************)
(* Small instances of what pdm.ko is made of beside its bus: the instances of  *)
(* its drivers and their nodes, and the parts of PdmDrivers.  Each has its own  *)
(* state, so a behaviour is one of one of them: the part.                     *)
(***************************************************************************)
EXTENDS PdmInstance, PdmDrivers

VARIABLE part

driverVars == <<uartVars, canVars, ledVars, busVars>>
coreVars == <<allVars, loadVars, matchVars>>
toolVars == <<textVars, errorVars>>
pdmVars == <<part, driverVars, coreVars, toolVars>>

(* A device on I2C, one on SPI.                                              *)
MCClientType == [c \in Clients |-> IF c = "a" THEN "i2c" ELSE "spi"]

(* The backends and the drivers in link order, and a device for each way in      *)
(* which one gets on the bus.                                                *)
MCBackends == <<"mcu_uart", "mcu_can", "mcu_i2c">>
MCDriverEntries == <<"mcu", "led">>
MCEnumerator == [d \in BusDevices |->
  CASE d = "can" -> "of" [] d = "uart" -> "mcu_uart" [] d = "i2c" -> "mcu_i2c"
    [] OTHER -> "mock"]
MCDriverOf == [d \in BusDevices |-> IF d = "mock_led" THEN "led" ELSE "mcu"]

(* Four children of the PDM bus node, one of them of no driver, and a device   *)
(* on a UART and on an I2C bus each; "i" is one that says it is on SPI.        *)
MCChildren == <<"a", "b", "c", "d">>
MCBus == [n \in Nodes |-> CASE n = "u" -> "uart" [] n = "i" -> "i2c" [] OTHER -> "of"]
MCCompatible == [n \in Nodes |->
  CASE n = "a" -> "led" [] n = "c" -> "led-pwm" [] n = "d" -> "mcu-can"
    [] n = "i" -> "mcu-spi" [] OTHER -> "none"]
MCName == [n \in Nodes |-> IF n \in {"a", "c"} THEN "led" ELSE "mcu"]
MCPdmId == [n \in Nodes |-> CASE n = "c" -> 0 [] n = "u" -> Half + 1 [] OTHER -> -1]
MCSecond == [n \in Nodes |->
  CASE n = "d" -> 1 [] n = "a" -> Half [] n = "u" -> 0 [] OTHER -> -1]

(* The words of a command: digits, the last of them none of a number.         *)
MCNumbers == {<<0>>, <<1, 2>>, <<1, 10>>, <<3, 0, 0>>, <<16>>}
MCErrors == {-1, -2}

ASSUME MCAssumption == InstanceAssumption /\ ReaderAssumption

PdmInit ==
  /\ part \in {"uart", "alone", "shared", "led", "node", "load", "bus",
               "tree", "command", "list", "history"}
  /\ UartInit /\ Can!Init /\ Serial!Init
  /\ Led!Init /\ (part # "led" => backend = "gpio")
  /\ DiagInit /\ Load!Init /\ Tree!Init
  /\ Text!Init /\ History!Init

(* One MCU that sends several requests, and nobody else on the bus; or two on     *)
(* one interface that send one each, and another node, of few lengths.          *)
OneAlone == canStage["i2"] = "closed" /\ strangers = 0
OneEach ==
  \A i \in CanMcus :
    /\ number[i] <= 1 /\ canWant[i] # 2
    /\ Len(queue[i]) <= 1 /\ \A n \in DOMAIN queue[i] : queue[i][n].len # 1

DriverNext ==
  \/ part = "uart" /\ UartNext /\ UNCHANGED <<canVars, ledVars, busVars>>
  \/ part = "alone" /\ Can!Next /\ OneAlone' /\ UNCHANGED <<uartVars, ledVars, busVars>>
  \/ part = "shared" /\ Can!Next /\ OneEach' /\ UNCHANGED <<uartVars, ledVars, busVars>>
  \/ part = "led" /\ Led!Next /\ UNCHANGED <<uartVars, canVars, busVars>>
  \/ part = "bus" /\ Serial!Next /\ UNCHANGED <<uartVars, canVars, ledVars>>

CoreNext ==
  \/ part = "node" /\ DiagNext /\ UNCHANGED <<loadVars, matchVars>>
  \/ part = "load" /\ Load!Next /\ UNCHANGED <<allVars, matchVars>>
  \/ part = "tree" /\ Tree!Next /\ UNCHANGED <<allVars, loadVars>>

ToolNext ==
  \/ part = "command" /\ Text!LineNext /\ UNCHANGED errorVars
  \/ part = "list" /\ Text!ListNext /\ UNCHANGED errorVars
  \/ part = "history" /\ History!Next /\ UNCHANGED textVars

PdmNext ==
  /\ UNCHANGED part
  /\ \/ DriverNext /\ UNCHANGED <<coreVars, toolVars>>
     \/ CoreNext /\ UNCHANGED <<driverVars, toolVars>>
     \/ ToolNext /\ UNCHANGED <<driverVars, coreVars>>

(* Of the fair actions none is enabled in the initial state of its part, so     *)
(* they say nothing of the other parts.                                      *)
PdmSpec ==
  /\ PdmInit /\ [][PdmNext]_pdmVars
  /\ UartFairness /\ Can!Fairness /\ DiagFairness
-----------------------------------------------------------------------------
(* A transfer ends, whatever the MCU and the line do, and even if nobody      *)
(* answers (pdm_mcu_uart_read_bus, pdm_mcu_can_recv_frame); so does the        *)
(* removal of a device, however many processes keep using its node            *)
(* (pdm_driver_shutdown).  One on I2C or SPI has then been heard as the command *)
(* that was asked, in as many bytes as its device has for one                 *)
(* (pdm_mcu_i2c_encode_prefix, and that of SPI).                             *)
TransfersComplete ==
  /\ XferEnds /\ Can!RequestEnds /\ RemoveEnds
  /\ []Serial!CommandsAreHeard
=============================================================================
