------------------------------- MODULE MCPdmBus -------------------------------
(* Small instances of PdmBus: which devices there are and of which type.   *)
EXTENDS PdmBus, TLC

CONSTANTS d1, d2, d3

(* Three devices of one type compete for two numbers. *)
MCSameType == [d \in Devices |-> "MCU"]

(* Enumerators ask for the second number or for any; the first goes to      *)
(* whoever asks for any.                                                    *)
MCRequests == {NoId, 1}

MCErrors == {-5}

Symmetry == Permutations(Devices)

===============================================================================
