----------------------------- MODULE MCPdmManager -----------------------------
(* Small instances of PdmManager: the queries readers issue directly.      *)
EXTENDS PdmManager

CONSTANTS d1, d2

MCTypeOf == [d \in Devices |-> IF d = d1 THEN "LED" ELSE "MCU"]

MCRequests == {NoId}

MCErrors == {-5}

MCQueries ==
  {[kind |-> "info"], [kind |-> "name", name |-> d2],
   [kind |-> "device", index |-> 1, need |-> {}],
   [kind |-> "device", index |-> 0, need |-> {"backend"}]}

===============================================================================
