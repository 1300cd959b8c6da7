------------------------------ MODULE PdmErrorLog ------------------------------
(***************************************************************************)
(* The error history of a device of the PDM bus (kernel/include/pdm/bus/      *)
(* pdm_device.h): a ring of the last errors, the count of each, and two        *)
(* counters of all.  The driver core records what a bind, a probe or a power   *)
(* callback returns; the ioctls of an MCU write the counters and the state     *)
(* without the ring (pdm_mcu_update_state_locked).  The device lock and the    *)
(* claim of the instance keep the two apart.                                  *)
(***************************************************************************)
EXTENDS Integers, Sequences

CONSTANTS
  Size,     (* PDM_ERROR_HISTORY_SIZE                                        *)
  Errors,   (* the codes: negative numbers                                   *)
  Kinds,    (* enum pdm_error_type                                          *)
  MaxErrors (* bound on the errors                                          *)

(* What the constants are; assumed by the module that instantiates this one. *)
ErrorLogAssumption ==
  Size \in Nat \ {0} /\ Errors \subseteq {e \in Int : e < 0} /\ MaxErrors \in Nat

VARIABLES
  errors,     (* pdm_dev->errors                                            *)
  writeIndex, (* pdm_dev->error_write_index                                 *)
  lastError, errorCount, totalCount, state, (* as in struct pdm_device      *)
  runs        (* history: the errors recorded, equal ones in a row as one     *)

counters == <<lastError, errorCount, totalCount, state>>
vars == <<errors, writeIndex, counters, runs>>

(* kzalloc *)
NoRecord == [code |-> 0, kind |-> "probe", count |-> 0]

Init ==
  /\ errors = [k \in 0..Size - 1 |-> NoRecord]
  /\ writeIndex = 0
  /\ lastError = 0 /\ errorCount = 0 /\ totalCount = 0 /\ state = "REGISTERED"
  /\ runs = <<>>

(* The history: one more of the last, or another.                            *)
Extended(code, kind) ==
  IF runs # <<>> /\ runs[Len(runs)].code = code /\ runs[Len(runs)].kind = kind
  THEN [runs EXCEPT ![Len(runs)].count = @ + 1]
  ELSE Append(runs, [code |-> code, kind |-> kind, count |-> 1])

(* A slip: an equal error anywhere in the ring is counted where it stands. *)
SameAnywhere(code, kind) ==
  \E k \in DOMAIN errors : errors[k].code = code /\ errors[k].kind = kind

Same(code, kind) ==
  errors[writeIndex].code = code /\ errors[writeIndex].kind = kind

(* pdm_device_record_error_type                                              *)
Record(code, kind) ==
  LET next == (writeIndex + 1) % Size IN
    /\ errorCount < MaxErrors
    /\ IF Same(code, kind)
       THEN /\ errors' = [errors EXCEPT ![writeIndex].count = @ + 1]
            /\ writeIndex' = writeIndex
       ELSE /\ errors' = [errors EXCEPT ![next] =
                            [code |-> code, kind |-> kind, count |-> 1]]
            /\ writeIndex' = next
    /\ lastError' = code
    /\ errorCount' = errorCount + 1
    /\ totalCount' = totalCount + 1
    /\ state' = "ERROR"
    /\ runs' = Extended(code, kind)

(* pdm_mcu_update_state_locked, for a request of an instance that is online.   *)
RequestFails(code) ==
  /\ errorCount < MaxErrors
  /\ lastError' = code
  /\ errorCount' = errorCount + 1
  /\ state' = "ERROR"
  /\ UNCHANGED <<errors, writeIndex, totalCount, runs>>

RequestSucceeds ==
  /\ lastError' = 0
  /\ state' = "BOUND"
  /\ UNCHANGED <<errors, writeIndex, errorCount, totalCount, runs>>

Next ==
  \/ \E code \in Errors, kind \in Kinds : Record(code, kind)
  \/ \E code \in Errors : RequestFails(code)
  \/ RequestSucceeds

Spec == Init /\ [][Next]_vars
-------------------------------------------------------------------------------
(* Types of the state. *)
TypeOK ==
  /\ writeIndex \in 0..Size - 1
  /\ \A k \in 0..Size - 1 : errors[k].code \in Errors \cup {0}
  /\ errorCount \in 0..MaxErrors /\ totalCount \in 0..errorCount

(* From the slot of the last error backwards, the ring has the last errors and  *)
(* how often each came in a row, as many as it has slots; and the total is the  *)
(* number of errors recorded (pdm_device_record_error_type).                   *)
RingIsRecent ==
  \A back \in 0..Size - 1 :
    errors[(writeIndex - back + Size) % Size] =
      IF back < Len(runs) THEN runs[Len(runs) - back] ELSE NoRecord

(* pdm_device.h: total_error_count is the "Total errors since device            *)
(* registration".  The failed requests of an MCU are in error_count alone.      *)
TotalCountsAll == totalCount = errorCount
=================================================================================
