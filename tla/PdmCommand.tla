------------------------------- MODULE PdmCommand -------------------------------
(***************************************************************************)
(* The diagnostic files of the drivers (kernel/pdm/diag/pdm_proc.c,           *)
(* pdm_debugfs.c, drivers/led/pdm_led_diag.c, drivers/mcu/pdm_mcu_diag.c): a   *)
(* command line that is written, and what becomes of it; the list of the LEDs  *)
(* that /proc/pdm/led shows, while LEDs come and go.  A line is a sequence of  *)
(* words with one space before each; a word is its digits, or a verb.  What a  *)
(* request does to an LED is in PdmLed, to an MCU in McuBus and its siblings.   *)
(***************************************************************************)
EXTENDS Integers, Sequences

Seqs == INSTANCE SequencesExt

CONSTANTS
  Leds,       (* the LEDs                                                     *)
  Mcus,       (* how many MCUs are bound                                      *)
  Verbs,      (* the first words of the lines                                *)
  Numbers,    (* the other words: sequences of digits, 10..15 hex, 16: none   *)
  MaxWords,   (* bound on the words of a line                                *)
  MaxBytes,   (* sizeof(tx_data) in pdm_mcu_debugfs_write                    *)
  WriteMax,   (* PDM_PROC_WRITE_MAX_SIZE, in words                           *)
  MaxMoves    (* bound on the LEDs that come and go                          *)

(* What the constants are; assumed by the module that instantiates this one. *)
CommandAssumption ==
  /\ Mcus \in Nat /\ MaxWords \in Nat /\ MaxBytes \in Nat /\ WriteMax \in Nat
  /\ MaxMoves \in Nat
  /\ Numbers \subseteq Seq(0..16)

VARIABLES
  line,     (* history: the last line written to the file of the MCUs        *)
  request,  (* what it made the protocol layer ask for, and how it ended     *)
  ledAt,    (* where the thread that binds or unbinds an LED is              *)
  list,     (* the driver core's list of the LEDs bound to the driver         *)
  count,    (* pdm_led_device_count                                         *)
  moves,    (* how often an LED was bound or unbound                         *)
  row,      (* the row that a reader of /proc/pdm/led writes; 0: nobody reads *)
  limit,    (* the count it has read                                        *)
  rows,     (* the rows written: an LED, or "gone"                           *)
  calm      (* history: since it read the count no LED was being bound or      *)
            (* unbound                                                     *)

lineVars == <<line, request>>
listVars == <<ledAt, list, count, moves>>
readVars == <<row, limit, rows, calm>>
vars == <<lineVars, listVars, readVars>>

Nothing == [verb |-> "none", index |-> 0, command |-> 0, data |-> <<>>]

Init ==
  /\ line = [verb |-> "none", words |-> <<>>]
  /\ request = Nothing
  /\ ledAt = [led \in Leds |-> "out"] /\ list = <<>> /\ count = 0 /\ moves = 0
  /\ row = 0 /\ limit = 0 /\ rows = <<>> /\ calm = TRUE

-------------------------------------------------------------------------------
(* sscanf reads a number: its digits up to the first that is none.            *)
Digits(word, base) ==
  Seqs!SelectInSeq(word, LAMBDA digit : digit >= base)

Scan(word, base) ==
  LET end == Digits(word, base) IN
    Seqs!FoldLeft(LAMBDA acc, digit : acc * base + digit, 0,
                  IF end = 0 THEN word ELSE SubSeq(word, 1, end - 1))

CanScan(word, base) == Digits(word, base) # 1

(* A slip: the last byte that fits is taken twice. *)
DataReversed(words) ==
  LET taken == SubSeq(Tail(words), 1, IF Len(words) - 1 < MaxBytes
                                      THEN Len(words) - 1 ELSE MaxBytes)
  IN [k \in DOMAIN taken |-> Scan(taken[Len(taken) + 1 - k], 16) % 256]

(* The data of a debugfs command.  p is the space before the word of the        *)
(* command id, and stays there: strchr finds the space it starts at.  So the    *)
(* bytes begin with the id, read again as a hexadecimal number.                *)
Data(words) ==
  LET end == Seqs!SelectInSeq(words, LAMBDA word : ~CanScan(word, 16))
      bytes == IF end = 0 THEN Len(words) - 1 ELSE end - 2
      taken == SubSeq(words, 2, 1 + IF bytes < MaxBytes THEN bytes ELSE MaxBytes)
  IN [k \in DOMAIN taken |-> Scan(taken[k], 16) % 256]

Ask(verb, words, data) ==
  [verb |-> verb, index |-> Scan(words[1], 10), data |-> data,
   command |-> IF verb = "command" THEN Scan(words[2], 10) ELSE 0]

(* pdm_mcu_debugfs_write: "reset <index>", "command <index> <id> [bytes]".     *)
Debugfs(verb, words) ==
  CASE verb = "reset" -> Ask(verb, words, <<>>)
    [] verb = "command" /\ Len(words) > 1 /\ CanScan(words[2], 10) ->
         Ask(verb, words, Data(words))
    [] OTHER -> Nothing

(* pdm_mcu_proc_write: "version", "status" or "reset", and an index.          *)
Proc(verb, words) ==
  IF verb \in {"version", "status", "reset"} THEN Ask(verb, words, <<>>)
  ELSE Nothing

(* pdm_proc_write, pdm_debugfs_write: a line that is empty or too long, or one  *)
(* without an index or with that of no MCU, asks for nothing.  Nothing is kept   *)
(* from one line to the next, so a behaviour has one line: that is a bound.     *)
Write(file, verb, words) ==
  /\ line.verb = "none"
  /\ line' = [verb |-> verb, words |-> words]
  /\ request' =
       IF \/ words = <<>> \/ Len(words) + 1 > WriteMax
          \/ ~CanScan(words[1], 10) \/ Scan(words[1], 10) >= Mcus
       THEN Nothing
       ELSE IF file = "proc" THEN Proc(verb, words) ELSE Debugfs(verb, words)
  /\ UNCHANGED <<listVars, readVars>>
-------------------------------------------------------------------------------
(* A step in the life of an LED, which a reader may see half done.            *)
Move(led, from, to) ==
  /\ ledAt[led] = from
  /\ ledAt' = [ledAt EXCEPT ![led] = to]
  /\ calm' = FALSE
  /\ UNCHANGED <<lineVars, row, limit, rows>>

(* The end of pdm_led_probe counts the LED ...                               *)
Probe(led) ==
  /\ moves < MaxMoves
  /\ moves' = moves + 1
  /\ Move(led, "out", "counted")
  /\ count' = count + 1
  /\ UNCHANGED list

(* ... and then the driver core puts it on its list.                         *)
Bound(led) ==
  /\ Move(led, "counted", "listed")
  /\ list' = Append(list, led)
  /\ UNCHANGED <<count, moves>>

(* pdm_led_remove: the count goes down, ...                                  *)
Remove(led) ==
  /\ moves < MaxMoves
  /\ moves' = moves + 1
  /\ Move(led, "listed", "leaving")
  /\ count' = IF count > 0 THEN count - 1 ELSE 0
  /\ UNCHANGED list

(* ... the device loses its instance ...                                    *)
RemoveData(led) ==
  /\ Move(led, "leaving", "cleared")
  /\ UNCHANGED <<list, count, moves>>

(* ... and after remove the driver core takes it off its list.               *)
Unbound(led) ==
  /\ Move(led, "cleared", "out")
  /\ \E k \in DOMAIN list : list[k] = led /\ list' = Seqs!RemoveAt(list, k)
  /\ UNCHANGED <<count, moves>>

(* No LED is between two steps.                                             *)
Settled == \A led \in Leds : ledAt[led] \in {"out", "listed"}

(* pdm_led_proc_show reads the count ...                                     *)
Show ==
  /\ row = 0
  /\ row' = 1
  /\ limit' = count
  /\ rows' = <<>>
  /\ calm' = Settled
  /\ UNCHANGED <<lineVars, listVars>>

(* A slip: rows and places are numbered alike. *)
FindFromZero(k) == IF k - 1 \in DOMAIN list THEN list[k - 1] ELSE "gone"

(* pdm_led_find_instance: the LED whose place in the list is the row, unless   *)
(* its device has lost the instance.  What a claim of one on its way out finds  *)
(* is in PdmInstance.                                                       *)
Find(k) ==
  IF k \in DOMAIN list /\ ledAt[list[k]] # "cleared" THEN list[k] ELSE "gone"

(* ... and writes a row for each number below it.                            *)
ShowRow ==
  /\ row \in 1..limit
  /\ rows' = Append(rows, Find(row))
  /\ row' = row + 1
  /\ UNCHANGED <<lineVars, listVars, limit, calm>>

ShowEnds ==
  /\ row > limit
  /\ row' = 0
  /\ UNCHANGED <<lineVars, listVars, limit, rows, calm>>

Lines == Seqs!BoundedSeq(Numbers, MaxWords)

(* Words for small instances.                                               *)
OneDigit == {<<digit>> : digit \in 0..16}

LineNext ==
  \E file \in {"proc", "debugfs"}, verb \in Verbs, words \in Lines :
    Write(file, verb, words)

ListNext ==
  \/ \E led \in Leds :
       Probe(led) \/ Bound(led) \/ Remove(led) \/ RemoveData(led) \/ Unbound(led)
  \/ Show \/ ShowRow \/ ShowEnds

Next == LineNext \/ ListNext

Spec == Init /\ [][Next]_vars
-------------------------------------------------------------------------------
(* Types of the state. *)
TypeOK ==
  /\ request.index \in Nat /\ request.command \in Nat
  /\ request.data \in Seq(0..255)
  /\ ledAt \in [Leds -> {"out", "counted", "listed", "leaving", "cleared"}]
  /\ list \in Seq(Leds) /\ count \in Nat /\ moves \in 0..MaxMoves
  /\ row \in 0..limit + 1 /\ rows \in Seq(Leds \cup {"gone"}) /\ calm \in BOOLEAN

(* The bytes written after the id reach the MCU in their order and without a   *)
(* gap, as far as the buffer has room and up to the first word that is no       *)
(* number, and the id is the one written (pdm_mcu_debugfs_write); nothing but a  *)
(* command has data.  Whether a byte goes before them is left open here: that   *)
(* is what DataIsWritten is about.                                           *)
BytesKeepOrder ==
  /\ Len(request.data) <= MaxBytes
  /\ request.verb # "command" => request.data = <<>>
  /\ request.verb = "command" =>
       /\ request.command = Scan(line.words[2], 10)
       /\ \E before \in {0, 1} :
            LET written == Len(request.data) - before IN
              /\ written \in 0..Len(line.words) - 2
              /\ \A k \in 1..written :
                   /\ CanScan(line.words[k + 2], 16)
                   /\ request.data[k + before] = Scan(line.words[k + 2], 16) % 256
              /\ \/ Len(request.data) = MaxBytes
                 \/ written + 2 = Len(line.words)
                 \/ ~CanScan(line.words[written + 3], 16)

(* A list of the LEDs during which none came or went, nor was about to, has      *)
(* each of them once (pdm_led_proc_show): the count that is read and the list   *)
(* that is walked are two things, and neither is locked.                      *)
CalmListIsExact ==
  row > limit /\ calm => rows = list

(* pdm_mcu_diag.c: "Parse: "command <index> <cmd_id> [hex bytes...]"".  Then   *)
(* the data are the bytes written after the id, at most.  The id is sent as     *)
(* the first byte as well.                                                  *)
DataIsWritten ==
  request.verb = "command" =>
    Len(request.data) <= Len(line.words) - 2
=================================================================================
