------------------------------ MODULE KconfigFile ------------------------------
(***************************************************************************)
(* .config: reading it, changing it and writing it (scripts/kconfig/          *)
(* confdata.c).  A program reads the file, lets the user set values, and       *)
(* writes it, asking whether to only if something changed; it may be killed at *)
(* any moment, also between the renames of conf_write, and started again.     *)
(***************************************************************************)
EXTENDS KconfigSymbol

CONSTANTS
  MenuOrder,   (* the symbols in the order of the menus                         *)
  Files,       (* what .config may be at first: sequences of lines, or Absent    *)
  MaxRuns      (* how often the program is started                            *)

Absent == <<<<"absent", "">>>>

VARIABLES
  pc,       (* "start", "menus", "written", "moved", "end"                     *)
  dot,      (* .config: lines <<name, value>>, n being "is not set"; or Absent   *)
  old,      (* .config.old                                                   *)
  tmp,      (* .config.<pid>.tmp                                              *)
  runs      (* programs started so far                                       *)

fileVars == <<pc, dot, old, tmp, runs>>
-------------------------------------------------------------------------------
(* A string is a sequence of characters, of which these two are written with a   *)
(* backslash before them: escape_string_value.                                *)
Quote == "quote"
Backslash == "backslash"

(* A slip: a backslash is written as it is. *)
EscapedQuotes(string) ==
  Seqs!FlattenSeq([i \in DOMAIN string |->
    IF string[i] = Quote THEN <<Backslash, Quote>> ELSE <<string[i]>>])

Escaped(string) ==
  Seqs!FlattenSeq([i \in DOMAIN string |->
    IF string[i] \in {Quote, Backslash} THEN <<Backslash, string[i]>> ELSE <<string[i]>>])

(* conf_set_sym_val, for what stands after the first quote: up to the next bare   *)
(* one; <<>> if there is none.                                                *)
RECURSIVE Unescaped(_)
Unescaped(text) ==
  IF text = <<>> THEN <<>>
  ELSE IF Head(text) = Quote THEN <<<<>>>>
  ELSE LET bare == IF Head(text) = Backslash THEN Tail(text) ELSE text
           rest == IF bare = <<>> THEN <<>> ELSE Unescaped(Tail(bare))
       IN IF rest = <<>> THEN <<>> ELSE <<<<bare[1]>> \o rest[1]>>
-------------------------------------------------------------------------------
(* Whether sym can have the value that is read, as conf_set_sym_val has it.       *)
Readable(s, v) ==
  CASE Type[s] = "bool" -> v \in {"y", "n"}
    [] Type[s] = "tristate" -> v \in States
    [] Type[s] \in {"int", "hex"} -> Number[Type[s]][v] # NaN
    [] OTHER -> TRUE

(* conf_read_simple on one line; a member of a choice goes to the head.          *)
ReadLine(t, line) ==
  LET s == line[1]
      c == Def[s].choice
  IN IF s \notin Symbols \/ ~Readable(s, line[2]) THEN [t EXCEPT !.changed = TRUE]
     ELSE [t EXCEPT !.user[s] = line[2],
                    !.order = IF c = None THEN @
                              ELSE [@ EXCEPT ![c] = <<s>> \o SelectSeq(@, LAMBDA m : m # s)]]

(* conf_read: everything is set and calculated anew, and changed says whether       *)
(* writing would make a difference.                                           *)
Cleared(t) == [t EXCEPT !.user = [s \in Symbols |-> None], !.valid = {}, !.memo = <<>>,
                        !.changed = FALSE]
Taken(t, lines) == CalcAll(Calc(Seqs!FoldLeft(ReadLine, t, lines), Modules), Symbols)
Differs(all, s) == IF HasValue(all, s) /\ s \in all.write THEN all.user[s] # all.cur[s]
                   ELSE HasValue(all, s) \/ s \in all.write
Compare(all) == [all EXCEPT !.changed = @ \/ \E s \in Symbols : Differs(all, s)]
Unread(t) == Calc([t EXCEPT !.changed = TRUE], Modules)

(* A slip: what the file says and the symbol cannot be is no change. *)
RereadOnly(t, lines) == IF lines = Absent THEN Unread(t) ELSE Taken(Cleared(t), lines)

(* A slip: what was calculated before stays. *)
ReadOver(t, lines) ==
  IF lines = Absent THEN Unread(t)
  ELSE Compare(Taken([t EXCEPT !.user = [s \in Symbols |-> None], !.changed = FALSE], lines))

Reread(t, lines) ==
  IF lines = Absent THEN Unread(t) ELSE Compare(Taken(Cleared(t), lines))

(* What conf_write calculates, and the lines it writes.                         *)
ForWriting(t) == CalcAll(IF t.changed THEN t ELSE ClearAllValid(t), Symbols)
Lines(t) ==
  LET kept == SelectSeq(MenuOrder, LAMBDA s : s \in t.write)
  IN [i \in DOMAIN kept |-> <<kept[i], t.cur[kept[i]]>>]

(* A slip: a select is no reason to leave a symbol out, but its default is. *)
StringDefaultAlone(t, s) ==
  IF Def[s].defaults = <<>> THEN Zero(s)
  ELSE LET of == Def[s].defaults[1].value[2] IN StringOf(of, t.cur)

(* sym_get_string_default                                                     *)
WholeDefault(t, s, tri) ==
  IF tri = 1 /\ (Type[s] = "bool" \/ (Def[s].choice = None /\ t.modules = 0)) THEN 2 ELSE tri
TriDefault(d, vis, t, s) ==
  Str(Higher(WholeDefault(t, s, Higher(d.v[1], vis.t.rev[s])), vis.v.implied))
StringDefaultOf(prop, s) ==
  IF prop.v = <<>> THEN Zero(s)
  ELSE StringOf(prop.v[1].value[2], CalcEnd(prop.t, prop.v[1].value[2]).cur)
DefaultWhere(vis, t, s) ==
  IF IsTri(s) THEN TriDefault(DefaultValue(FirstProp(vis.t, Def[s].defaults)), vis, t, s)
  ELSE StringDefaultOf(FirstProp(vis.t, Def[s].defaults), s)

StringDefault(t, s) == DefaultWhere(CalcVisibility(t, s), t, s)

(* conf_write_defconfig: what has its default is left out.                      *)
IsDefault(all, s) ==
  \/ all.cur[s] = StringDefault(all, s)
  \/ /\ Def[s].choice # None /\ all.cur[s] = "y"
     /\ s = DefaultOf(all, Def[s].choice, Choices[Def[s].choice].defaults).v
LinesOf(all, kept) == [i \in DOMAIN kept |-> <<kept[i], all.cur[kept[i]]>>]
Minimal(all) ==
  LinesOf(all, SelectSeq(MenuOrder, LAMBDA s : /\ s \in all.write
                                               /\ all.visible[s] > all.rev[s]
                                               /\ ~IsDefault(all, s)))

(* A slip: a symbol that is selected is written too, and may be off later. *)
VisibleLines(all) ==
  LinesOf(all, SelectSeq(MenuOrder, LAMBDA s : all.cur[s] # "n" /\ Def[s].choice = None))
DefconfigVisible(t) == VisibleLines(CalcAll(ClearAllValid(t), Symbols))

DefconfigLines(t) == Minimal(CalcAll(ClearAllValid(t), Symbols))

-------------------------------------------------------------------------------
Started == Blank([s \in Symbols |-> None], [c \in DOMAIN Choices |-> Choices[c].members])

FileInit ==
  /\ dot \in Files
  /\ old = Absent /\ tmp = Absent
  /\ st = Started
  /\ accepted = <<>>
  /\ pc = "start" /\ runs = 0

(* conf_parse, then conf_read.                                               *)
Start ==
  /\ pc = "start" /\ runs < MaxRuns
  /\ st' = Reread(Started, dot)
  /\ pc' = "menus"
  /\ runs' = runs + 1
  /\ accepted' = <<>>
  /\ UNCHANGED <<dot, old, tmp>>

Work ==
  /\ pc = "menus"
  /\ Next
  /\ UNCHANGED fileVars

(* conf_write: the whole file under another name ...                          *)
WriteTmp ==
  /\ pc = "menus"
  /\ st' = ForWriting(st)
  /\ tmp' = Lines(st')
  /\ pc' = "written"
  /\ UNCHANGED <<accepted, dot, old, runs>>

(* ... which goes away if the file is the same ...                             *)
NoChange ==
  /\ pc = "written" /\ tmp = dot
  /\ tmp' = Absent
  /\ st' = [st EXCEPT !.changed = FALSE]
  /\ pc' = "menus"
  /\ UNCHANGED <<accepted, dot, old, runs>>

(* ... and takes its place otherwise, in two renames.                          *)
RenameOld ==
  /\ pc = "written" /\ tmp # dot
  /\ IF dot = Absent THEN UNCHANGED <<dot, old>> ELSE old' = dot /\ dot' = Absent
  /\ pc' = "moved"
  /\ UNCHANGED <<st, accepted, tmp, runs>>

RenameTmp ==
  /\ pc = "moved"
  /\ dot' = tmp /\ tmp' = Absent
  /\ st' = [st EXCEPT !.changed = FALSE]
  /\ pc' = "menus"
  /\ UNCHANGED <<accepted, old, runs>>

(* The user leaves; the front ends write first if something changed and the user *)
(* wants it.  Or the program is killed.  Its temporary file stays.               *)
Leave ==
  /\ pc # "start"
  /\ pc' = "start"
  /\ st' = Started
  /\ accepted' = <<>>
  /\ tmp' = Absent
  /\ UNCHANGED <<dot, old, runs>>

FileNext == Start \/ Work \/ WriteTmp \/ NoChange \/ RenameOld \/ RenameTmp \/ Leave
FileSpec == FileInit /\ [][FileNext]_<<vars, fileVars>>
-------------------------------------------------------------------------------
AsSet(lines) == {lines[i] : i \in DOMAIN lines}

(* Types of the state; a string is read back as it was written.                  *)
FileTypeOK ==
  /\ pc \in {"start", "menus", "written", "moved"} /\ runs \in 0..MaxRuns
  /\ \A lines \in {dot, old, tmp} \ {Absent} : \A l \in AsSet(lines) : Len(l) = 2
  /\ \A string \in UNION {[1..n -> {Quote, Backslash, "a"}] : n \in 0..3} :
       Unescaped(Append(Escaped(string), Quote)) = <<string>>

(* conf_set_changed: when nothing has changed, .config says what would be written. *)
QuietMeansSaved ==
  pc = "menus" /\ ~st.changed =>
    /\ dot # Absent
    /\ AsSet(Lines(ForWriting(st))) = AsSet(dot)

(* conf_write_defconfig: a program that reads the minimal file has the values of   *)
(* the program that wrote it.                                                 *)
DefconfigRestores ==
  pc = "menus" =>
    \A now \in {CalcAll(ClearAllValid(st), Symbols)} :
      Reread(Started, DefconfigLines(st)).cur = now.cur

(* conf_read after conf_write: nothing to save, and the same values.             *)
WrittenIsRead ==
  pc = "menus" /\ ~st.changed =>
    \A again \in {Reread(Started, dot)} :
      ~again.changed /\ again.cur = CalcAll(st, Symbols).cur
=================================================================================
