------------------------------ MODULE KconfigSync ------------------------------
(***************************************************************************)
(* From .config to the build: conf --syncconfig writes what the build reads   *)
(* (scripts/kconfig/confdata.c), make decides when it has to run (Makefile),   *)
(* and fixdep turns what a compiler has read into what an object depends on   *)
(* (scripts/basic/fixdep.c).  syncconfig may be interrupted after every file.  *)
(***************************************************************************)
EXTENDS Sequences, FiniteSets

CONSTANTS
  Symbols,
  Type,       (* [Symbols -> "tristate", "hex" or "string"]                     *)
  Values,     (* [Symbols -> what it may be]; Unwritten if .config has no line    *)
  Objects,
  Includes,   (* [Objects -> the files its compiler reads]                       *)
  Depfile,    (* [Objects -> the tokens of the dependencies the compiler wrote]   *)
  Words,      (* [file -> its words with CONFIG_ in them]                        *)
  Header,     (* the header of all options, as it is called here                 *)
  Ignored,    (* the file fixdep leaves out                                    *)
  Binary,     (* files fixdep does not look into                               *)
  Interrupts  (* whether syncconfig may be interrupted                          *)

LOCAL Seqs == INSTANCE SequencesExt

Unwritten == "unwritten"
NoLine == <<"", "">>

VARIABLES
  config,    (* what .config says                                              *)
  stale,     (* .config is newer than the header                               *)
  header,    (* the header: <<suffix, value>> for each option, or NoLine         *)
  auto,      (* auto.conf: the value of each option, or Unwritten                *)
  pc,        (* syncconfig: "idle", "cmd", "touch", "header", "rust", "auto"      *)
  left,      (* include/config/<option> still to touch                          *)
  saw,       (* object -> what the header said when it was compiled; <<>>: none   *)
  newer,     (* <<object, file>>: what it may depend on is newer than it        *)
  calm       (* syncconfig was never interrupted after it wrote the header          *)

vars == <<config, stale, header, auto, pc, left, saw, newer, calm>>

Mentions(files) == {w.name : w \in {x \in UNION {{Words[f][i] : i \in DOMAIN Words[f]} : f \in files} :
                                    ~x.lead}}
-------------------------------------------------------------------------------
(* fixdep: parse_config_file.  A word preceded by a letter is another one, and a  *)
(* trailing _MODULE is not part of the name.                                   *)
UseConfig(configs, w) == IF w.lead \/ w.name = "" THEN configs ELSE configs \cup {w.name}
(* A slip: only the source is looked into. *)
ParseConfigSource(configs, f) ==
  IF f \in Binary \/ configs # {} THEN configs ELSE Seqs!FoldLeft(UseConfig, configs, Words[f])

ParseConfigFile(configs, f) ==
  IF f \in Binary THEN configs ELSE Seqs!FoldLeft(UseConfig, configs, Words[f])

(* parse_dep_file, one token of it.                                             *)
Token(d, t) ==
  IF d.comment THEN [d EXCEPT !.comment = t # "newline", !.target = t = "newline"]
  ELSE CASE t = "comment" -> [d EXCEPT !.comment = TRUE]
         [] t = "newline" -> [d EXCEPT !.target = TRUE]
         [] t = "colon" -> [d EXCEPT !.target = FALSE, !.source = TRUE]
         [] t = "continue" \/ d.target -> d
         [] OTHER ->
              LET first == d.source /\ ~d.any
                  listed == ~d.source /\ t # Ignored /\ t \notin d.files
              IN [d EXCEPT !.source = FALSE, !.any = @ \/ d.source,
                           !.files = IF listed THEN @ \cup {t} ELSE @,
                           !.configs = IF first \/ listed THEN ParseConfigFile(@, t) ELSE @]

(* What the object depends on, by fixdep.                                       *)
DependsOn(o) ==
  LET d == Seqs!FoldLeft(Token, [target |-> TRUE, source |-> FALSE, any |-> FALSE,
                                 comment |-> FALSE, files |-> {}, configs |-> {}], Depfile[o])
  IN d.files \cup d.configs
-------------------------------------------------------------------------------
(* print_symbol_for_c.                                                          *)
HeaderLine(s, v) ==
  CASE v = Unwritten \/ (Type[s] = "tristate" /\ v = "n") -> NoLine
    [] Type[s] = "tristate" -> <<IF v = "m" THEN "_MODULE" ELSE "", "1">>
    [] Type[s] = "hex" /\ v = "1f" -> <<"", "0x1f">>
    [] OTHER -> <<"", v>>
(* print_symbol_for_autoconf: an n is no line.                                  *)
AutoLine(s, v) == IF Type[s] = "tristate" /\ v = "n" THEN Unwritten ELSE v

(* A slip: an option that is no longer written is not touched. *)
ChangedIfWritten(s) ==
  config[s] # Unwritten /\ config[s] # auto[s] /\ ~(auto[s] = Unwritten /\ config[s] = "n")

(* conf_touch_deps: the options whose file is touched.                           *)
Changed(s) ==
  IF config[s] # Unwritten
  THEN IF auto[s] # Unwritten THEN config[s] # auto[s]
       ELSE ~(Type[s] = "tristate" /\ config[s] = "n")
  ELSE auto[s] # Unwritten

(* The user or another program changes .config.                                 *)
Change(s, v) ==
  /\ pc = "idle" /\ config[s] # v
  /\ config' = [config EXCEPT ![s] = v]
  /\ stale' = TRUE
  /\ UNCHANGED <<header, auto, pc, left, saw, newer, calm>>

(* Makefile: the header is older than .config, so make runs syncconfig.           *)
SyncStart ==
  /\ pc = "idle" /\ stale
  /\ pc' = "cmd"
  /\ UNCHANGED <<config, stale, header, auto, left, saw, newer, calm>>

(* conf_write_autoconf_cmd, then the values are calculated.                       *)
WriteCmd ==
  /\ pc = "cmd"
  /\ pc' = "touch"
  /\ left' = {s \in Symbols : Changed(s)}
  /\ UNCHANGED <<config, stale, header, auto, saw, newer, calm>>

(* conf_touch_dep.                                                             *)
Touch(s) ==
  /\ pc = "touch" /\ s \in left
  /\ left' = left \ {s}
  /\ newer' = newer \cup {<<o, s>> : o \in Objects}
  /\ UNCHANGED <<config, stale, header, auto, pc, saw, calm>>

(* A slip: the header is renamed before it is filled. *)
WriteHeaderEarly ==
  /\ pc = "touch" /\ left = {}
  /\ stale' = FALSE
  /\ newer' = newer \cup {<<o, Header>> : o \in Objects}
  /\ pc' = "rust"
  /\ UNCHANGED <<config, header, auto, left, saw, calm>>

(* __conf_write_autoconf for the header: a new file replaces it.                  *)
WriteHeader ==
  /\ pc = "touch" /\ left = {}
  /\ header' = [s \in Symbols |-> HeaderLine(s, config[s])]
  /\ stale' = FALSE
  /\ newer' = newer \cup {<<o, Header>> : o \in Objects}
  /\ pc' = "rust"
  /\ UNCHANGED <<config, auto, left, saw, calm>>

(* The same for rustc_cfg, which no object depends on.                           *)
WriteRust ==
  /\ pc = "rust"
  /\ pc' = "auto"
  /\ UNCHANGED <<config, stale, header, auto, left, saw, newer, calm>>

WriteAuto ==
  /\ pc = "auto"
  /\ auto' = [s \in Symbols |-> AutoLine(s, config[s])]
  /\ pc' = "idle"
  /\ UNCHANGED <<config, stale, header, left, saw, newer, calm>>

(* A file cannot be written, or the program is killed.                           *)
Interrupt ==
  /\ Interrupts
  /\ pc # "idle"
  /\ pc' = "idle" /\ left' = {}
  /\ calm' = (calm /\ pc \in {"cmd", "touch"})
  /\ UNCHANGED <<config, stale, header, auto, saw, newer>>

(* make compiles what is older than something it depends on.                     *)
Compile(o) ==
  /\ pc = "idle" /\ ~stale
  /\ saw[o] = <<>> \/ \E d \in DependsOn(o) : <<o, d>> \in newer
  /\ saw' = [saw EXCEPT ![o] = [s \in Mentions(Includes[o]) |-> header[s]]]
  /\ newer' = newer \ ({o} \X (Symbols \cup {Header}))
  /\ UNCHANGED <<config, stale, header, auto, pc, left, calm>>

Init ==
  /\ config \in [Symbols -> UNION {Values[s] : s \in Symbols}]
  /\ \A s \in Symbols : config[s] \in Values[s]
  /\ stale = TRUE
  /\ header = [s \in Symbols |-> NoLine]
  /\ auto = [s \in Symbols |-> Unwritten]
  /\ pc = "idle" /\ left = {}
  /\ saw = [o \in Objects |-> <<>>]
  /\ newer = {}
  /\ calm = TRUE

Next ==
  \/ \E s \in Symbols : \E v \in Values[s] : Change(s, v)
  \/ SyncStart \/ WriteCmd \/ (\E s \in Symbols : Touch(s)) \/ WriteHeader \/ WriteRust
  \/ WriteAuto \/ Interrupt
  \/ \E o \in Objects : Compile(o)

Spec == Init /\ [][Next]_vars
-------------------------------------------------------------------------------
(* An object make would not compile again.                                      *)
Current(o) == pc = "idle" /\ ~stale /\ saw[o] # <<>>
              /\ \A d \in DependsOn(o) : <<o, d>> \notin newer

(* Whatever the user changes and wherever syncconfig is interrupted, an object    *)
(* that make takes for current was compiled with what .config says of each option *)
(* its files mention: make and fixdep on one side, conf_write_autoconf on the     *)
(* other.                                                                      *)
CurrentIsRight ==
  \A o \in Objects :
    Current(o) => \A s \in Mentions(Includes[o]) : saw[o][s] = HeaderLine(s, config[s])

(* conf_touch_deps touches enough: unless syncconfig was interrupted behind make's *)
(* back, an object whose options changed has one of them newer than it is, so    *)
(* that it would be compiled again without depending on the header at all.        *)
TouchesAreEnough ==
  \A o \in Objects :
    (pc = "idle" /\ ~stale /\ calm /\ saw[o] # <<>>
       /\ \A s \in DependsOn(o) \cap Symbols : <<o, s>> \notin newer)
    => \A s \in Mentions(Includes[o]) : saw[o][s] = HeaderLine(s, config[s])

(* "This must be the last step because Kbuild has a dependency on auto.conf and    *)
(* this marks the successful completion of the previous steps" (confdata.c): when *)
(* make finds nothing to do, auto.conf says what .config says.                    *)
AutoMarksCompletion ==
  (pc = "idle" /\ ~stale) => \A s \in Symbols : auto[s] = AutoLine(s, config[s])

(* "only the objects which depend on include/config/HIS_DRIVER will be rebuilt"    *)
(* (fixdep.c).                                                                  *)
OnlyAffectedAreCompiled ==
  [][\A o \in Objects : (saw[o] # <<>> /\ saw'[o] # saw[o]) \/ saw[o] = <<>> \/
       <<o, Header>> \notin newer \/ <<o, Header>> \in newer' \/
       (\E s \in Symbols : <<o, s>> \in newer /\ s \in DependsOn(o))]_vars
===============================================================================
