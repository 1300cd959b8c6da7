------------------------------ MODULE KconfigConf ------------------------------
(***************************************************************************)
(* conf: the configuration asked for line by line, or set all at once         *)
(* (scripts/kconfig/conf.c).  check_conf and conf walk the tree of menus and   *)
(* call each other; what is still to be walked is the sequence tasks.  Every    *)
(* answer can change what is visible in the part that is still to come.        *)
(***************************************************************************)
EXTENDS KconfigSymbol, FiniteSets

CONSTANTS
  Menu,      (* [entries -> [kind, sym, cond, visibility, kids]]: kind is        *)
             (* "menu", "symbol", "choice" or "silent", which has no prompt     *)
  Root,      (* the entry all others are below                                 *)
  Modes      (* the ways in which conf may be called                           *)

VARIABLES
  mode,      (* input_mode                                                     *)
  stage,     (* "set", "walk" or "done"                                        *)
  tasks,     (* what is to be walked: <<"check" or "conf" or "ask", entry>>      *)
  again,     (* conf_cnt # 0                                                   *)
  top,       (* rootEntry                                                      *)
  rounds,    (* rounds in which something was asked for                         *)
  given      (* what was set before                                             *)

confVars == <<mode, stage, tasks, again, top, rounds, given>>

Asking == {"oldaskconfig", "oldconfig", "syncconfig"}
Listing == {"listnewconfig", "helpnewconfig"}
-------------------------------------------------------------------------------
Changeable(t, s) == t.visible[s] > t.rev[s]
NewSymbol(t, s) == ~HasValue(t, s) /\ Changeable(t, s)

(* menu_is_visible, which calculates what it looks at.                          *)
RECURSIVE Visible(_, _)
RECURSIVE AnyVisible(_, _)
SeenOrBelow(own, e) ==
  CASE own.v # 0 -> Result(own.t, TRUE)
    [] Menu[e].sym \in Symbols /\ TriOf(Menu[e].sym, own.t.cur) # 0 ->
         AnyVisible(own.t, Menu[e].kids)
    [] OTHER -> Result(own.t, FALSE)
AbleAndSeen(able, e) ==
  IF able.v = 0 THEN Result(able.t, FALSE)
  ELSE SeenOrBelow(Eval(CalcEnd(able.t, Menu[e].sym), Menu[e].cond), e)
Visible(t, e) ==
  IF Menu[e].kind = "silent" THEN Result(t, FALSE)
  ELSE AbleAndSeen(Eval(t, Menu[e].visibility), e)

FirstOrNext(first, entries) == IF first.v THEN first ELSE AnyVisible(first.t, Tail(entries))
AnyVisible(t, entries) ==
  IF entries = <<>> THEN Result(t, FALSE)
  ELSE FirstOrNext(Visible(t, Head(entries)), entries)

(* All of them looked at, one after the other.                                  *)
LookAt(t, entries) == Seqs!FoldLeft(LAMBDA u, k : Visible(u, k).t, t, entries)

(* menu_get_menu_or_parent_menu                                                *)
RECURSIVE MenuOf(_)
MenuOf(e) ==
  IF e = Root \/ Menu[e].kind = "menu" THEN e
  ELSE MenuOf(CHOOSE p \in DOMAIN Menu : e \in Seqs!ToSet(Menu[p].kids))

Each(what, entries) == [i \in DOMAIN entries |-> <<what, entries[i]>>]
-------------------------------------------------------------------------------
(* conf_set_all_new_symbols, for what the file named by KCONFIG_ALLCONFIG and the  *)
(* like leave open.                                                           *)
Open(t) == {s \in Symbols : ~HasValue(t, s) /\ IsTri(s) /\ Def[s].choice = None
                            /\ \E e \in DOMAIN Menu : Menu[e].sym = s /\ Menu[e].kind # "silent"}
With(t, values) ==
  [t EXCEPT !.user = [s \in Symbols |-> IF s \in DOMAIN values THEN values[s] ELSE t.user[s]]]
(* A slip: a setting that was given is set again. *)
SetAllNewToo(t, v) == ClearAllValid(With(t, [s \in {x \in Symbols : IsTri(x)} |-> v]))

SetAllNew(t, v) == ClearAllValid(With(t, [s \in Open(t) |-> v]))

(* randomize_choice_values: all that are open are y, in any order, after those     *)
(* that were given.                                                          *)
Randomized(t, c, order) ==
  LET Given(s) == HasValue(t, s)
      members == Seqs!ToSet(Choices[c].members)
  IN [With(t, [s \in {m \in members : ~Given(m)} |-> "y"]) EXCEPT
        !.order[c] = SelectSeq(@, Given) \o order]

SetRandom(values) ==
  /\ \A s \in Open(st) : Type[s] = "bool" => values[s] # "m"
  /\ IF DOMAIN Choices = {} THEN st' = ClearAllValid(With(st, values))
     ELSE LET c == CHOOSE x \in DOMAIN Choices : TRUE
              free == {s \in Seqs!ToSet(Choices[c].members) : ~HasValue(st, s)}
          IN \E order \in Seqs!SetToSeqs(free) :
               st' = ClearAllValid(With(Randomized(st, c, order), values))

(* conf_rewrite_tristates                                                      *)
Rewrite(t, from, to) ==
  ClearAllValid(With(t, [s \in {x \in Symbols : TypeNow(t, x) = "tristate" /\ t.user[x] = from}
                         |-> to]))

(* What main does between reading and writing.                                  *)
SetAtOnce ==
  /\ stage = "set" /\ mode \notin Asking \cup Listing
  /\ stage' = "done"
  /\ LET all == "allnoconfig" :> "n" @@ "allyesconfig" :> "y" @@ "allmodconfig" :> "m"
         from == "yes2modconfig" :> "y" @@ "mod2yesconfig" :> "m" @@ "mod2noconfig" :> "m"
         to == "yes2modconfig" :> "m" @@ "mod2yesconfig" :> "y" @@ "mod2noconfig" :> "n"
     IN CASE mode \in DOMAIN all -> st' = SetAllNew(st, all[mode])
          [] mode = "randconfig" -> \E values \in [Open(st) -> States] : SetRandom(values)
          [] mode \in DOMAIN from -> st' = Rewrite(st, from[mode], to[mode])
          [] mode \in {"alldefconfig", "defconfig"} -> st' = ClearAllValid(st)
          [] OTHER -> st' = st
  /\ UNCHANGED <<accepted, mode, tasks, again, top, rounds, given>>

StartWalk ==
  /\ stage = "set" /\ mode \in Asking \cup Listing
  /\ stage' = "walk"
  /\ tasks' = <<<<IF mode = "oldaskconfig" THEN "conf" ELSE "check", Root>>>>
  /\ UNCHANGED <<st, accepted, mode, again, top, rounds, given>>
-------------------------------------------------------------------------------
Doing(what) == stage = "walk" /\ tasks # <<>> /\ Head(tasks)[1] = what
Entry == Head(tasks)[2]
Then(first) == tasks' = first \o Tail(tasks)

(* check_conf: something new is asked for, with all of the menu it is in.         *)
CheckConf ==
  /\ Doing("check")
  /\ \E see \in {Visible(st, Entry)} :
       LET e == Entry
           ask == /\ see.v /\ Menu[e].sym \in Symbols /\ NewSymbol(see.t, Menu[e].sym)
                  /\ mode \notin Listing
           kids == IF see.v THEN Each("check", Menu[e].kids) ELSE <<>>
       IN /\ st' = see.t
          /\ Then((IF ask THEN <<<<"conf", MenuOf(e)>>>> ELSE <<>>) \o kids)
          /\ again' = (again \/ ask)
          /\ top' = IF ask THEN MenuOf(e) ELSE top
  /\ UNCHANGED <<accepted, mode, stage, rounds, given>>

(* conf: a menu is only checked, unless it is the one to ask for.                *)
Conf ==
  /\ Doing("conf")
  /\ \E see \in {Visible(st, Entry)} :
       LET e == Entry
           kids == Each("conf", Menu[e].kids)
       IN /\ st' = see.t
          /\ Then(CASE ~see.v -> <<>>
                    [] Menu[e].kind = "menu" /\ mode # "oldaskconfig" /\ top # e ->
                         <<<<"check", e>>>>
                    [] Menu[e].kind = "choice" -> <<<<"ask", e>>>>
                    [] Menu[e].sym \in Symbols -> <<<<"ask", e>>>> \o kids
                    [] OTHER -> kids)
  /\ UNCHANGED <<accepted, mode, stage, again, top, rounds, given>>

(* A slip: a value that is the default counts as an answer. *)
AskedUnlessDefault(t, s) ==
  Changeable(t, s) /\ (mode = "oldaskconfig" \/ (~HasValue(t, s) /\ t.cur[s] = Zero(s)))

(* A slip: oldconfig takes what is visible as answered. *)
AskedOnlyAtFirst(t, s) == Changeable(t, s) /\ mode = "oldaskconfig"

(* conf_askvalue: only what can be changed is asked for, and what has no value yet, *)
(* unless all is.                                                             *)
Asked(t, s) == Changeable(t, s) /\ (mode = "oldaskconfig" \/ ~HasValue(t, s))

(* conf_sym and conf_string: until an answer is accepted; an empty one is the value *)
(* the symbol has.                                                            *)
AskSymbol ==
  /\ Doing("ask") /\ Menu[Entry].kind # "choice"
  /\ LET s == Menu[Entry].sym IN
       IF ~Asked(st, s) THEN UNCHANGED <<st, accepted>>
       ELSE \E v \in Inputs[s] \cup {st.cur[s]} :
              (IF IsTri(s) THEN Set(s, v) ELSE SetText(s, v)) /\ accepted' # <<>>
  /\ Then(<<>>)
  /\ UNCHANGED <<mode, stage, again, top, rounds, given>>

(* conf_choice: the only member is taken, and without a new one the answer there is. *)
AskChoice ==
  /\ Doing("ask") /\ Menu[Entry].kind = "choice"
  /\ LET kids == Menu[Entry].kids
         c == Def[Menu[kids[1]].sym].choice
     IN \E t \in {LookAt(CalcChoice(st, c), kids)} :
        \E shown \in {{Menu[k].sym : k \in {x \in Seqs!ToSet(kids) : Visible(t, x).v}}} :
          LET new == \E s \in shown : ~HasValue(t, s)
              all == mode = "oldaskconfig" \/ new \/ Cardinality(shown) = 1
          IN \E s \in {x \in shown : all \/ t.cur[x] = "y"} :
               st' = SetChoice(t, c, s) /\ accepted' = <<s, "y">>
  /\ Then(<<>>)
  /\ UNCHANGED <<mode, stage, again, top, rounds, given>>

(* A slip: one round is taken to be enough. *)
WalkOnce ==
  /\ stage = "walk" /\ tasks = <<>>
  /\ stage' = "done"
  /\ UNCHANGED <<st, accepted, mode, tasks, again, top, rounds, given>>

(* "Update until a loop caused no more changes".                                *)
WalkAgain ==
  /\ stage = "walk" /\ tasks = <<>>
  /\ IF mode = "oldaskconfig" \/ again
     THEN tasks' = <<<<"check", Root>>>> /\ stage' = stage
     ELSE tasks' = <<>> /\ stage' = "done"
  /\ again' = FALSE
  /\ rounds' = IF again THEN rounds + 1 ELSE rounds
  /\ mode' = IF mode = "oldaskconfig" THEN "oldconfig" ELSE mode
  /\ UNCHANGED <<st, accepted, top, given>>

ConfInit ==
  /\ Init
  /\ mode \in Modes
  /\ stage = "set" /\ tasks = <<>> /\ again = FALSE /\ top = Root
  /\ rounds = 0 /\ given = st.user

ConfNext == SetAtOnce \/ StartWalk \/ CheckConf \/ Conf \/ AskSymbol \/ AskChoice \/ WalkAgain
ConfSpec == ConfInit /\ [][ConfNext]_<<vars, confVars>>
-------------------------------------------------------------------------------
(* An entry is seen if those it is below are.                                   *)
RECURSIVE Seen(_, _)
WithSeenBelow(see, e) ==
  IF ~see.v THEN {} ELSE {e} \cup UNION {Seen(see.t, k) : k \in Seqs!ToSet(Menu[e].kids)}
Seen(t, e) == WithSeenBelow(Visible(t, e), e)

(* When oldconfig or syncconfig is over, nothing it could have asked for is left    *)
(* without an answer, though every answer may have shown or hidden the rest.       *)
NewIsSettled ==
  stage = "done" /\ mode \in Asking =>
    \A e \in Seen(st, Root) : Menu[e].sym \in Symbols => ~NewSymbol(Calc(st, Menu[e].sym), Menu[e].sym)

(* What was given before, in .config or by KCONFIG_ALLCONFIG, is in force when conf  *)
(* has set the rest at once.                                                   *)
GivenIsKept ==
  stage = "done" /\ mode \in {"allnoconfig", "allyesconfig", "allmodconfig", "randconfig"} =>
    /\ \A s \in Symbols : given[s] # None => st.user[s] = given[s]
    /\ \A c \in DOMAIN Choices : \A s \in Seqs!ToSet(Choices[c].members) :
         LET t == CalcAll(st, Symbols)
         IN given[s] = "y" /\ t.visible[s] # 0 => t.cur[s] = "y"

(* The rounds of oldconfig come to an end: each settles something, so there are    *)
(* no more of them than symbols.                                               *)
RoundsAreFew == rounds <= Cardinality({s \in Symbols : \E e \in DOMAIN Menu : Menu[e].sym = s})
===============================================================================
