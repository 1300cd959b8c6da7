------------------------------ MODULE KconfigMenus ------------------------------
(***************************************************************************)
(* menuconfig and nconfig (scripts/kconfig/mconf.c, nconf.c): a stack of       *)
(* menus and dialogs, a list of items that is built anew whenever a menu comes  *)
(* to the top, keys that change values, several files to load and save, and the *)
(* question at the end.  One key and what follows until the next is one step.   *)
(* The two programs take other keys, and leave in another way.               *)
(***************************************************************************)
EXTENDS KconfigSymbol

CONSTANTS
  Menu, Root,   (* as in KconfigConf; an entry may also be a "menuconfig" or a      *)
                (* "comment"                                                   *)
  MenuOrder,    (* the symbols in the order of the menus                         *)
  FileNames,    (* names of files; the first one is .config                        *)
  Content,      (* what .config may be at first                                  *)
  Setups,       (* how the program may be run: [frontend, "mconf" or "nconf";       *)
                (* single, whether single_menu_mode is on; absentees, names the    *)
                (* user may give to load that no file has; signals, whether        *)
                (* SIGINT may come]                                             *)
  MaxDepth, MaxKeys   (* bounds: dialogs on top of each other, and keys            *)

VARIABLES
  setup,     (* one of Setups                                                   *)
  stack,     (* the calls of conf, conf_choice, conf_string ..., the last first:    *)
             (* <<kind, entry>>                                                *)
  screen,    (* what is on the screen: the list [entry, tag, shown], and the settings *)
             (* with what was calculated to build it: [t, list]                    *)
  showAll,   (* show_all_options                                               *)
  unrolled,  (* the menus whose data is set, in single_menu_mode                 *)
  files,     (* [FileNames -> lines]                                               *)
  name,      (* filename                                                     *)
  loaded,    (* <<the values the last file gives>>, or <<>> when set otherwise since *)
  left,      (* "no", or how the program ended                                  *)
  keys       (* keys so far                                                    *)

menusVars == <<setup, stack, screen, showAll, unrolled, files, name, loaded, left, keys>>

(* Only the operators on the settings and on lines are used of these two.          *)
F == INSTANCE KconfigFile WITH pc <- None, dot <- None, old <- None, tmp <- None,
                               runs <- 0, Files <- {}, MaxRuns <- 0
C == INSTANCE KconfigConf WITH mode <- None, stage <- None, tasks <- <<>>, again <- FALSE,
                               top <- None, rounds <- 0, given <- None, Modes <- {}

Frontend == setup.frontend
Single == setup.single
Now == screen.t     (* st, and what is calculated for the screen *)
Items == screen.list
Top == Head(stack)
Under == Tail(stack)
Item(e, tag, shown) == [entry |-> e, tag |-> tag, shown |-> shown]
Kind(e) == Menu[e].kind
-------------------------------------------------------------------------------
(* A list so far: [t, list].                                                   *)
Empty(t) == [t |-> t, list |-> <<>>]
Listed(b, e, tag, shown) == [b EXCEPT !.list = Append(@, Item(e, tag, shown))]

(* A member of a choice that is seen and has its value: def_menu.                 *)
Answered(t, e) ==
  \E k \in Seqs!ToSet(Menu[e].kids) : C!Visible(t, k).v /\ t.cur[Menu[k].sym] = "y"
ChoiceLine(b, e) == Listed(b, e, IF Answered(b.t, e) THEN "t" ELSE ":", None)
ChoiceSeen(t, e) == C!LookAt(CalcChoice(t, Def[Menu[Menu[e].kids[1]].sym].choice), Menu[e].kids)

(* The line of an entry in the menu that is open; a tristate is shown as it is in   *)
(* before, anything else as it is in b.                                          *)
Line(b, before, e, menu) ==
  LET s == Menu[e].sym
  IN CASE Kind(e) = "menu" /\ e = menu -> before
       [] Kind(e) = "menu" -> Listed(b, e, "m", None)
       [] Kind(e) = "choice" -> ChoiceLine([b EXCEPT !.t = ChoiceSeen(@, e)], e)
       [] Kind(e) = "comment" \/ e = menu -> Listed(b, e, ":", None)
       [] IsTri(s) -> Listed(b, e, "t", before.t.cur[s])
       [] OTHER -> Listed(b, e, "s", b.t.cur[s])

(* Whether what is below an entry is in the same list.                           *)
Opened(e, menu) ==
  CASE Kind(e) = "menu" -> e = menu \/ (Single /\ e \in unrolled')
    [] Kind(e) = "choice" -> FALSE
    [] Kind(e) = "menuconfig" -> e = menu \/ ~IsTri(Menu[e].sym)
    [] OTHER -> TRUE

(* build_conf of mconf.                                                         *)
RECURSIVE MconfBuild(_, _, _)
MconfBelow(b, e, menu) ==
  IF ~Opened(e, menu) THEN b
  ELSE Seqs!FoldLeft(LAMBDA d, k : MconfBuild(d, k, menu), b, Menu[e].kids)
MconfEntry(b, see, e, menu) ==
  IF (IF showAll' THEN Kind(e) = "silent" ELSE ~see) THEN b
  ELSE MconfBelow(Line(b, b, e, menu), e, menu)
MconfSeen(see, b, e, menu) == MconfEntry([b EXCEPT !.t = see.t], see.v, e, menu)
MconfBuild(b, e, menu) == MconfSeen(C!Visible(b.t, e), b, e, menu)

(* build_conf of nconf, which shows what has no prompt either, if all is shown; it   *)
(* looks whether an entry is visible only after it has read its value: item_make.     *)
RECURSIVE NconfBuild(_, _, _)
NconfBelow(b, e, menu) ==
  IF ~Opened(e, menu) THEN b
  ELSE Seqs!FoldLeft(LAMBDA d, k : NconfBuild(d, k, menu), b, Menu[e].kids)
NconfSeen(see, b, e, menu) ==
  LET after == [b EXCEPT !.t = see.t]
  IN IF ~showAll' /\ ~see.v THEN after
     ELSE NconfBelow(Line(after, IF showAll' THEN b ELSE after, e, menu), e, menu)
NconfBuild(b, e, menu) == NconfSeen(C!Visible(b.t, e), b, e, menu)

(* conf_choice of either: the members, and which of them is X.                     *)
Marked(t, kids, tag) ==
  [t |-> t, list |-> [i \in DOMAIN kids |-> Item(kids[i], tag, t.cur[Menu[kids[i]].sym])]]
MconfMembers(t, e) ==
  Marked(t, SelectSeq(Menu[e].kids, LAMBDA k : C!Visible(t, k).v), "X")
NconfMembers(t, e) ==
  Marked(t, SelectSeq(Menu[e].kids, LAMBDA k : showAll' \/ C!Visible(t, k).v), ":")

(* What is on the screen when the call on top is this.                            *)
MconfScreen(t, kind, e) ==
  CASE kind = "menu" -> MconfBuild(Empty(t), e, e)
    [] kind = "choice" -> MconfMembers(ChoiceSeen(t, e), e)
    [] OTHER -> Empty(t)
NconfScreen(t, kind, e) ==
  CASE kind = "menu" -> NconfBuild(Empty(t), e, e)
    [] kind = "choice" -> NconfMembers(ChoiceSeen(t, e), e)
    [] OTHER -> Empty(t)

(* A slip: the list is built when a menu is entered, and not after a key. *)
BuildOnEntry(t, calls) ==
  IF calls = <<>> THEN Empty(t)
  ELSE IF calls = stack THEN [t |-> t, list |-> Items]
  ELSE MconfScreen(t, Head(calls)[1], Head(calls)[2])

Screen(t, calls) ==
  IF calls = <<>> THEN Empty(t)
  ELSE IF Frontend = "mconf" THEN MconfScreen(t, Head(calls)[1], Head(calls)[2])
  ELSE NconfScreen(t, Head(calls)[1], Head(calls)[2])

(* It is built anew before the next key is taken.                                *)
Redraw == screen' = Screen(st', stack')

Proceed(t, calls) ==
  /\ left = "no" /\ keys < MaxKeys /\ Len(calls) <= MaxDepth
  /\ keys' = keys + 1
  /\ stack' = calls
  /\ st' = t
  /\ setup' = setup
  /\ accepted' = <<>>
-------------------------------------------------------------------------------
(* What a key does to item i: [t, push, turn], the settings, the calls on top of    *)
(* these, and the menus that are unrolled or enfolded.                           *)
Does(t, push) == [t |-> t, push |-> push, turn |-> {}]
Turns(t, e) == [t |-> t, push |-> <<>>, turn |-> {e}]
Assigned(t, s, v) == IF WithinRange(t, s, v) THEN SetTristate(t, s, v) ELSE t

(* What y, n, m and the space bar do to a choice itself, which has a nameless symbol   *)
(* nothing depends on: it may count as changed.                                   *)
Meanwhile(t) == {t, ClearAllValid(t)}

(* sym_set_tristate_value and sym_toggle_tristate_value.                          *)
Wanted(t, s, key) ==
  CASE key = "y" -> IF WithinRange(t, s, "y") THEN "y" ELSE "m"
    [] key \in {"n", "m"} -> key
    [] OTHER -> Toggled(t, s)
Keyed(t, e, key) ==
  {Does(u, <<>>) : u \in IF Kind(e) = "choice" THEN Meanwhile(t)
                         ELSE {Assigned(t, Menu[e].sym, Wanted(t, Menu[e].sym, key))}}

(* conf of mconf.                                                              *)
MconfDoes(t, e, tag, key) ==
  CASE key = "enter" /\ tag = "m" -> {IF Single THEN Turns(t, e) ELSE Does(t, <<<<"menu", e>>>>)}
    [] key = "enter" /\ tag = "t" /\ Kind(e) = "choice" -> {Does(t, <<<<"choice", e>>>>)}
    [] key = "enter" /\ tag = "t" /\ Kind(e) = "menuconfig" -> {Does(t, <<<<"menu", e>>>>)}
    [] key = "enter" /\ tag = "s" -> {Does(t, <<<<"text", e>>>>)}
    [] key = "space" /\ tag = "m" -> {Does(t, <<<<"menu", e>>>>)}
    [] key # "enter" /\ tag = "t" -> Keyed(t, e, key)
    [] OTHER -> {Does(t, <<>>)}

(* selected_conf of nconf: only what is visible, and Enter toggles too.            *)
NconfDoes(see, e, tag, key) ==
  IF ~see.v THEN {Does(see.t, <<>>)}
  ELSE IF key = "enter" /\ tag = "t" /\ Kind(e) \notin {"choice", "menuconfig"}
  THEN MconfDoes(see.t, e, tag, "space")
  ELSE MconfDoes(see.t, e, tag, key)

Effects(t, item, key) ==
  IF Frontend = "mconf" THEN MconfDoes(t, item.entry, item.tag, key)
  ELSE NconfDoes(C!Visible(t, item.entry), item.entry, item.tag, key)

InMenu == left = "no" /\ stack # <<>> /\ Top[1] = "menu"

Key(key) ==
  /\ InMenu
  /\ \E i \in DOMAIN Items :
       \E does \in Effects(Now, Items[i], key) :
         /\ unrolled' = (unrolled \ does.turn) \cup (does.turn \ unrolled)
         /\ showAll' = showAll
         /\ loaded' = IF does.t.user = Now.user THEN loaded ELSE <<>>
         /\ Proceed(does.t, does.push \o stack)
  /\ UNCHANGED <<files, name, left>>

(* z in mconf, F4 in nconf.                                                     *)
ShowAll ==
  /\ InMenu
  /\ showAll' = ~showAll /\ UNCHANGED <<unrolled, files, name, loaded, left>>
  /\ Proceed(Now, stack)

(* The dialogs to load, to save, and to search; Escape leaves the one on top, and    *)
(* from the outermost menu there is no other way.                                *)
OpenDialog ==
  /\ InMenu
  /\ UNCHANGED <<showAll, unrolled, files, name, loaded, left>>
  /\ \E kind \in {"load", "save", "found"} : Proceed(Now, <<<<kind, None>>>> \o stack)

Escape ==
  /\ left = "no" /\ Len(stack) > 1 /\ Top[1] \notin {"exit", "killed"}
  /\ UNCHANGED <<showAll, unrolled, files, name, loaded, left>>
  /\ Proceed(Now, Under)

(* search_conf: from the results to where one of them is, and back to the results.   *)
Jump ==
  /\ left = "no" /\ stack # <<>> /\ Top[1] = "found"
  /\ UNCHANGED <<showAll, unrolled, files, name, loaded, left>>
  /\ \E e \in DOMAIN Menu \ {Root} :
       \E parent \in {p \in DOMAIN Menu : e \in Seqs!ToSet(Menu[p].kids)} :
         Proceed(Now, <<<<"menu", parent>>>> \o stack)

(* conf_choice: the member that is chosen.                                       *)
Pick ==
  /\ left = "no" /\ stack # <<>> /\ Top[1] = "choice"
  /\ UNCHANGED <<showAll, unrolled, files, name, left>>
  /\ \E i \in DOMAIN Items :
       LET s == Menu[Items[i].entry].sym
       IN /\ C!Visible(Now, Items[i].entry).v
          /\ \E t \in {SetChoice(Now, Def[s].choice, s)} :
               /\ loaded' = IF t.user = Now.user /\ t.order = Now.order THEN loaded ELSE <<>>
               /\ Proceed(t, Under)

(* conf_string: until it is accepted.                                            *)
EnterText ==
  /\ left = "no" /\ stack # <<>> /\ Top[1] = "text"
  /\ UNCHANGED <<showAll, unrolled, files, name, left>>
  /\ LET s == Menu[Top[2]].sym IN
       \E v \in Inputs[s] :
         \E set \in {IF Now.visible[s] # 0 THEN SetString(Now, s, v) ELSE Result(Now, FALSE)} :
           /\ loaded' = IF set.t.user = Now.user THEN loaded ELSE <<>>
           /\ Proceed(set.t, IF set.v THEN Under ELSE stack)

(* conf_load: a name no file has leaves the settings, but for what conf_read does     *)
(* before it looks for the file.                                                *)
Load ==
  /\ left = "no" /\ stack # <<>> /\ Top[1] = "load"
  /\ UNCHANGED <<showAll, unrolled, files, left>>
  /\ \/ \E n \in setup.absentees :
          /\ UNCHANGED <<name, loaded>>
          /\ Proceed(Calc([Now EXCEPT !.changed = FALSE], Modules), stack)
     \/ \E n \in {m \in FileNames : files[m] # F!Absent} :
          /\ name' = n
          /\ loaded' = <<F!Reread(F!Started, files[n]).cur>>
          /\ Proceed([F!Reread(Now, files[n]) EXCEPT !.changed = TRUE], Under)

(* A slip: the file is named, and the flag stays. *)
StoredElsewhere(t, n) == files' = [files EXCEPT ![n] = F!Lines(t)] /\ UNCHANGED name

(* What conf_save leaves behind.                                                *)
Stored(t, n) == files' = [files EXCEPT ![n] = F!Lines(t)] /\ name' = n

(* conf_save, when the file can be written.                                      *)
Save ==
  /\ left = "no" /\ stack # <<>> /\ Top[1] = "save"
  /\ UNCHANGED <<showAll, unrolled, loaded, left>>
  /\ \E n \in FileNames :
       \E t \in {F!ForWriting(Now)} :
         /\ Stored(t, n)
         /\ Proceed([t EXCEPT !.changed = FALSE], Under)
-------------------------------------------------------------------------------
Ending(how) == left' = how /\ UNCHANGED <<showAll, unrolled, name, loaded>>

(* Without changes there is nothing to ask: handle_exit and do_exit.               *)
Leave(asking) ==
  IF Now.changed THEN /\ UNCHANGED <<showAll, unrolled, files, name, loaded, left>>
                     /\ Proceed(Now, asking)
  ELSE Ending("quiet") /\ Proceed(Now, <<>>) /\ UNCHANGED files

(* Escape in the outermost menu.                                                *)
LeaveRoot ==
  /\ InMenu /\ Under = <<>>
  /\ Leave(<<<<"exit", Root>>>>)

(* F9 of nconf, from any menu.                                                  *)
LeaveAtOnce ==
  /\ Frontend = "nconf" /\ InMenu
  /\ Leave(<<<<"exit", Root>>>> \o stack)

(* SIGINT, which mconf takes wherever it is: sig_handler.                          *)
Interrupt ==
  /\ Frontend = "mconf" /\ setup.signals /\ left = "no" /\ stack # <<>> /\ Top[1] # "killed"
  /\ Leave(<<<<"killed", Root>>>> \o stack)

Asked == left = "no" /\ stack # <<>> /\ Top[1] \in {"exit", "killed"}

(* The answer yes: the file is written, or it cannot be.                           *)
AnswerYes ==
  /\ Asked
  /\ Proceed(F!ForWriting(Now), <<>>)
  /\ \/ Ending("saved") /\ files' = [files EXCEPT ![name] = F!Lines(st')]
     \/ Ending("failed") /\ UNCHANGED files

AnswerNo ==
  /\ Asked
  /\ Ending("refused") /\ Proceed(Now, <<>>)
  /\ UNCHANGED files

(* Escape: on with the menus, unless a signal asked.                              *)
AnswerEscape ==
  /\ Asked
  /\ UNCHANGED files
  /\ IF Top[1] = "killed" THEN Ending("escaped") /\ Proceed(Now, <<>>)
     ELSE /\ UNCHANGED <<showAll, unrolled, name, loaded, left>>
          /\ Proceed(Now, IF Under = <<>> THEN <<<<"menu", Root>>>> ELSE Under)
-------------------------------------------------------------------------------
MenusInit ==
  \E lines \in Content :
    /\ setup \in Setups
    /\ files = [n \in FileNames |-> IF n = ".config" THEN lines ELSE F!Absent]
    /\ name = ".config"
    /\ showAll = FALSE /\ unrolled = {}
    /\ stack = <<<<"start", Root>>>>
    /\ st = F!Reread(F!Started, lines) /\ screen = Empty(st)
    /\ loaded = <<CalcAll(st, Symbols).cur>>
    /\ accepted = <<>> /\ left = "no" /\ keys = 0

(* The first menu comes up.                                                     *)
Start ==
  /\ stack # <<>> /\ Top[1] = "start"
  /\ UNCHANGED <<showAll, unrolled, files, name, loaded, left>>
  /\ Proceed(Now, <<<<"menu", Root>>>>)

MenusNext ==
  /\ \/ Start \/ ShowAll \/ OpenDialog \/ Escape \/ Jump \/ Pick \/ EnterText \/ Load \/ Save
     \/ \E key \in {"enter", "space", "y", "n", "m"} : Key(key)
     \/ LeaveRoot \/ LeaveAtOnce \/ Interrupt \/ AnswerYes \/ AnswerNo \/ AnswerEscape
  /\ Redraw

MenusSpec == MenusInit /\ [][MenusNext]_<<vars, menusVars>>
-------------------------------------------------------------------------------
(* Whoever leaves without being asked loses nothing: the file that is open says what   *)
(* would be written (conf_get_changed, in handle_exit and do_exit).                *)
QuietExitIsSaved ==
  left = "quiet" =>
    /\ files[name] # F!Absent
    /\ F!AsSet(F!Lines(F!ForWriting(Now))) = F!AsSet(files[name])

(* The items that show something else than what is.                               *)
Outdated(item, all) ==
  item.shown # None /\ C!Visible(all, item.entry).v /\ item.shown # all.cur[Menu[item.entry].sym]
Stale == \E all \in {CalcAll(Now, Symbols)} : \E i \in DOMAIN Items : Outdated(Items[i], all)

(* What is on the screen when a key is taken is how things are, also after dialogs,    *)
(* searches and other menus (build_conf, conf_choice); but see AllIsCurrent.        *)
ScreenIsCurrent == left = "no" /\ ~(Frontend = "nconf" /\ showAll) => ~Stale

(* ... and also when everything is shown, where nconf reads a value before it lets it   *)
(* be calculated.                                                              *)
AllIsCurrent == left = "no" => ~Stale

(* "you may use the <Load> button to restore your previously saved settings ... without *)
(* restarting": until something is changed, the values are those of a program that     *)
(* starts with the file.                                                       *)
LoadedAsStarted == left = "no" /\ loaded # <<>> => <<CalcAll(Now, Symbols).cur>> = loaded

(* "Press <ESC><ESC> to continue kernel configuration": Escape does not end it.      *)
EscapeContinues == [][AnswerEscape => left' = "no"]_<<vars, menusVars>>
=================================================================================
