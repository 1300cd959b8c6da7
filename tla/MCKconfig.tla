------------------------------- MODULE MCKconfig -------------------------------
(***************************************************************************)
(* Small instances of the parts of scripts/kconfig and scripts/basic: the      *)
(* preprocessor, the menu tree, expressions, the values of symbols, .config,     *)
(* the front ends, and the files of the build.  Each has its own state, so a     *)
(* behaviour is one of one of them: the part.  All but the expressions and the   *)
(* tree work on the settings of symbols, which are declared once.              *)
(***************************************************************************)
EXTENDS Integers, Sequences, TLC

VARIABLES
    part,
    st, accepted,
    source, result, other, done,
    nodes, kids, props, menu, revs, asRead, menuStage,
    pc, dot, old, tmp, runs,
    mode, stage, tasks, again, top, rounds, given,
    setup, stack, screen, showAll, unrolled, files, name, loaded, left, keys,
    config, stale, header, auto, syncPc, syncLeft, saw, newer, calm,
    variables, recorded, lines, results, failed

vars == <<st, accepted>>
simplifyVars == <<source, result, other, done>>
treeVars == <<nodes, kids, props, menu, revs, asRead, menuStage>>
fileVars == <<pc, dot, old, tmp, runs>>
confVars == <<mode, stage, tasks, again, top, rounds, given>>
menusVars == <<setup, stack, screen, showAll, unrolled, files, name, loaded, left, keys>>
syncVars == <<config, stale, header, auto, syncPc, syncLeft, saw, newer, calm>>
textVars == <<variables, recorded, lines, results, failed>>
languageVars == <<simplifyVars, treeVars, textVars>>
settingVars == <<vars, fileVars, confVars, menusVars>>
allVars == <<part, languageVars, settingVars, syncVars>>
-------------------------------------------------------------------------------
(* The symbols.  A depends on B, which comes after it; T is selected by A; P and *)
(* Q are a choice that depends on T; I has a range if A is y.                  *)
Symbols == {"A", "B", "T", "P", "Q", "I", "MODULES"}
States == {"n", "m", "y"}
Type == [s \in Symbols |->
    CASE s = "T" -> "tristate" [] s = "I" -> "int" [] OTHER -> "bool"]
Values == [s \in Symbols |->
    CASE s = "T" -> States [] s = "I" -> {"0", "1", "5"} [] OTHER -> {"n", "y"}]

Literals == {"0", "1", "5", "9"}
Strings == States \cup {"0", "1", "5", "9", "10"}
Rank == [s \in Strings |-> CHOOSE i \in 1..8 :
    <<"0", "1", "10", "5", "9", "m", "n", "y">>[i] = s]
NaN == -99
Number == [t \in {"int", "hex", "any"} |-> [s \in Strings |->
    CASE s = "0" -> 0 [] s = "1" -> 1 [] s = "5" -> 5 [] s = "9" -> 9
      [] s = "10" -> (IF t = "hex" THEN 16 ELSE 10)
      [] OTHER -> NaN]]

Terms == INSTANCE KconfigExpr
Null == Terms!Null
Sym(s) == Terms!Sym(s)
None == "unset"

Default(value) == <<[value |-> value, cond |-> Null]>>
Plain == [prompts |-> <<Null>>, defaults |-> <<>>, ranges |-> <<>>, dir |-> Null,
          rev |-> Null, implied |-> Null, trans |-> FALSE, choice |-> None]
Def == [s \in Symbols |->
    CASE s = "A" -> [Plain EXCEPT !.prompts = <<Sym("B")>>, !.dir = Sym("B")]
      [] s = "T" -> [Plain EXCEPT !.rev = Sym("A"), !.defaults = Default(Sym("m"))]
      [] s \in {"P", "Q"} -> [Plain EXCEPT !.choice = "c", !.prompts = <<Sym("T")>>]
      [] s = "I" -> [Plain EXCEPT !.prompts = <<Sym("Q")>>,
                        !.ranges = <<[low |-> "1", high |-> "5", cond |-> Sym("A")]>>,
                        !.defaults = Default(Sym("1"))]
      [] s = "MODULES" -> [Plain EXCEPT !.prompts = <<>>, !.defaults = Default(Sym("y"))]
      [] OTHER -> Plain]
Choices == "c" :> [members |-> <<"P", "Q">>, defaults |-> Default("Q")]

Unset == [s \in Symbols |-> None]
Saved == {Unset, [Unset EXCEPT !["T"] = "y", !["Q"] = "y"],
             [Unset EXCEPT !["B"] = "n", !["P"] = "y", !["Q"] = "n", !["T"] = "m"]}
Inputs == [s \in Symbols |->
    CASE s = "I" -> {"0", "5"} [] s \in {"A", "B"} -> {"n", "y"} [] OTHER -> States]

Of(f, some) == [s \in some |-> f[s]]
NoChoices == [c \in {} |-> None]
-------------------------------------------------------------------------------
(* Values, of few symbols at a time: what is selected or bound by a condition,    *)
(* what is chosen, and what is in a range.                                    *)
Selects == {"A", "B", "T", "MODULES"}
Selecting == INSTANCE KconfigSymbol WITH
    Symbols <- Selects, Type <- Of(Type, Selects), Values <- Of(Values, Selects),
    Def <- [Of(Def, Selects) EXCEPT !["T"].dir = Terms!Or(Sym("B"), Sym("MODULES")),
                                    !["T"].prompts = <<Sym("B")>>,
                                    !["MODULES"].prompts = <<Null>>],
    Choices <- NoChoices, Saved <- {Of(Unset, Selects)},
    Inputs <- [Of(Inputs, Selects) EXCEPT !["T"] = {"m"}]

Chooses == {"A", "P", "Q", "MODULES"}
Choosing == INSTANCE KconfigSymbol WITH
    Symbols <- Chooses, Type <- Of(Type, Chooses), Values <- Of(Values, Chooses),
    Def <- [Of(Def, Chooses) EXCEPT !["A"] = Plain, !["P"].prompts = <<Null>>,
                                    !["Q"].prompts = <<Sym("A")>>],
    Choices <- Choices, Saved <- {Of(Unset, Chooses)}, Inputs <- Of(Inputs, Chooses)

Ranges == {"A", "I", "MODULES"}
Ranging == INSTANCE KconfigSymbol WITH
    Symbols <- Ranges, Type <- Of(Type, Ranges), Values <- Of(Values, Ranges),
    Def <- [Of(Def, Ranges) EXCEPT !["A"] = Plain, !["I"].prompts = <<Null>>,
                                   !["I"].defaults = Default(Sym("9"))],
    Choices <- NoChoices, Saved <- {Of(Unset, Ranges)}, Inputs <- Of(Inputs, Ranges)

(* .config: a program that is started twice, and may be killed.                *)
FileSymbols == {"A", "P", "Q", "MODULES"}
File == INSTANCE KconfigFile WITH
    Symbols <- FileSymbols, Type <- Of(Type, FileSymbols), Values <- Of(Values, FileSymbols),
    Def <- [Of(Def, FileSymbols) EXCEPT !["A"] = Plain, !["P"].prompts = <<Sym("A")>>,
                                        !["Q"].prompts = <<Sym("A")>>],
    Saved <- {}, Inputs <- Of(Inputs, FileSymbols),
    MenuOrder <- <<"A", "P", "Q", "MODULES">>,
    Files <- {<<<<"absent", "">>>>, <<<<"A", "n">>, <<"Q", "y">>, <<"GONE", "y">>>>},
    MaxRuns <- 2

Entry(kind, s, cond, below) ==
    [kind |-> kind, sym |-> s, cond |-> cond,
     visibility |-> IF kind = "menu" THEN cond ELSE Null, kids |-> below]
Entries ==
    "root" :> Entry("menu", None, Null, <<"a", "m", "b", "t">>)
    @@ "a" :> Entry("symbol", "A", Sym("B"), <<>>) @@ "b" :> Entry("symbol", "B", Null, <<>>)
    @@ "m" :> Entry("menu", None, Sym("Q"), <<"i">>) @@ "i" :> Entry("symbol", "I", Sym("Q"), <<>>)
    @@ "t" :> Entry("menuconfig", "T", Null, <<"c">>)
    @@ "c" :> Entry("choice", None, Sym("T"), <<"p", "q">>)
    @@ "p" :> Entry("symbol", "P", Sym("T"), <<>>) @@ "q" :> Entry("symbol", "Q", Sym("T"), <<>>)

(* conf in all its modes.                                                     *)
Conf == INSTANCE KconfigConf WITH
    Menu <- [Entries EXCEPT !["t"].kind = "symbol"], Root <- "root",
    Modes <- {"oldaskconfig", "oldconfig", "listnewconfig", "allnoconfig", "allyesconfig",
              "allmodconfig", "alldefconfig", "randconfig", "olddefconfig",
              "yes2modconfig", "mod2yesconfig", "mod2noconfig"}

(* menuconfig and nconfig with two files; and menuconfig in a single menu, where a     *)
(* file is missing and SIGINT comes.                                           *)
Content == {<<<<"absent", "">>>>,
            <<<<"A", "n">>, <<"B", "y">>, <<"T", "m">>, <<"P", "y">>, <<"Q", "n">>, <<"I", "1">>,
              <<"MODULES", "y">>>>}
FewInputs == [s \in Symbols |-> IF s = "I" THEN {"0", "5"} ELSE {}]
Order == <<"A", "I", "B", "T", "P", "Q", "MODULES">>

Run(frontend) == [frontend |-> frontend, single |-> FALSE, absentees |-> {}, signals |-> FALSE]
Menus == INSTANCE KconfigMenus WITH
    Menu <- Entries, Root <- "root", MenuOrder <- Order, Inputs <- FewInputs,
    Setups <- {Run("mconf"), Run("nconf"), [frontend |-> "mconf", single |-> TRUE,
                                            absentees |-> {"none"}, signals |-> TRUE]},
    FileNames <- {".config", "alt"}, Content <- Content, MaxDepth <- 3, MaxKeys <- 6
-------------------------------------------------------------------------------
(* Expressions of a bool, a tristate and an int, up to three operators deep; and    *)
(* pairs of which the common part is taken away.                               *)
ExprTypes == [s \in {"B", "T", "I"} |->
    CASE s = "B" -> "bool" [] s = "T" -> "tristate" [] OTHER -> "int"]
ExprValues == [s \in {"B", "T", "I"} |->
    CASE s = "B" -> {"n", "y"} [] s = "T" -> States [] OTHER -> {"9", "10"}]

Comparisons ==
    {<<r, "T", s>> : r \in {"=", "!="}, s \in States}
    \cup {<<r, "B", s>> : r \in {"=", "!="}, s \in States}
    \cup {<<"<", "I", "10">>, <<"=", "T", "B">>}
Atoms == {Sym(s) : s \in {"B", "T", "y", "m", "n"}} \cup Comparisons
Literal == Atoms \cup {<<"not", e>> : e \in Atoms}
Small == {Sym("B"), Sym("T"), Sym("m"), <<"not", Sym("B")>>,
          <<"=", "T", "m">>, <<"!=", "T", "m">>, <<"!=", "T", "n">>}
Combined(some, more) == {<<o, d, e>> : o \in {"and", "or"}, d \in some, e \in more}

Pairs == Small \cup Combined(Small, Small)
Long == Literal \cup Combined(Literal, Literal) \cup Combined(Small, Combined(Small, Small))
        \cup {<<"not", e>> : e \in Pairs}
ExprEnvs == {env \in [{"B", "T", "I", "junk"} -> States \cup {"9", "10"}] :
    env["junk"] \in States /\ \A s \in {"B", "T", "I"} : env[s] \in ExprValues[s]}

Simplify == INSTANCE KconfigMenu WITH
    Symbols <- {"B", "T", "I"}, Type <- ExprTypes, Values <- ExprValues, Envs <- ExprEnvs,
    Literals <- {"9", "10"}, Leaves <- {}, Exprs <- Long,
    Deps <- {}, Prompts <- {}, Selects <- {}, Visibles <- {}, MaxEntries <- 0, stage <- menuStage
Rests == INSTANCE KconfigMenu WITH
    Symbols <- {"B", "T", "I"}, Type <- ExprTypes, Values <- ExprValues, Envs <- ExprEnvs,
    Literals <- {"9", "10"}, Leaves <- Pairs, Exprs <- Pairs,
    Deps <- {}, Prompts <- {}, Selects <- {}, Visibles <- {}, MaxEntries <- 0, stage <- menuStage

(* Two entries of any kind with any dependencies, and three with few.          *)
TreeTypes == [s \in {"A", "T", "MODULES"} |-> IF s = "T" THEN "tristate" ELSE "bool"]
TreeValues == [s \in {"A", "T", "MODULES"} |-> IF s = "T" THEN States ELSE {"n", "y"}]
TreeEnvs == {env \in [{"A", "T", "MODULES", "junk"} -> States] :
    \A s \in {"A", "MODULES"} : env[s] # "m"}

Tree == INSTANCE KconfigMenu WITH
    Symbols <- {"A", "T", "MODULES"}, Type <- TreeTypes, Values <- TreeValues,
    Literals <- {}, Envs <- TreeEnvs,
    Deps <- {Null, Sym("A"), Sym("m"), <<"or", Sym("A"), Sym("T")>>},
    Prompts <- {"none", <<"if", Null>>, <<"if", Sym("T")>>}, Selects <- {"none", "T"},
    Visibles <- {Null, Sym("A")}, MaxEntries <- 2,
    Leaves <- {}, Exprs <- {}, stage <- menuStage
Deep == INSTANCE KconfigMenu WITH
    Symbols <- {"A", "T", "MODULES"}, Type <- TreeTypes, Values <- TreeValues,
    Literals <- {}, Envs <- TreeEnvs,
    Deps <- {Null, Sym("A")},
    Prompts <- {"none", <<"if", Null>>}, Selects <- {"none"},
    Visibles <- {Null}, MaxEntries <- 3,
    Leaves <- {}, Exprs <- {}, stage <- menuStage

(* Two options, one of which is also named in a way fixdep must look at twice, and *)
(* two objects.                                                               *)
Mentioned(w) == [lead |-> FALSE, name |-> w]
Sync == INSTANCE KconfigSync WITH
    Symbols <- {"A", "X"}, Type <- [A |-> "tristate", X |-> "hex"],
    Values <- [A |-> {"m", "y", "unwritten"}, X |-> {"1f", "0x1f"}],
    Objects <- {"a.o", "b.o"},
    Includes <- "a.o" :> {"a.c", "h.h", "gen_autoconf.h"}
                @@ "b.o" :> {"b.c", "lib.so", "gen_autoconf.h"},
    Depfile <- "a.o" :> <<"a.o", "colon", "a.c", "continue", "gen_autoconf.h", "h.h", "h.h", "newline">>
               @@ "b.o" :> <<"comment", "x", "continue", "newline", "b.o", "colon", "b.c",
                             "gen_autoconf.h", "newline", "lib.so", "colon", "newline">>,
    Words <- "a.c" :> <<>> @@ "b.c" :> <<[lead |-> TRUE, name |-> "A"], Mentioned("X")>>
             @@ "h.h" :> <<Mentioned("A")>> @@ "lib.so" :> <<>> @@ "gen_autoconf.h" :> <<>>,
    Header <- "gen_autoconf.h", Ignored <- "autoconf.h", Binary <- {"lib.so"}, Interrupts <- TRUE,
    pc <- syncPc, left <- syncLeft

(* Two variables, two names of the environment, three lines.                   *)
W(w) == <<"word", w>>
Ref(n) == <<"ref", <<<<W(n)>>>>>>
Calling(f, args) == <<"ref", <<<<W(f)>>>> \o args>>
Preprocess == INSTANCE KconfigPreprocess WITH
    Names <- {"A", "B"},
    Texts <- [A |-> {<<W("w")>>, <<Ref("B"), Ref("CC")>>, <<Ref("1")>>},
              B |-> {<<Ref("A")>>, <<Ref("B")>>, <<Ref("LD")>>}],
    Uses <- {<<Ref("B")>>, <<Calling("A", <<<<Ref("CC")>>>>)>>, <<Calling("shell", <<<<Ref("A")>>>>)>>,
             <<Calling("error-if", <<<<Ref("B")>>, <<>>>>)>>},
    Env <- [n \in {"CC", "LD"} |-> "y"], OtherEnv <- [n \in {"CC", "LD"} |-> "n"],
    Output <- [w \in {"y", "n", "w", "freed"} |-> w], MaxDepth <- 2, MaxLines <- 3
-------------------------------------------------------------------------------
ASSUME KconfigAssumption ==
    Terms!ExprAssumption /\ Simplify!MenuAssumption /\ Tree!MenuAssumption

LanguageInit ==
    /\ CASE part = "simplify" -> Simplify!ExprInit
         [] part = "rests" -> Rests!ExprInit
         [] OTHER -> source = Null /\ result = Null /\ other = <<Null, Null>> /\ done = <<"read">>
    /\ Tree!Init
    /\ Preprocess!Init

SettingInit ==
    /\ CASE part = "file" -> File!FileInit
         [] OTHER -> pc = "start" /\ dot = <<>> /\ old = <<>> /\ tmp = <<>> /\ runs = 0
    /\ CASE part = "conf" -> Conf!ConfInit
         [] OTHER -> /\ mode = None /\ stage = "set" /\ tasks = <<>> /\ again = FALSE
                     /\ top = None /\ rounds = 0 /\ given = <<>>
    /\ CASE part = "menus" -> Menus!MenusInit
         [] OTHER -> /\ setup = None /\ stack = <<>> /\ screen = <<>> /\ showAll = FALSE /\ unrolled = {}
                     /\ files = <<>> /\ name = None /\ loaded = <<>> /\ left = "no" /\ keys = 0
    /\ CASE part = "select" -> Selecting!Init
         [] part = "choice" -> Choosing!Init
         [] part = "range" -> Ranging!Init
         [] part \in {"file", "conf", "menus"} -> TRUE
         [] OTHER -> st = <<>> /\ accepted = <<>>

KconfigInit ==
    /\ part \in {"simplify", "rests", "tree", "deep", "preprocess", "select", "choice", "range",
                 "file", "conf", "menus", "sync"}
    /\ LanguageInit
    /\ SettingInit
    /\ Sync!Init /\ (part # "sync" => config = [A |-> "m", X |-> "1f"])

Simplifying == /\ \/ part = "simplify" /\ Simplify!ExprNext
                  \/ part = "rests" /\ Rests!ExprNext
               /\ UNCHANGED <<part, treeVars, textVars, settingVars, syncVars>>
Building == /\ \/ part = "tree" /\ Tree!Next
               \/ part = "deep" /\ Deep!Next
            /\ UNCHANGED <<part, simplifyVars, textVars, settingVars, syncVars>>
Preprocessing == /\ part = "preprocess" /\ Preprocess!Next
                 /\ UNCHANGED <<part, simplifyVars, treeVars, settingVars, syncVars>>

Setting == /\ \/ part = "select" /\ Selecting!Next
              \/ part = "choice" /\ Choosing!Next
              \/ part = "range" /\ Ranging!Next
           /\ UNCHANGED <<part, languageVars, fileVars, confVars, menusVars, syncVars>>
Filing == /\ part = "file" /\ File!FileNext
          /\ UNCHANGED <<part, languageVars, confVars, menusVars, syncVars>>
Asking == /\ part = "conf" /\ Conf!ConfNext
          /\ UNCHANGED <<part, languageVars, fileVars, menusVars, syncVars>>

Browsing == /\ part = "menus" /\ Menus!MenusNext
            /\ UNCHANGED <<part, languageVars, fileVars, confVars, syncVars>>

Syncing == part = "sync" /\ Sync!Next /\ UNCHANGED <<part, languageVars, settingVars>>

KconfigNext ==
    \/ Simplifying \/ Building \/ Preprocessing
    \/ Setting \/ Filing \/ Asking \/ Browsing \/ Syncing

KconfigSpec == KconfigInit /\ [][KconfigNext]_allVars
-------------------------------------------------------------------------------
(* Simplifying an expression keeps its value: the transformation, the removal of   *)
(* what is there twice, and printing and reading it again (expr_transform,          *)
(* expr_eliminate_dups, expr_print), except where a bool is compared with "!= y"       *)
(* (expr.c:649); a comparison with n or y is exact where nothing is m, and one of a    *)
(* symbol or a comparison with m always (expr_trans_compare); and what is left of two  *)
(* expressions when the common part is gone still tells them apart                    *)
(* (expr_eliminate_eq).                                                          *)
ExpressionsKeepValue ==
    /\ part = "simplify" => /\ Simplify!ValueIsKept /\ Simplify!ComparisonIsExact
                            /\ Simplify!DependsIsNecessary
    /\ part = "rests" => Rests!ValueIsKept /\ Rests!RestsTellApart

(* menu_finalize moves entries without losing one or changing their order, and      *)
(* gives each exactly the dependencies that are written around it; and an entry      *)
(* that can be set is not hidden below one that is off.                          *)
TreeIsAsWritten ==
    /\ part = "tree" => Tree!OrderIsKept /\ Tree!DependenciesAreExact /\ Tree!NothingIsHidden
    /\ part = "deep" => Deep!OrderIsKept /\ Deep!DependenciesAreExact /\ Deep!NothingIsHidden

(* Whatever was asked for or set before, and in whatever order, a value that is kept   *)
(* is the one that would be calculated now; a setting that is accepted is in force;     *)
(* and select, choice and range are obeyed (sym_calc_value, sym_set_string_value,       *)
(* sym_clear_all_valid).                                                         *)
ValuesAreRight ==
    /\ part = "select" =>
         Selecting!KeptIsFresh /\ Selecting!AcceptedHolds /\ Selecting!ValuesAreLawful
    /\ part = "choice" =>
         Choosing!KeptIsFresh /\ Choosing!AcceptedHolds /\ Choosing!ValuesAreLawful
    /\ part = "range" =>
         Ranging!KeptIsFresh /\ Ranging!AcceptedHolds /\ Ranging!ValuesAreLawful

(* What is written is what is read again: where conf_changed is off, .config says what   *)
(* is set; a minimal configuration brings back all values; a string is quoted so that    *)
(* it is read as it was (conf_write, conf_write_defconfig, conf_read,                    *)
(* escape_string_value).                                                          *)
FilesKeepSettings ==
    part = "file" =>
        File!FileTypeOK /\ File!QuietMeansSaved /\ File!DefconfigRestores /\ File!WrittenIsRead

(* An object make takes for current was compiled with the options .config has, also if     *)
(* syncconfig was interrupted (conf_write_autoconf, conf_touch_deps, fixdep); and the      *)
(* Kconfig files are read again when a variable of the environment they used changes,      *)
(* whichever way it was used, and a variable that needs itself is reported              *)
(* (env_expand, eval_clause, variable_expand).                                      *)
BuildIsCurrent ==
    /\ part = "sync" => Sync!CurrentIsRight /\ Sync!TouchesAreEnough
    /\ part = "preprocess" =>
         /\ Preprocess!CyclesAreReported /\ Preprocess!EnvironmentIsRecorded
         /\ Preprocess!SimpleIsExpanded

(* conf asks for all that is new and keeps what was given (conf.c); menuconfig and          *)
(* nconfig show what is set, restore what a file says, and do not end without a question     *)
(* while something is not saved (mconf.c, nconf.c); the last not where a file to load is      *)
(* missing.                                                                       *)
FrontEndsAreTrue ==
    /\ part = "conf" => Conf!NewIsSettled /\ Conf!GivenIsKept /\ Conf!RoundsAreFew
    /\ part = "menus" =>
         /\ Menus!ScreenIsCurrent /\ Menus!LoadedAsStarted
         /\ setup.absentees = {} => Menus!QuietExitIsSaved
===============================================================================
