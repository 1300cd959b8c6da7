------------------------------ MODULE KconfigMenu ------------------------------
(***************************************************************************)
(* From the statements of Kconfig files to the menu tree (scripts/kconfig/     *)
(* parser.y and menu.c).  The statements come in any order the grammar admits; *)
(* then menu_finalize hands the dependencies of each entry down to what is     *)
(* below it, puts entries that depend on the symbol before them into a menu    *)
(* below it, and takes away the levels of if blocks.                          *)
(*                                                                         *)
(* Entries are numbered in the order they are read; 1 is rootmenu.            *)
(*                                                                         *)
(* What menu_finalize does to a dependency is also a machine of its own, call   *)
(* by call with expr.c: a behaviour takes one expression through the calls,     *)
(* and no call may change what it says.                                      *)
(***************************************************************************)
EXTENDS KconfigExpr

Seqs == INSTANCE SequencesExt

CONSTANTS
  Envs,        (* AllEnvs: all values the symbols may have                      *)
  Deps,        (* the expressions of "depends on" and "if"                     *)
  Prompts,     (* the conditions a prompt may have                            *)
  Selects,     (* what a config may select: symbols, or "none"                *)
  Visibles,    (* the expressions of "visible if"                             *)
  MaxEntries,  (* entries below rootmenu                                      *)
  Leaves,      (* the expressions others are compared with                     *)
  Exprs        (* the expressions to start with                               *)

(* What the constants are; assumed by the module that instantiates this one. *)
MenuAssumption == ExprAssumption /\ Envs = AllEnvs

NoSym == "none"

VARIABLES
  nodes,     (* [kind, sym, parent, dep, visibility] of each entry             *)
  kids,      (* the list of each entry                                        *)
  props,     (* the properties, in the order they are added                   *)
  menu,      (* current_menu                                                 *)
  revs,      (* [dir, rev, implied] of each symbol                            *)
  asRead,    (* nodes, kids and props before menu_finalize                    *)
  stage,     (* "reading", "finalized", "rejected"                            *)
  source,    (* the expression the last call was given                        *)
  result,    (* what it returned                                             *)
  other,     (* the second expression of expr_eliminate_eq, before and after   *)
  done       (* the calls made so far                                        *)

vars == <<nodes, kids, props, menu, revs, asRead, stage>>
exprVars == <<source, result, other, done>>

Root == [kind |-> "menu", sym |-> NoSym, parent |-> 0, dep |-> Null, visibility |-> Null]
Nothing == [dir |-> Null, rev |-> Null, implied |-> Null]
Elements(seq) == {seq[i] : i \in DOMAIN seq}

Init ==
  /\ nodes = <<Root>>
  /\ kids = <<<<>>>>
  /\ props = <<[type |-> "prompt", menu |-> 1, target |-> NoSym, cond |-> Null]>>
  /\ menu = 1
  /\ revs = [s \in Symbols |-> Nothing]
  /\ asRead = <<>>
  /\ stage = "reading"
-------------------------------------------------------------------------------
Entry == Len(nodes) + 1
InChoice == nodes[menu].kind = "choice" \/ \E m \in Elements(nodes) :
              m.kind = "choice" /\ nodes[menu].kind = "if" /\ nodes[nodes[menu].parent] = m

(* menu_add_entry, with its "depends on" and "visible if".                     *)
AddEntry(kind, sym, dep, visibility) ==
  /\ stage = "reading"
  /\ Len(nodes) <= MaxEntries
  /\ nodes' = Append(nodes, [kind |-> kind, sym |-> sym, parent |-> menu, dep |-> dep,
                             visibility |-> visibility])
  /\ kids' = Append([kids EXCEPT ![menu] = Append(@, Entry)], <<>>)

Property(type, target, cond) ==
  [type |-> type, menu |-> Entry, target |-> target, cond |-> cond]

(* menu_add_prompt: a prompt takes the visibility of every menu above.         *)
RECURSIVE UnderVisibility(_, _)
UnderVisibility(cond, m) ==
  IF m = 0 THEN cond
  ELSE UnderVisibility(And(cond, nodes[m].visibility), nodes[m].parent)

Prompted(cond) == <<Property("prompt", NoSym, UnderVisibility(cond, menu))>>

(* config: with a prompt or without, with a select or without.                *)
Config(sym, dep, prompt, select) ==
  /\ InChoice => Type[sym] = "bool" /\ prompt # "none"
  /\ AddEntry("config", sym, dep, Null)
  /\ props' = props
       \o (IF prompt = "none" THEN <<>> ELSE Prompted(prompt[2]))
       \o (IF select = NoSym THEN <<>> ELSE <<Property("select", select, Null)>>)
  /\ UNCHANGED <<menu, revs, asRead, stage>>

Comment(dep) ==
  /\ AddEntry("comment", NoSym, dep, Null)
  /\ props' = Append(props, Property("comment", NoSym, Null))
  /\ UNCHANGED <<menu, revs, asRead, stage>>

(* choice, if and menu start a list of their own: menu_add_menu.               *)
Choice(cond) ==
  /\ ~InChoice
  /\ AddEntry("choice", "choice", Null, Null)
  /\ props' = props \o Prompted(cond)
  /\ menu' = Entry
  /\ UNCHANGED <<revs, asRead, stage>>

If(dep) ==
  /\ AddEntry("if", NoSym, dep, Null)
  /\ menu' = Entry
  /\ UNCHANGED <<props, revs, asRead, stage>>

Menu(dep, visibility) ==
  /\ ~InChoice
  /\ AddEntry("menu", NoSym, dep, visibility)
  /\ props' = Append(props, Property("menu", NoSym, Null))
  /\ menu' = Entry
  /\ UNCHANGED <<revs, asRead, stage>>

(* endchoice, endif and endmenu: menu_end_menu.                               *)
End ==
  /\ stage = "reading"
  /\ menu # 1
  /\ menu' = nodes[menu].parent
  /\ UNCHANGED <<nodes, kids, props, revs, asRead, stage>>
-------------------------------------------------------------------------------
(* The tree while menu_finalize works on it: [nodes, kids, props, revs].       *)
PromptOf(t, m) ==
  LET own == {i \in DOMAIN t.props :
                t.props[i].menu = m /\ t.props[i].type \in {"prompt", "menu", "comment"}}
  IN IF own = {} THEN 0 ELSE CHOOSE i \in own : \A j \in own : j <= i

CondOf(t, m) == t.props[PromptOf(t, m)].cond

(* rewrite_m                                                                 *)
RECURSIVE RewriteM(_)
RewriteM(e) ==
  CASE e[1] = "not" -> <<"not", RewriteM(e[2])>>
    [] e[1] \in {"and", "or"} -> <<e[1], RewriteM(e[2]), RewriteM(e[3])>>
    [] e = Sym("m") -> And(e, Sym("MODULES"))
    [] OTHER -> e

(* A slip: the condition of a property does not get the dependencies. *)
BelowNothing(dep, e) == EliminateDups(Transform(RewriteM(e)))

Below(dep, e) == EliminateDups(And(dep, Transform(RewriteM(e))))

(* The dependencies of p go to the entries in its list and to their properties; *)
(* a select adds to what selects its target.                                  *)
Child(t, p, m) == m \in Elements(t.kids[p])
BelowAll(t, p) ==
  [t EXCEPT !.nodes = [m \in DOMAIN @ |->
     IF Child(t, p, m) THEN [@[m] EXCEPT !.dep = Below(t.nodes[p].dep, @)] ELSE @[m]]]

CondsBelow(t, p) ==
  [t EXCEPT !.props = [i \in DOMAIN @ |->
     IF Child(t, p, @[i].menu)
     THEN [@[i] EXCEPT !.cond = Below(t.nodes[t.props[i].menu].dep, @)] ELSE @[i]]]

WithSelects(t, p) ==
  LET AddSelect(all, q) ==
        IF q.type # "select" \/ ~Child(t, p, q.menu) THEN all
        ELSE [all EXCEPT ![q.target].rev = Or(@, And(Sym(t.nodes[q.menu].sym), q.cond))]
  IN [t EXCEPT !.revs = Seqs!FoldLeft(AddSelect, @, t.props)]

Propagate(t, p) == WithSelects(CondsBelow(BelowAll(t, p), p), p)

(* A slip: what mentions the symbol is put below it. *)
BelongsLoosely(t, p, m) ==
  Contains(IF PromptOf(t, m) # 0 THEN CondOf(t, m) ELSE t.nodes[m].dep, t.nodes[p].sym)

(* Whether menu is put below the symbol of p, whose prompt needs basedep.      *)
DepOf(t, m, none) == IF PromptOf(t, m) # 0 THEN CondOf(t, m) ELSE none
IsOn(e) == EliminateDups(Transform(TransCompare(e, "!=", "n")))
Superset(dep, basedep) == EliminateEq(IsOn(dep), IsOn(basedep))[2] \in {Null, Sym("y")}
Needed(dep, sym, basedep) ==
  Contains(dep, sym) /\ (Depends(dep, sym) \/ Superset(dep, basedep))

Belongs(t, p, m) ==
  Needed(DepOf(t, m, t.nodes[m].dep), t.nodes[p].sym, DepOf(t, p, Null))

IndexOf(seq, x) == CHOOSE i \in DOMAIN seq : seq[i] = x

(* A slip: what was in the block goes to the end of the list. *)
FlattenToEnd(t, p, i) ==
  LET bare == {m \in Elements(t.kids[p]) : PromptOf(t, m) = 0}
      lifted == UNION {Elements(t.kids[m]) : m \in bare}
  IN [t EXCEPT !.kids = [m \in DOMAIN @ |->
         IF m \in bare THEN <<>>
         ELSE IF m = p THEN t.kids[m] \o Seqs!SetToSeq(lifted) ELSE t.kids[m]]]

(* Levels without a prompt are taken away.                                   *)
RECURSIVE Flatten(_, _, _)
Flatten(t, p, i) ==
  IF i > Len(t.kids[p]) THEN t
  ELSE
    LET m == t.kids[p][i]
        lifted == t.kids[m]
    IN IF lifted = <<>> \/ PromptOf(t, m) # 0 THEN Flatten(t, p, i + 1)
       ELSE Flatten(
              [t EXCEPT !.kids[p] = SubSeq(@, 1, i) \o lifted \o SubSeq(@, i + 1, Len(@)),
                        !.kids[m] = <<>>,
                        !.nodes = [n \in DOMAIN @ |->
                                     IF n \in Elements(lifted)
                                     THEN [t.nodes[n] EXCEPT !.parent = p]
                                     ELSE t.nodes[n]]],
              p, i + 1)

(* _menu_finalize, and its two loops over entries.                            *)
RECURSIVE Finalize(_, _, _)
RECURSIVE FinalizeList(_, _, _)
RECURSIVE Absorb(_, _, _)

FinalizeList(t, p, i) ==
  IF i > Len(t.kids[p]) THEN t
  ELSE FinalizeList(Finalize(t, t.kids[p][i], t.nodes[p].kind = "choice"), p, i + 1)

(* The entries after those in got, which follow p, as long as they belong there. *)
Taken(t, p, m) == [Finalize(t, m, FALSE) EXCEPT !.nodes[m].parent = p]
Absorb(t, p, got) ==
  LET above == t.nodes[p].parent
      i == IndexOf(t.kids[above], IF got = <<>> THEN p ELSE got[Len(got)])
      m == t.kids[above][i + 1]
  IN IF i < Len(t.kids[above]) /\ Belongs(t, p, m)
     THEN Absorb(Taken(t, p, m), p, Append(got, m))
     ELSE [t EXCEPT !.kids[above] = SelectSeq(@, LAMBDA n : n \notin Elements(got)),
                    !.kids[p] = got]

Finalize(t, p, inside) ==
  LET sym == t.nodes[p].sym
  IN Flatten(CASE t.kids[p] # <<>> -> FinalizeList(Propagate(t, p), p, 1)
               [] sym \in Symbols /\ ~inside ->
                    [Absorb(t, p, <<>>) EXCEPT !.revs[sym].dir = Or(@, t.nodes[p].dep)]
               [] OTHER -> t,
             p, 1)

(* sym_check_deps: what the value of a symbol depends on, where the members of a *)
(* choice depend on one another.                                             *)
Needs(t, s) ==
  LET entries == {m \in DOMAIN t.nodes : t.nodes[m].sym = s}
      conds == {t.revs[s].dir, t.revs[s].rev, t.revs[s].implied}
                 \cup {q.cond : q \in {r \in Elements(t.props) :
                                       r.menu \in entries /\ r.type # "select"}}
  IN {u \in Symbols : \E e \in conds : Contains(e, u)}

Members(t, m) == {t.nodes[k].sym : k \in Elements(t.kids[m])} \cap Symbols

Together(t, s) ==
  {s} \cup UNION {Members(t, m) : m \in {n \in DOMAIN t.nodes :
                     t.nodes[n].kind = "choice" /\ s \in Members(t, n)}}

Recursive(t) ==
  \E some \in SUBSET Symbols \ {{}} :
    \A s \in some : \E u \in Together(t, s) : \E v \in some : v \in Needs(t, u)

FinalizeAll ==
  /\ stage = "reading"
  /\ menu = 1
  /\ asRead' = [nodes |-> nodes, kids |-> kids, props |-> props]
  /\ \E t \in {Finalize([nodes |-> nodes, kids |-> kids, props |-> props, revs |-> revs],
                        1, FALSE)} :
       /\ nodes' = t.nodes /\ kids' = t.kids /\ props' = t.props /\ revs' = t.revs
       /\ stage' = IF Recursive(t) THEN "rejected" ELSE "finalized"
  /\ UNCHANGED menu

Next ==
  \/ \E s \in Symbols, d \in Deps, p \in Prompts, t \in Selects : Config(s, d, p, t)
  \/ \E d \in Deps : Comment(d) \/ If(d) \/ \E v \in Visibles : Menu(d, v)
  \/ Choice(Null)
  \/ End \/ FinalizeAll

Spec == Init /\ [][Next]_vars
-------------------------------------------------------------------------------
ExprInit ==
  /\ source \in Exprs
  /\ result = source
  /\ other = <<Null, Null>>
  /\ done = <<"read">>

Call(name, value) ==
  /\ source' = result
  /\ result' = value
  /\ done' = Append(done, name)

(* menu_finalize: transform, then remove what is there twice ...               *)
TransformStep ==
  /\ done \in {<<"read">>, <<"read", "compare">>}
  /\ Call("transform", Transform(result))
  /\ UNCHANGED other

DupsStep ==
  /\ done[Len(done)] = "transform"
  /\ Call("dups", EliminateDups(result))
  /\ UNCHANGED other

(* ... for what a menu is compared with to find those below it, and for the       *)
(* condition of a default, compare with n first; y and m are for nobody yet.      *)
CompareStep(relation, state) ==
  /\ done = <<"read">>
  /\ source' = <<relation, state, result>>
  /\ result' = TransCompare(result, relation, state)
  /\ done' = <<"read", "compare">>
  /\ UNCHANGED other

(* ... and take out what two dependencies have in common.                     *)
EqStep(e) ==
  /\ done[Len(done)] = "dups"
  /\ \E rest \in {EliminateEq(result, e)} :
       /\ Call("eq", rest[1])
       /\ other' = <<e, rest[2]>>

(* expr_print for the help text and the warnings.                            *)
PrintStep ==
  /\ done = <<"read">>
  /\ Call("print", ParseOr(Printed(result, "none"))[1])
  /\ UNCHANGED other

ExprNext ==
  \/ TransformStep \/ DupsStep \/ PrintStep
  \/ \E relation \in {"=", "!="}, state \in States : CompareStep(relation, state)
  \/ \E e \in Leaves : EqStep(e)

ExprSpec == ExprInit /\ [][ExprNext]_exprVars
-------------------------------------------------------------------------------
Done == stage = "finalized"
Tree == [nodes |-> nodes, kids |-> kids, props |-> props]

(* A slip: an entry that is off hides what is below it. *)
IsVisibleItself(t, m, env) ==
  PromptOf(t, m) # 0 /\ Value(t.nodes[m].visibility, env) # 0 /\ Value(CondOf(t, m), env) # 0

(* menu_is_visible, where the symbols have the values of env.                  *)
RECURSIVE IsVisible(_, _, _)
IsVisible(t, m, env) ==
  /\ PromptOf(t, m) # 0
  /\ Value(t.nodes[m].visibility, env) # 0
  /\ \/ Value(CondOf(t, m), env) # 0
     \/ /\ t.nodes[m].sym \in Symbols
        /\ TriOf(t.nodes[m].sym, env) # 0
        /\ \E k \in Elements(t.kids[m]) : IsVisible(t, k, env)

(* The entries in the order they are shown, from the list of m on.             *)
RECURSIVE Walk(_, _)
Walk(t, m) == <<m>> \o Seqs!FlattenSeq([i \in DOMAIN t.kids[m] |-> Walk(t, t.kids[m][i])])

(* What the files say: the entry's own expression, under those around it.      *)
RECURSIVE Stated(_, _, _)
Stated(m, e, env) ==
  LET own == Value(RewriteM(e), env) IN
    IF m = 0 THEN own
    ELSE Lower(own, Stated(asRead.nodes[m].parent, asRead.nodes[m].dep, env))

RECURSIVE Above(_)
Above(m) == IF nodes[m].parent = 0 THEN {} ELSE {nodes[m].parent} \cup Above(nodes[m].parent)

(* Types of the state; removing common parts never leaves an empty expression. *)
TypeOK ==
  /\ Len(done) \in 1..5 /\ result # <<>> /\ other[2] # <<>>
  /\ Len(nodes) = Len(kids) /\ Len(nodes) <= MaxEntries + 1
  /\ menu \in DOMAIN nodes /\ stage \in {"reading", "finalized", "rejected"}
  /\ \A m \in DOMAIN nodes : Elements(kids[m]) \subseteq DOMAIN nodes

(* menu_finalize: each entry is in the tree once, in the order of the files, and *)
(* knows the entry it is below.                                              *)
OrderIsKept ==
  Done =>
    /\ Walk(Tree, 1) = [m \in DOMAIN nodes |-> m]
    /\ \A m \in DOMAIN nodes : \A k \in Elements(kids[m]) : nodes[k].parent = m

(* menu_finalize: whatever the symbols' values, a property holds if its own       *)
(* condition and those of all blocks around it do, a symbol may be on if one of   *)
(* its entries may, and it is selected if a symbol is on whose select holds.      *)
DependenciesAreExact ==
  Done =>
    \A env \in Envs :
      /\ \A i \in DOMAIN props :
           Value(props[i].cond, env) = Stated(props[i].menu, asRead.props[i].cond, env)
      /\ \A s \in Symbols :
           LET Best(values) == IF values = {} THEN -1
                               ELSE CHOOSE v \in values : \A w \in values : w <= v
               entries == {m \in DOMAIN nodes : /\ nodes[m].sym = s
                                                /\ asRead.nodes[asRead.nodes[m].parent].kind
                                                     # "choice"}
               selects == {i \in DOMAIN props : props[i].type = "select" /\ props[i].target = s}
           IN /\ entries # {} /\ Null \notin {nodes[m].dep : m \in entries} =>
                   Value(revs[s].dir, env) = Best({Stated(m, Null, env) : m \in entries})
              /\ (IF revs[s].rev = Null THEN -1 ELSE Value(revs[s].rev, env)) =
                   Best({Lower(TriOf(nodes[props[i].menu].sym, env),
                               Stated(props[i].menu, asRead.props[i].cond, env)) : i \in selects})

(* menu_finalize and menu_is_visible: an option that can be changed is never in a *)
(* menu that is not shown.                                                   *)
NothingIsHidden ==
  Done =>
    \A env \in Envs : \A i \in DOMAIN props :
      props[i].type = "prompt" /\ Value(props[i].cond, env) # 0 =>
        \A m \in Above(props[i].menu) \ {1} : IsVisible(Tree, m, env)

Last == done[Len(done)]
SameValue(d, e) == \A env \in Envs : Value(d, env) = Value(e, env)

(* e says of a bool that it is not y: expr_transform takes the symbol for an      *)
(* expression (expr.c:649), and what it makes of it is undefined.                *)
RECURSIVE Misread(_)
Misread(e) ==
  CASE e[1] \in {"and", "or"} -> Misread(e[2]) \/ Misread(e[3])
    [] e[1] = "not" -> Misread(e[2])
    [] OTHER -> e[1] = "junk" \/ (e[1] = "!=" /\ IsBool(e[2]) /\ e[3] = "y")

(* Simplifying an expression, or printing it and reading it back, does not      *)
(* change its value under any values of the symbols (expr_transform,            *)
(* expr_eliminate_dups, expr_print).  The one exception is a bool compared with   *)
(* "!= y", where expr_transform does not what its comment says, A!=y -> !A.       *)
ValueIsKept ==
  Last \in {"transform", "dups", "print"} =>
    SameValue(source, result) \/ (Last # "print" /\ Misread(source))

(* expr_trans_compare: where nothing is m, the result of a comparison with n or y *)
(* holds if the expression is, or is not, that.  (With m it need not: !A != n       *)
(* becomes A=n.)  A comparison with m is exact, also where something is m, for a     *)
(* symbol and for a comparison; of other expressions it makes what is not asked for  *)
(* by any caller: an and or an or stays as it is.                                *)
ComparisonIsExact ==
  Last = "compare" =>
    LET relation == source[1]
        state == source[2]
        e == source[3]
        Exact(env) ==
          Value(result, env) = IF (Value(e, env) = Tri(state)) = (relation = "=") THEN 2 ELSE 0
    IN IF state = "m"
       THEN e[1] \in Relations \cup {"sym"} => \A env \in Envs : Exact(env)
       ELSE ~Contains(e, "m") =>
              \A env \in {v \in Envs : \A s \in Symbols : v[s] # "m"} : Exact(env)

(* Expressions that expr_eq calls equal are, and if what expr_eliminate_eq       *)
(* leaves of two has the same value they had the same before.                 *)
RestsTellApart ==
  Last = "eq" =>
    /\ Equal(source, other[1]) => SameValue(source, other[1])
    /\ \A env \in Envs :
         Value(result, env) = Value(other[2], env) =>
           Value(source, env) = Value(other[1], env)

(* expr_depends_symbol: what depends on a symbol is n whenever the symbol is,    *)
(* so that menu_finalize may put it below the symbol.                         *)
DependsIsNecessary ==
  Last = "dups" =>
    \A s \in Symbols :
      TypeOf(s) \in {"bool", "tristate"} /\ Depends(result, s) =>
        /\ Contains(result, s)
        /\ \A env \in Envs : env[s] = "n" => Value(result, env) = 0
=================================================================================
