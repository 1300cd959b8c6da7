----------------------------- MODULE KconfigSymbol -----------------------------
(***************************************************************************)
(* The values of config symbols (scripts/kconfig/symbol.c and expr.c).  A     *)
(* value is calculated when it is asked for, together with those it needs, and *)
(* kept until sym_clear_all_valid; expressions keep theirs as well.  Between   *)
(* questions the user sets values, in any order.                             *)
(***************************************************************************)
EXTENDS KconfigExpr, TLC

Seqs == INSTANCE SequencesExt

CONSTANTS
  Def,       (* [Symbols -> [prompts, defaults, ranges, dir, rev, implied,       *)
             (*              trans, choice]], as menu_finalize leaves them      *)
  Choices,   (* [names of choices -> [members, defaults]]                       *)
  Saved,     (* the settings to start with: [Symbols -> a value or None]         *)
  Inputs     (* [Symbols -> what the user may set it to]                        *)

None == "unset"
Modules == "MODULES"

VARIABLES
  st,        (* everything kept about the symbols, see Blank                    *)
  accepted   (* the last setting: <<symbol, value>> if it was accepted, or <<>>  *)

vars == <<st, accepted>>

IsTri(s) == Type[s] \in {"bool", "tristate"}
Str(tri) == CASE tri = 2 -> "y" [] tri = 1 -> "m" [] OTHER -> "n"
Zero(s) == CASE IsTri(s) -> "n" [] Type[s] = "int" -> "0" [] Type[s] = "hex" -> "0x0"
             [] OTHER -> ""

(* Nothing calculated yet; user holds what was read or set.                    *)
Blank(user, order) ==
  [cur     |-> [s \in Symbols |-> Zero(s)],
   visible |-> [s \in Symbols |-> 0],
   rev     |-> [s \in Symbols |-> 0],
   user    |-> user,
   valid   |-> {},           (* SYMBOL_VALID                                     *)
   write   |-> {},           (* SYMBOL_WRITE                                     *)
   memo    |-> <<>>,         (* the values of expressions that have val_is_valid  *)
   order   |-> order,        (* choice_members of each choice                    *)
   modules |-> 0,            (* modules_val                                      *)
   changed |-> TRUE]         (* conf_changed: something may have to be saved      *)

HasValue(t, s) == t.user[s] # None

(* sym_get_type: without modules a tristate is a bool.                         *)
TypeNow(t, s) == IF Type[s] = "tristate" /\ t.modules = 0 THEN "bool" ELSE Type[s]
Whole(t, s, tri) == IF tri = 1 /\ TypeNow(t, s) = "bool" THEN 2 ELSE tri
-------------------------------------------------------------------------------
(* Each of these returns the state after it, and with it a value where one is   *)
(* asked for: [t, v].  What goes on with such a result is an operator of its    *)
(* own where it needs more than one part of it.                              *)
RECURSIVE Calc(_, _)
RECURSIVE Eval(_, _)

Result(t, v) == [t |-> t, v |-> v]

(* Expressions one after the other; v is the sequence of their values.         *)
Noted(r, c) == Result(c.t, Append(r.v, c.v))
EvalEach(t, exprs) ==
  LET Next(r, e) == Noted(r, Eval(r.t, e))
  IN Seqs!FoldLeft(Next, Result(t, <<>>), exprs)

Highest(tris) == Seqs!FoldLeft(Higher, 0, tris)

Connected(op, r) ==
  Result(r.t, CASE op = "not" -> 2 - r.v[1]
                [] op = "and" -> Lower(r.v[1], r.v[2])
                [] OTHER -> Higher(r.v[1], r.v[2]))
Leaf(t, e) ==
  Result(t, CASE e[1] = "sym" -> TriOf(e[2], t.cur)
              [] Holds(e[1], Compared(e[2], e[3], t.cur)) -> 2
              [] OTHER -> 0)

(* __expr_calc_value, and expr_calc_value, which keeps the value.               *)
Fresh(t, e) ==
  IF e[1] \in {"not", "and", "or"} THEN Connected(e[1], EvalEach(t, Tail(e)))
  ELSE Leaf(Seqs!FoldLeft(Calc, t, Tail(e)), e)

Remember(c, e) == Result([c.t EXCEPT !.memo = (e :> c.v) @@ @], c.v)

Eval(t, e) ==
  CASE e = Null -> Result(t, 2)
    [] e \in DOMAIN t.memo -> Result(t, t.memo[e])
    [] OTHER -> Remember(Fresh(t, e), e)

(* The first of the properties whose condition is not n: sym_get_default_prop    *)
(* and sym_get_range_prop.  v is <<the property, its condition's value>>.        *)
RECURSIVE FirstProp(_, _)
PropOrNext(c, props) ==
  IF c.v # 0 THEN Result(c.t, <<Head(props), c.v>>) ELSE FirstProp(c.t, Tail(props))
FirstProp(t, props) ==
  IF props = <<>> THEN Result(t, <<>>) ELSE PropOrNext(Eval(t, Head(props).cond), props)

(* sym_calc_visibility; v is [dir, implied].                                  *)
Shown(r, s) ==
  [r.t EXCEPT !.visible[s] =
     IF Highest(r.v) = 1 /\ (Type[s] # "tristate" \/ r.t.modules = 0) THEN 2 ELSE Highest(r.v)]

Bounds(r, s) ==
  LET Bound(e, tri) == IF e = Null THEN 0 ELSE Whole(r.t, s, tri)
  IN Result([r.t EXCEPT !.rev[s] = Bound(Def[s].rev, r.v[2])],
            [dir |-> Whole(r.t, s, r.v[1]), implied |-> Bound(Def[s].implied, r.v[3])])

VisibleOrBounded(t, s) ==
  IF Def[s].choice # None THEN Result(t, [dir |-> 0, implied |-> 0])
  ELSE Bounds(EvalEach(t, <<Def[s].dir, Def[s].rev, Def[s].implied>>), s)

CalcVisibility(t, s) ==
  IF Def[s].trans THEN Result([t EXCEPT !.visible[s] = 2], [dir |-> 0, implied |-> 0])
  ELSE VisibleOrBounded(Shown(EvalEach(t, Def[s].prompts), s), s)

(* The first in the order of choice_members that the user set to y; the         *)
(* visibility is calculated up to there.                                      *)
RECURSIVE FirstYes(_, _)
YesOrNext(t, members) ==
  IF t.visible[Head(members)] # 0 /\ t.user[Head(members)] = "y"
  THEN Result(t, Head(members))
  ELSE FirstYes(t, Tail(members))
FirstYes(t, members) ==
  IF members = <<>> THEN Result(t, None)
  ELSE YesOrNext(CalcVisibility(t, Head(members)).t, members)

(* The first member of seq that is in set. *)
First(seq, set) ==
  IF Seqs!ToSet(seq) \cap set = {} THEN None
  ELSE SelectSeq(seq, LAMBDA s : s \in set)[1]

(* sym_choice_default                                                        *)
RECURSIVE DefaultOf(_, _, _)
DefaultOrNext(d, c, defaults) ==
  IF d.v # 0 /\ d.t.visible[Head(defaults).value] # 0
  THEN Result(d.t, Head(defaults).value)
  ELSE DefaultOf(d.t, c, Tail(defaults))
DefaultOf(t, c, defaults) ==
  IF defaults = <<>>
  THEN Result(t, First(Choices[c].members, {s \in Symbols : t.visible[s] # 0}))
  ELSE DefaultOrNext(Eval(t, Head(defaults).cond), c, defaults)

(* sym_calc_choice: who is y; the others that are visible are n.  The first that  *)
(* was set, or else the default unless it is set to n, or else the first that was *)
(* not set, or else the last of those that were.                             *)
IsShown(t, s) == t.visible[s] # 0

Decided(t, c, chosen) ==
  LET shown == {s \in Seqs!ToSet(Choices[c].members) : IsShown(t, s)} IN
    [t EXCEPT !.cur = [s \in Symbols |->
                 IF s \notin shown THEN @[s] ELSE IF s = chosen THEN "y" ELSE "n"],
              !.valid = @ \cup shown,
              !.write = @ \cup shown]

Remaining(t, c) ==
  LET shown == {s \in Seqs!ToSet(Choices[c].members) : IsShown(t, s)}
      unset == {s \in shown : ~HasValue(t, s)}
  IN  IF unset # {} THEN First(Choices[c].members, unset)
      ELSE First(Seqs!Reverse(t.order[c]), shown)

DefaultOrRemaining(d, c) ==
  Decided(d.t, c, IF d.v # None /\ d.t.user[d.v] # "n" THEN d.v ELSE Remaining(d.t, c))

(* A slip: a choice nobody answered has no y at all. *)
YesOrNothing(yes, c) == Decided(yes.t, c, yes.v)

YesOrDefault(yes, c) ==
  IF yes.v # None THEN Decided(yes.t, c, yes.v)
  ELSE DefaultOrRemaining(DefaultOf(yes.t, c, Choices[c].defaults), c)

CalcChoice(t, c) == YesOrDefault(FirstYes(t, t.order[c]), c)

(* The value of a bool or tristate; v is <<the value, the default used>>.        *)
LimitedBy(c, prop) == Result(c.t, <<Lower(c.v, prop[2]), prop>>)
DefaultValue(prop) ==
  IF prop.v = <<>> THEN Result(prop.t, <<0, <<>>>>)
  ELSE LimitedBy(Eval(prop.t, prop.v[1].value), prop.v)

AtLeastSelected(t, s, tri, prop) ==
  Result(t, <<Str(Whole(t, s, Higher(tri, t.rev[s]))), prop>>)

Defaulted(d, s, of) ==
  AtLeastSelected(
    [d.t EXCEPT !.write = IF d.t.rev[s] # 0 \/ d.v[1] # 0 \/ of.implied # 0
                          THEN @ \cup {s} ELSE @],
    s,
    IF of.implied = 0 THEN d.v[1] ELSE Lower(Higher(d.v[1], of.implied), of.dir),
    d.v[2])

(* A slip: what the user set holds, selected or not. *)
TriValueAsSet(t, s, of) ==
  Result(t, <<IF HasValue(t, s) THEN t.user[s] ELSE Str(t.rev[s]), <<>>>>)

TriValue(t, s, of) ==
  IF IsShown(t, s) /\ HasValue(t, s)
  THEN AtLeastSelected(t, s, Lower(Tri(t.user[s]), t.visible[s]), <<>>)
  ELSE Defaulted(DefaultValue(FirstProp(t, Def[s].defaults)), s, of)

(* The value of an int, a hex or a string: a default is a single symbol.         *)
CalcEnd(t, end) == IF end \in Symbols THEN Calc(t, end) ELSE t
Copied(t, s, prop) ==
  Result([t EXCEPT !.write = @ \cup {s}], <<StringOf(prop[1].value[2], t.cur), prop>>)
TextDefault(prop, s) ==
  IF prop.v = <<>> THEN Result(prop.t, <<Zero(s), <<>>>>)
  ELSE Copied(CalcEnd(prop.t, prop.v[1].value[2]), s, prop.v)

TextValue(t, s) ==
  IF IsShown(t, s) /\ HasValue(t, s) THEN Result(t, <<t.user[s], <<>>>>)
  ELSE TextDefault(FirstProp(t, Def[s].defaults), s)

NumberOf(t, s, str) == Number[Type[s]][str]
AtEnd(t, s, end) == NumberOf(t, s, StringOf(end, t.cur))

(* sym_validate_range: the value is taken to the nearer end of the range.        *)
CutAbove(t, s, range) ==
  IF NumberOf(t, s, t.cur[s]) > AtEnd(t, s, range.high)
  THEN [t EXCEPT !.cur[s] = StringOf(range.high, t.cur)] ELSE t
Cut(t, s, range) ==
  IF NumberOf(t, s, t.cur[s]) < AtEnd(t, s, range.low)
  THEN [t EXCEPT !.cur[s] = StringOf(range.low, t.cur)]
  ELSE CutAbove(CalcEnd(t, range.high), s, range)

(* A slip: only what is above the range is cut. *)
CutToAbove(prop, s) == IF prop.v = <<>> THEN prop.t ELSE CutAbove(prop.t, s, prop.v[1])

CutTo(prop, s) ==
  IF prop.v = <<>> THEN prop.t
  ELSE Cut(CalcEnd(prop.t, prop.v[1].low), s, prop.v[1])

ValidateRange(t, s) ==
  IF Type[s] \notin {"int", "hex"} THEN t ELSE CutTo(FirstProp(t, Def[s].ranges), s)

(* sym_calc_value: what it is, what it gets, and what follows from that.         *)
FromChoice(t, s) == Result(t, <<t.cur[s], <<>>>>)
ValueOf(vis, s) ==
  LET start == [vis.t EXCEPT !.write = IF IsShown(vis.t, s) THEN @ \cup {s} ELSE @,
                             !.cur[s] = Zero(s)]
  IN CASE Def[s].choice # None -> FromChoice(CalcChoice(start, Def[s].choice), s)
       [] IsTri(s) -> TriValue(start, s, vis.v)
       [] OTHER -> TextValue(start, s)

DefaultSymbol(prop) ==
  IF prop # <<>> /\ prop[1].value[1] = "sym" THEN prop[1].value[2] ELSE None
TakenFrom(t, s, from) ==
  from \in Symbols /\ ~HasValue(t, s) /\ Def[from].trans /\ HasValue(t, from)

Store(c, s) ==
  [c.t EXCEPT !.cur[s] = c.v[1],
              !.user[s] = IF TakenFrom(c.t, s, DefaultSymbol(c.v[2])) THEN c.v[1] ELSE @]

Finish(t, s, old) ==
  [t EXCEPT !.modules = IF s = Modules /\ t.cur[s] # old THEN Tri(t.cur[s]) ELSE @,
            !.write = IF Def[s].trans THEN @ \ {s} ELSE @]

Calc(t, s) ==
  IF s \notin Symbols \/ s \in t.valid THEN t
  ELSE Finish(
         ValidateRange(
           Store(ValueOf(CalcVisibility([t EXCEPT !.valid = @ \cup {s}, !.write = @ \ {s}],
                                        s), s), s), s),
         s, t.cur[s])

(* A slip: the expressions keep their values. *)
ClearSymbolsOnly(t) == Calc([t EXCEPT !.valid = {}, !.changed = TRUE], Modules)

(* sym_clear_all_valid                                                       *)
ClearAllValid(t) ==
  Calc([t EXCEPT !.valid = {}, !.memo = <<>>, !.changed = TRUE], Modules)

-------------------------------------------------------------------------------
(* A slip: a value the symbol cannot have is accepted too. *)
WithinRangeAny(t, s, v) == t.visible[s] # 0 /\ Tri(v) >= t.rev[s]

(* sym_tristate_within_range                                                 *)
WithinRange(t, s, v) ==
  /\ t.visible[s] # 0
  /\ ~(TypeNow(t, s) = "bool" /\ v = "m")
  /\ t.visible[s] > t.rev[s]
  /\ Tri(v) >= t.rev[s] /\ Tri(v) <= t.visible[s]

(* sym_set_tristate_value                                                    *)
SetTristate(t, s, v) ==
  LET set == [t EXCEPT !.user[s] = v]
  IN IF t.cur[s] # v THEN ClearAllValid(set) ELSE set

(* choice_set_value: y for one of those that are visible, n for the others, and  *)
(* each of them moved to the head of choice_members.                           *)
SetChoice(t, c, s) ==
  LET shown == SelectSeq(Choices[c].members, LAMBDA m : t.visible[m] # 0)
      Want(m) == IF m = s THEN "y" ELSE "n"
      rest == SelectSeq(t.order[c], LAMBDA m : t.visible[m] = 0)
      set == [t EXCEPT !.user = [m \in Symbols |-> IF m \in Seqs!ToSet(shown)
                                                   THEN Want(m) ELSE t.user[m]],
                       !.order[c] = Seqs!Reverse(shown) \o rest]
  IN IF \E m \in Seqs!ToSet(shown) : t.cur[m] # Want(m) THEN ClearAllValid(set) ELSE set

(* sym_string_within_range, for a number.                                     *)
NotAbove(t, s, str, range) == Result(t, NumberOf(t, s, str) <= AtEnd(t, s, range.high))
Within(t, s, str, range) ==
  IF NumberOf(t, s, str) < AtEnd(t, s, range.low) THEN Result(t, FALSE)
  ELSE NotAbove(CalcEnd(t, range.high), s, str, range)
WithinProp(prop, s, str) ==
  IF Type[s] = "string" \/ prop.v = <<>> THEN Result(prop.t, TRUE)
  ELSE Within(CalcEnd(prop.t, prop.v[1].low), s, str, prop.v[1])

NumberInRange(t, s, str) == WithinProp(FirstProp(t, Def[s].ranges), s, str)

Ask(s) ==
  /\ st' = Calc(st, s)
  /\ accepted' = <<>>

(* A menu shows only what it has calculated: s is valid.                       *)
Set(s, v) ==
  /\ s \in st.valid /\ IsTri(s) /\ Def[s].choice = None
  /\ IF WithinRange(st, s, v)
     THEN st' = SetTristate(st, s, v) /\ accepted' = <<s, v>>
     ELSE accepted' = <<>> /\ UNCHANGED st

Choose(s) ==
  /\ s \in st.valid /\ Def[s].choice # None
  /\ st' = SetChoice(st, Def[s].choice, s)
  /\ accepted' = IF st.visible[s] # 0 THEN <<s, "y">> ELSE <<>>

(* sym_set_string_value; the front ends offer it for what is visible.           *)
SetIfWithin(in, s, str) ==
  IF ~in.v \/ in.t.user[s] = str THEN in
  ELSE Result(ClearAllValid([in.t EXCEPT !.user[s] = str]), TRUE)

SetString(t, s, str) == SetIfWithin(NumberInRange(t, s, str), s, str)

SetText(s, str) ==
  /\ s \in st.valid /\ ~IsTri(s) /\ st.visible[s] # 0
  /\ \E set \in {SetString(st, s, str)} :
       st' = set.t /\ accepted' = IF set.v THEN <<s, str>> ELSE <<>>

(* sym_toggle_tristate_value: the next value that is accepted.                  *)
Toggled(t, s) ==
  LET After(v) == CASE v = "n" -> "m" [] v = "m" -> "y" [] OTHER -> "n"
      now == t.cur[s]
  IN CASE WithinRange(t, s, After(now)) -> After(now)
       [] WithinRange(t, s, After(After(now))) -> After(After(now))
       [] OTHER -> now

Toggle(s) ==
  /\ s \in st.valid /\ IsTri(s) /\ Def[s].choice = None
  /\ LET next == Toggled(st, s)
     IN IF WithinRange(st, s, next)
        THEN st' = SetTristate(st, s, next) /\ accepted' = <<s, next>>
        ELSE accepted' = <<>> /\ UNCHANGED st

Init ==
  /\ \E user \in Saved :
       st = ClearAllValid(Blank(user, [c \in DOMAIN Choices |-> Choices[c].members]))
  /\ accepted = <<>>

Next ==
  \E s \in Symbols :
    \/ Ask(s) \/ Choose(s) \/ Toggle(s)
    \/ \E v \in Inputs[s] : Set(s, v) \/ SetText(s, v)

Spec == Init /\ [][Next]_vars
-------------------------------------------------------------------------------
(* All symbols, calculated with nothing kept from before.                      *)
RECURSIVE CalcAll(_, _)
CalcAll(t, some) == IF some = {} THEN t
                    ELSE LET s == CHOOSE x \in some : TRUE IN CalcAll(Calc(t, s), some \ {s})

FromScratch == CalcAll(ClearAllValid([Blank(st.user, st.order) EXCEPT !.modules = 0]), Symbols)

(* Types of the state. *)
TypeOK ==
  /\ st.valid \subseteq Symbols /\ st.write \subseteq Symbols
  /\ \A s \in Symbols : st.visible[s] \in 0..2 /\ st.rev[s] \in 0..2
                        /\ (IsTri(s) => st.cur[s] \in States)

(* A value that is kept is the one it would get if it were calculated now, in     *)
(* whatever order the questions came (sym_calc_value, expr_calc_value), and so is  *)
(* whether it is written to .config; but see UnmetIsNotWritten for choices.       *)
KeptIsFresh ==
  \A fresh \in {FromScratch} : \A s \in st.valid :
    /\ st.cur[s] = fresh.cur[s]
    /\ Def[s].choice = None => (s \in st.write) = (s \in fresh.write)

(* A member of a choice is written only if its dependencies are met; the code does *)
(* not keep this (sym_calc_choice goes by a visibility from before).              *)
UnmetIsNotWritten ==
  \A fresh \in {FromScratch} : \A s \in st.valid \cap st.write :
    Def[s].choice # None => \E i \in DOMAIN Def[s].prompts :
                              Eval(fresh, Def[s].prompts[i]).v # 0

(* A setting that is accepted is the value the symbol then has; for a member of a  *)
(* choice, if it is visible at all.                                          *)
AcceptedHolds ==
  accepted # <<>> =>
    LET s == accepted[1] IN
      Def[s].choice = None \/ FromScratch.visible[s] # 0 => Calc(st, s).cur[s] = accepted[2]

(* A selected symbol is on, whatever its own dependencies and settings; without  *)
(* a select nothing is above what is visible, implied or its default; one member *)
(* of a choice is y if any is visible.                                       *)
ValuesAreLawful ==
  \A all \in {CalcAll(st, Symbols)} :
    /\ \A s \in Symbols : IsTri(s) => Tri(all.cur[s]) >= all.rev[s]
    /\ \A s \in Symbols : Type[s] = "tristate" /\ all.modules = 0 => all.cur[s] # "m"
    /\ \A c \in DOMAIN Choices :
         LET members == Seqs!ToSet(Choices[c].members)
             on == {s \in members : all.cur[s] = "y"}
         IN (\E s \in members : all.visible[s] # 0) =>
              \E s \in members : on = {s} /\ all.visible[s] # 0
    /\ \A s \in Symbols : \A i \in DOMAIN Def[s].ranges :
         LET r == Def[s].ranges[i]
             At(e) == NumberOf(all, s, StringOf(e, all.cur))
         IN Eval(all, r.cond).v # 0 /\ i = 1 /\ At(r.low) <= At(r.high) =>
              NumberOf(all, s, all.cur[s]) \in At(r.low)..At(r.high)
=================================================================================
