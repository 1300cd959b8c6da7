------------------------------ MODULE KconfigExpr ------------------------------
(***************************************************************************)
(* Dependency expressions of Kconfig (scripts/kconfig/expr.c): their value,   *)
(* and what is done to them before they are used.  An expression is a tuple:   *)
(*     <<"sym", s>>, <<"not", e>>, <<"and", d, e>>, <<"or", d, e>>,            *)
(*     <<"=", s, t>> and the like for !=, <, <=, >, >=,                        *)
(* and Null for none, which counts as y.  Equal tuples are one expression, as  *)
(* expr_lookup makes them.                                                  *)
(***************************************************************************)
EXTENDS Integers, Sequences

CONSTANTS
  Symbols,    (* the config symbols                                          *)
  Type,       (* [Symbols -> {"bool", "tristate", "int", "hex", "string"}]    *)
  Values,     (* [Symbols -> the strings it may have as a value]              *)
  Literals,   (* the other constant symbols, of no type, beside y, m and n    *)
  Rank,       (* [strings -> its place in the order of strcmp]                *)
  Number,     (* [{"int", "hex", "any"} -> [strings -> what strtoll reads]]   *)
  NaN         (* ... for a string that is no number                          *)

States == {"n", "m", "y"}

(* What the constants are; assumed by the module that instantiates this one. *)
ExprAssumption ==
  /\ Type \in [Symbols -> {"bool", "tristate", "int", "hex", "string"}]
  /\ \A s \in Symbols : Type[s] = "bool" => Values[s] = {"n", "y"}
  /\ \A s \in Symbols : Type[s] = "tristate" => Values[s] = States
  /\ Symbols \cap (States \cup Literals) = {}

Null == <<"null">>
Sym(s) == <<"sym", s>>
Relations == {"=", "!=", "<", "<=", ">", ">="}

TypeOf(s) ==
  IF s \in Symbols THEN Type[s] ELSE IF s \in States THEN "tristate" ELSE "unknown"

IsBool(s) == TypeOf(s) = "bool"
-------------------------------------------------------------------------------
(* The value of an expression, where env gives each symbol its string.        *)
Tri(str) == CASE str = "y" -> 2 [] str = "m" -> 1 [] OTHER -> 0

StringOf(s, env) == IF s \in Symbols THEN env[s] ELSE s

TriOf(s, env) ==
  IF TypeOf(s) \in {"bool", "tristate"} THEN Tri(StringOf(s, env)) ELSE 0

(* expr_parse_string                                                         *)
Parsed(str, type) ==
  CASE type \in {"bool", "tristate"} ->
         IF str \in States THEN Tri(str) ELSE -1
    [] type \in {"int", "hex"} -> Number[type][str]
    [] OTHER -> Number["any"][str]

Sign(n) == IF n < 0 THEN -1 ELSE IF n > 0 THEN 1 ELSE 0

(* The comparison of __expr_calc_value: of numbers if both are, of strings     *)
(* otherwise.                                                               *)
Order(num1, num2, str1, str2, text) ==
  IF text \/ NaN \in {num1, num2} THEN Sign(Rank[str1] - Rank[str2]) ELSE Sign(num1 - num2)

Typed(str1, str2, s, t) ==
  Order(Parsed(str1, TypeOf(s)), Parsed(str2, TypeOf(t)), str1, str2,
        {TypeOf(s), TypeOf(t)} = {"string"})

Compared(s, t, env) == Typed(StringOf(s, env), StringOf(t, env), s, t)

Holds(relation, res) ==
  CASE relation = "=" -> res = 0
    [] relation = "!=" -> res # 0
    [] relation = "<" -> res < 0
    [] relation = "<=" -> res <= 0
    [] relation = ">" -> res > 0
    [] OTHER -> res >= 0

Lower(a, b) == IF a < b THEN a ELSE b
Higher(a, b) == IF a > b THEN a ELSE b

(* expr_calc_value.  The value of what is no expression can be anything.       *)
RECURSIVE Value(_, _)
Value(e, env) ==
  CASE e[1] = "null" -> 2
    [] e[1] = "sym" -> TriOf(e[2], env)
    [] e[1] = "not" -> 2 - Value(e[2], env)
    [] e[1] = "and" -> Lower(Value(e[2], env), Value(e[3], env))
    [] e[1] = "or" -> Higher(Value(e[2], env), Value(e[3], env))
    [] e[1] = "junk" -> Tri(env["junk"])
    [] OTHER -> IF Holds(e[1], Compared(e[2], e[3], env)) THEN 2 ELSE 0

(* What the symbols may be, and what a read past the end of an expression gives. *)
AllEnvs ==
  {env \in [Symbols \cup {"junk"} -> States \cup UNION {Values[s] : s \in Symbols}] :
     env["junk"] \in States /\ \A s \in Symbols : env[s] \in Values[s]}
-------------------------------------------------------------------------------
(* expr_eliminate_yn                                                         *)
RECURSIVE EliminateYn(_)
EliminateYn(e) ==
  IF e[1] \notin {"and", "or"} THEN e
  ELSE
    LET l == EliminateYn(e[2])
        r == EliminateYn(e[3])
        zero == IF e[1] = "and" THEN Sym("n") ELSE Sym("y")
        one == IF e[1] = "and" THEN Sym("y") ELSE Sym("n")
    IN CASE l = zero -> l
         [] l = one -> r
         [] r = zero -> r
         [] r = one -> l
         [] OTHER -> e

(* A slip: what an or has in common becomes y too. *)
NeutralYes(type) == Sym("y")

(* What a leaf becomes that is also elsewhere: the neutral element.           *)
Neutral(type) == IF type = "and" THEN Sym("y") ELSE Sym("n")

(* The leaves of two trees of one type taken two by two, as __expr_eliminate_eq  *)
(* (what is "drop") and expr_eliminate_dups1 ("join") do: what the trees become *)
(* and how many pairs were changed.                                         *)
RECURSIVE Pairwise(_, _, _, _)
RECURSIVE Equal(_, _)
RECURSIVE JoinOr(_, _)
RECURSIVE JoinAnd(_, _)

Dropped(type, a, b) ==
  IF (a = b /\ a \in {Sym("y"), Sym("n")}) \/ ~Equal(a, b) THEN <<a, b, 0>>
  ELSE <<Neutral(type), Neutral(type), 1>>

Merged(type, a, b, joined) ==
  IF joined = Null THEN <<a, b, 0>> ELSE <<Neutral(type), joined, 1>>
Joined(type, a, b) ==
  Merged(type, a, b, IF type = "or" THEN JoinOr(a, b) ELSE JoinAnd(a, b))

BothOfLeft(type, first, second) ==
  <<<<type, first[1], second[1]>>, second[2], first[3] + second[3]>>
BothOfRight(type, first, second) ==
  <<second[1], <<type, first[2], second[2]>>, first[3] + second[3]>>
RestOfLeft(what, type, first, e) == BothOfLeft(type, first, Pairwise(what, type, e, first[2]))
RestOfRight(what, type, first, e) == BothOfRight(type, first, Pairwise(what, type, first[1], e))

Pairwise(what, type, e1, e2) ==
  CASE e1[1] = type -> RestOfLeft(what, type, Pairwise(what, type, e1[2], e2), e1[3])
    [] e2[1] = type -> RestOfRight(what, type, Pairwise(what, type, e1, e2[2]), e2[3])
    [] what = "drop" -> Dropped(type, e1, e2)
    [] OTHER -> Joined(type, e1, e2)

(* expr_eliminate_eq: for the type of the first, and then for that of the second. *)
Drop(type, pair) ==
  IF type \in {"and", "or"} THEN Pairwise("drop", type, pair[1], pair[2]) ELSE pair
DropSecond(pair) == IF pair[1][1] # pair[2][1] THEN Drop(pair[2][1], pair) ELSE pair
Reduced(pair) == <<EliminateYn(pair[1]), EliminateYn(pair[2])>>

EliminateEq(e1, e2) ==
  IF Null \in {e1, e2} THEN <<e1, e2>> ELSE Reduced(DropSecond(Drop(e1[1], <<e1, e2>>)))

(* expr_eq                                                                   *)
SameSymbols(pair) == pair[1][1] = "sym" /\ pair[1] = pair[2]

Equal(e1, e2) ==
  IF Null \in {e1, e2} THEN {e1, e2} \subseteq {Null, Sym("y")}
  ELSE /\ e1[1] = e2[1]
       /\ CASE e1[1] \in Relations \cup {"sym"} -> e1 = e2
            [] e1[1] = "not" -> Equal(e1[2], e2[2])
            [] e1[1] \in {"and", "or"} -> SameSymbols(EliminateEq(e1, e2))
            [] OTHER -> FALSE
-------------------------------------------------------------------------------
(* The symbol that expr_join_or and expr_join_and look at on each side; Null    *)
(* when they give up.                                                       *)
Simple == {"=", "!=", "sym"}

JoinSymbol(e, inside) ==
  CASE e[1] \in Simple -> <<e[2]>>
    [] e[1] = "not" /\ e[2][1] \in inside -> <<e[2][2]>>
    [] OTHER -> Null

Joinable(e1, e2) ==
  LET s1 == JoinSymbol(e1, Simple)
      s2 == JoinSymbol(e2, {"sym"})
  IN s1 # Null /\ s1 = s2 /\ TypeOf(s1[1]) \in {"bool", "tristate"}

(* The third of y, m and n.                                                  *)
Third(pair) == CHOOSE s \in States : s \notin pair

(* e1 and e2 in either order are f and something that says P.                 *)
Ends(e1, e2) == {e1[3], e2[3]}

(* expr_join_or: one expression for e1 || e2, or Null.                        *)
JoinOr(e1, e2) ==
  LET s == e1[2] IN
    CASE Equal(e1, e2) -> e1
      [] ~Joinable(e1, e2) -> Null
      [] e1[1] = "=" /\ e2[1] = "=" /\ TypeOf(s) = "tristate"
         /\ e1[3] # e2[3] /\ Ends(e1, e2) \subseteq States ->
           <<"!=", s, Third(Ends(e1, e2))>>
      [] \/ e1[1] = "not" /\ e1[2][1] = "sym" /\ e2[1] = "sym" /\ IsBool(e2[2])
         \/ e2[1] = "not" /\ e2[2][1] = "sym" /\ e1[1] = "sym" /\ IsBool(s) ->
           Sym("y")
      [] OTHER -> Null

(* A slip: a && (a != m) is taken for a. *)
JoinAndKeeps(e1, e2) ==
  IF e1[1] = "sym" /\ e2[1] = "!=" /\ e1[2] = e2[2] THEN e1 ELSE Null

(* expr_join_and                                                             *)
JoinAnd(e1, e2) ==
  LET s == JoinSymbol(e1, Simple)[1]
      With(relation, state) ==
        \/ e1[1] = "sym" /\ e2[1] = relation /\ e2[3] = state
        \/ e2[1] = "sym" /\ e1[1] = relation /\ e1[3] = state
      Consts == States \cup Literals
  IN
    CASE Equal(e1, e2) -> e1
      [] ~Joinable(e1, e2) -> Null
      [] With("=", "y") \/ With("!=", "m") -> <<"=", s, "y">>
      [] With("!=", "n") -> Sym(s)
      [] TypeOf(s) = "tristate" /\ {e1[1], e2[1]} = {"=", "!="}
         /\ Ends(e1, e2) \subseteq Consts ->
           IF e1[3] = e2[3] THEN Sym("n")
           ELSE <<"=", s, IF e1[1] = "=" THEN e1[3] ELSE e2[3]>>
      [] TypeOf(s) = "tristate" /\ e1[1] = "!=" /\ e2[1] = "!="
         /\ e1[3] # e2[3] /\ Ends(e1, e2) \subseteq States ->
           <<"=", s, Third(Ends(e1, e2))>>
      [] OTHER -> Null

(* expr_eliminate_dups1 and expr_eliminate_dups, until nothing changes.        *)
RECURSIVE EliminateDups(_)
Again(count, e) == IF count = 0 THEN e ELSE EliminateDups(e)
Rejoined(type, both) == Again(both[3], EliminateYn(<<type, both[1], both[2]>>))

EliminateDups(e) ==
  IF e[1] \notin {"and", "or"} THEN EliminateYn(e)
  ELSE Rejoined(e[1], Pairwise("join", e[1], EliminateDups(e[2]), EliminateDups(e[3])))
-------------------------------------------------------------------------------
Opposite(relation) ==
  CASE relation = "=" -> "!=" [] relation = "!=" -> "="
    [] relation = "<=" -> ">" [] relation = ">" -> "<="
    [] relation = ">=" -> "<" [] OTHER -> ">="

(* A slip: a bool that is not y is taken for one that is. *)
TransformRelationBare(e) ==
  CASE ~IsBool(e[2]) \/ e[3] \notin States \/ e[1] \notin {"=", "!="} -> e
    [] e[3] = "m" -> Sym(IF e[1] = "=" THEN "n" ELSE "y")
    [] OTHER -> Sym(e[2])

(* What expr_transform makes of a comparison.  The last case takes a symbol for *)
(* an expression: expr_alloc_one(E_NOT, e->left.expr) where left is a symbol.   *)
TransformRelation(e) ==
  CASE ~IsBool(e[2]) \/ e[3] \notin States \/ e[1] \notin {"=", "!="} -> e
    [] e[3] = "m" -> Sym(IF e[1] = "=" THEN "n" ELSE "y")
    [] <<e[1], e[3]>> \in {<<"=", "y">>, <<"!=", "n">>} -> Sym(e[2])
    [] e[1] = "=" /\ e[3] = "n" -> <<"not", Sym(e[2])>>
    [] OTHER -> <<"not", <<"junk">>>>

(* expr_transform                                                            *)
RECURSIVE Transform(_)
Transform(e) ==
  CASE e[1] \in Relations -> TransformRelation(e)
    [] e[1] \in {"and", "or"} -> <<e[1], Transform(e[2]), Transform(e[3])>>
    [] e[1] = "not" ->
         LET inner == Transform(e[2]) IN
           CASE inner[1] = "not" -> inner[2]
             [] inner[1] \in Relations ->
                  <<Opposite(inner[1]), inner[2], inner[3]>>
             [] inner[1] \in {"and", "or"} ->
                  Transform(<<IF inner[1] = "and" THEN "or" ELSE "and",
                              <<"not", inner[2]>>, <<"not", inner[3]>>>>)
             [] inner \in {Sym("y"), Sym("m"), Sym("n")} ->
                  Sym(CASE inner[2] = "y" -> "n" [] inner[2] = "n" -> "y"
                        [] OTHER -> "m")
             [] OTHER -> <<"not", inner>>
    [] OTHER -> e

(* A slip: the comparison with n does not turn an and into an or. *)
TransCompareBare(e, relation, state) ==
  IF e[1] = "sym" THEN <<relation, e[2], state>>
  ELSE IF relation = "=" THEN <<"not", e>> ELSE e

(* expr_trans_compare.  With m an and or an or is left as it is.              *)
RECURSIVE TransCompare(_, _, _)
TransCompare(e, relation, state) ==
  LET Negated(x) == IF relation = "!=" THEN <<"not", x>> ELSE x
      Both(type) == <<type, TransCompare(e[2], "=", state), TransCompare(e[3], "=", state)>>
  IN
    CASE e = Null -> Negated(Sym(state))
      [] e[1] \in {"and", "or"} ->
           Negated(CASE state = "y" -> Both(e[1])
                     [] state = "n" -> Both(IF e[1] = "and" THEN "or" ELSE "and")
                     [] OTHER -> e)
      [] e[1] = "not" ->
           TransCompare(e[2], IF relation = "=" THEN "!=" ELSE "=", state)
      [] e[1] = "sym" -> <<relation, e[2], state>>
      [] state = "m" -> Sym(IF relation = "=" THEN "n" ELSE "y")
      [] OTHER ->
           IF (relation = "=") = (state = "y") THEN e ELSE <<"not", e>>

RECURSIVE Contains(_, _)
Contains(e, s) ==
  CASE e[1] \in {"and", "or"} -> Contains(e[2], s) \/ Contains(e[3], s)
    [] e[1] = "not" -> Contains(e[2], s)
    [] e[1] = "sym" -> e[2] = s
    [] e[1] \in Relations -> s \in {e[2], e[3]}
    [] OTHER -> FALSE

(* expr_depends_symbol: whether e can only hold while s is not n.              *)
RECURSIVE Depends(_, _)
Depends(e, s) ==
  CASE e[1] = "and" -> Depends(e[2], s) \/ Depends(e[3], s)
    [] e[1] = "sym" -> e[2] = s
    [] e[1] = "=" -> e[2] = s /\ e[3] \in {"y", "m"}
    [] e[1] = "!=" -> e[2] = s /\ e[3] = "n"
    [] OTHER -> FALSE
-------------------------------------------------------------------------------
(* expr_compare_type: whether what stands inside prev needs parentheses.        *)
Binds(type) ==
  CASE type \in {"<", "<=", ">", ">="} -> 5 [] type \in {"=", "!="} -> 4
    [] type = "not" -> 3 [] type = "and" -> 2 [] type = "or" -> 1 [] OTHER -> 9

(* A slip: only an or is put into parentheses, and only in a not. *)
NeedsParensRarely(prev, type) == prev = "not" /\ type = "or"

NeedsParens(prev, type) ==
  prev # "none" /\ type # "sym" /\ Binds(type) < Binds(prev)

(* expr_print                                                               *)
RECURSIVE Printed(_, _)
Printed(e, prev) ==
  LET inner ==
        CASE e = Null -> <<"y">>
          [] e[1] = "sym" -> <<e[2]>>
          [] e[1] = "not" -> <<"!">> \o Printed(e[2], "not")
          [] e[1] \in {"and", "or"} ->
               Printed(e[2], e[1]) \o <<e[1]>> \o Printed(e[3], e[1])
          [] OTHER -> <<e[2], e[1], e[3]>>
  IN IF NeedsParens(prev, e[1]) THEN <<"(">> \o inner \o <<")">> ELSE inner

(* The grammar of parser.y: <<the expression at the head, the rest>>.          *)
RECURSIVE ParseOr(_)
RECURSIVE ParseAnd(_)
RECURSIVE ParseOne(_)
RECURSIVE More(_, _, _)

More(type, left, rest) ==
  IF rest = <<>> \/ Head(rest) # type THEN <<left, rest>>
  ELSE LET right == IF type = "or" THEN ParseAnd(Tail(rest)) ELSE ParseOne(Tail(rest))
       IN More(type, <<type, left, right[1]>>, right[2])

ParseOr(tokens) == LET left == ParseAnd(tokens) IN More("or", left[1], left[2])
ParseAnd(tokens) == LET left == ParseOne(tokens) IN More("and", left[1], left[2])
ParseOne(tokens) ==
  CASE Head(tokens) = "!" ->
         LET inner == ParseOne(Tail(tokens)) IN <<<<"not", inner[1]>>, inner[2]>>
    [] Head(tokens) = "(" ->
         LET inner == ParseOr(Tail(tokens)) IN <<inner[1], Tail(inner[2])>>
    [] Len(tokens) > 2 /\ tokens[2] \in Relations ->
         <<<<tokens[2], tokens[1], tokens[3]>>, SubSeq(tokens, 4, Len(tokens))>>
    [] OTHER -> <<Sym(Head(tokens)), Tail(tokens)>>

And(d, e) == IF d = Null THEN e ELSE IF e = Null THEN d ELSE <<"and", d, e>>
Or(d, e) == IF d = Null THEN e ELSE IF e = Null THEN d ELSE <<"or", d, e>>
=================================================================================
