--------------------------- MODULE KconfigPreprocess ---------------------------
(***************************************************************************)
(* Variables and functions of the Kconfig language                            *)
(* (scripts/kconfig/preprocess.c).  A text is a sequence of words and           *)
(* references: <<"word", w>>, and <<"ref", texts>> for $(t1,t2,...), where the   *)
(* first text is a name and the others are arguments.                         *)
(***************************************************************************)
EXTENDS Integers, Sequences, FiniteSets

CONSTANTS
  Names,      (* the names that are assigned to                                *)
  Texts,      (* [Names -> what may be assigned to it]                          *)
  Uses,       (* texts that stand in an entry of a menu                          *)
  Env,        (* [names -> the word in the environment]                          *)
  OtherEnv,   (* the same names with other words                               *)
  Output,     (* [words -> what the shell prints for the word, a word]           *)
  MaxDepth,   (* expansions of one name at a time; 1000 in the code               *)
  MaxLines    (* bound: lines read                                             *)

LOCAL Seqs == INSTANCE SequencesExt

VARIABLES
  variables,  (* variable_list: name -> [flavor, value]                         *)
  recorded,   (* env_list: names of the environment, as they were first used      *)
  lines,      (* what was read: <<name, flavor, text>>, or <<"", "use", text>>     *)
  results,    (* what the uses became                                          *)
  failed      (* pperror ended the program                                      *)

vars == <<variables, recorded, lines, results, failed>>

Word(w) == <<"word", w>>
Freed == <<Word("freed")>>

(* What an expansion leaves: the words, the environment variables it used, and     *)
(* whether it failed.                                                          *)
Plain(out) == [out |-> out, used |-> {}, err |-> FALSE]
Failure == [out |-> <<>>, used |-> {}, err |-> TRUE]
Both(a, b) == [out |-> a.out \o b.out, used |-> a.used \cup b.used, err |-> a.err \/ b.err]
-------------------------------------------------------------------------------
Functions == {"error-if", "filename", "info", "lineno", "shell", "warning-if"}
Arity(f) == CASE f \in {"error-if", "warning-if"} -> 2
              [] f \in {"filename", "lineno"} -> 0
              [] OTHER -> 1

(* function_expand                                                             *)
Call(f, args) ==
  IF Len(args) # Arity(f) \/ (f = "error-if" /\ args[1] = <<Word("y")>>) THEN Failure
  ELSE Plain(CASE f = "shell" -> IF args[1] = <<>> THEN <<>> ELSE <<Word(Output[args[1][1][2]])>>
               [] f \in {"filename", "lineno"} -> <<Word(f)>>
               [] OTHER -> <<>>)

(* A slip: what was taken from the environment is not kept in mind. *)
FromEnvOnly(env, name) ==
  IF name \in DOMAIN env THEN Plain(<<Word(env[name])>>) ELSE Plain(<<>>)

(* env_expand                                                                  *)
FromEnv(env, name) ==
  IF name \in DOMAIN env THEN [Plain(<<Word(env[name])>>) EXCEPT !.used = {name}] ELSE Plain(<<>>)

(* A slip: one count for all names. *)
TooDeepAny(deep, name, argc) == \E n \in DOMAIN deep : deep[n] > 0

(* A name that cannot be expanded again while it is being expanded: with arguments  *)
(* it may, up to a depth.                                                       *)
TooDeep(deep, name, argc) == (argc = 0 /\ deep[name] > 0) \/ deep[name] > MaxDepth

(* expand_string_with_args, and eval_clause for a reference in it.  vs are the      *)
(* variables, deep the exp_count of each.                                        *)
RECURSIVE Expand(_, _, _, _, _)
RECURSIVE EvalClause(_, _, _, _, _)
Expand(vs, env, deep, text, args) ==
  IF text = <<>> THEN Plain(<<>>)
  ELSE LET first == IF Head(text)[1] = "word" THEN Plain(<<Head(text)>>)
                    ELSE EvalClause(vs, env, deep, Head(text)[2], args)
       IN IF first.err THEN first ELSE Both(first, Expand(vs, env, deep, Tail(text), args))

EvalClause(vs, env, deep, clause, args) ==
  LET parts == [i \in DOMAIN clause |-> Expand(vs, env, deep, clause[i], args)]
      used == UNION {parts[i].used : i \in DOMAIN parts}
      name == IF parts[1].out = <<>> THEN "" ELSE parts[1].out[1][2]
      new == [i \in 1..(Len(clause) - 1) |-> parts[i + 1].out]
      After(r) == [r EXCEPT !.used = @ \cup used]
  IN CASE clause[1] = <<Word("1")>> /\ Len(args) >= 1 -> Plain(args[1])
       [] \E i \in DOMAIN parts : parts[i].err -> Failure
       [] name \in DOMAIN vs ->
            IF TooDeep(deep, name, Len(new)) THEN Failure
            ELSE IF vs[name].flavor = "simple" THEN After(Plain(vs[name].value))
            ELSE After(Expand(vs, env, [deep EXCEPT ![name] = @ + 1], vs[name].value, new))
       [] name \in Functions -> After(Call(name, new))
       [] new = <<>> -> After(FromEnv(env, name))
       [] OTHER -> After(Plain(<<>>))

Expansion(vs, env, text) == Expand(vs, env, [n \in DOMAIN vs |-> 0], text, <<>>)
-------------------------------------------------------------------------------
(* A slip: what is appended to a simple variable is not expanded. *)
AppendedAsIs(vs, env, name, flavor, text) ==
  [vs |-> [n \in DOMAIN vs \cup {name} |->
             IF n = name THEN [flavor |-> IF flavor = "append" THEN "recursive" ELSE flavor,
                               value |-> text] ELSE vs[n]],
   new |-> Plain(text)]

(* variable_add.  A simple variable is expanded once, now; when it is assigned anew  *)
(* its old value is freed before that.                                          *)
Added(vs, env, name, flavor, text) ==
  LET known == name \in DOMAIN vs
      appends == known /\ flavor = "append"
      kind == CASE appends -> vs[name].flavor
                [] flavor = "append" -> "recursive"
                [] OTHER -> flavor
      old == CASE appends -> vs[name].value
               [] known -> Freed
               [] OTHER -> <<>>
      with == [n \in DOMAIN vs \cup {name} |->
                 IF n = name THEN [flavor |-> kind, value |-> old] ELSE vs[n]]
      new == IF kind = "simple" THEN Expansion(with, env, text) ELSE Plain(text)
  IN [vs |-> [with EXCEPT ![name].value = IF appends THEN old \o new.out ELSE new.out],
      new |-> new]

(* One line of Kconfig, as it changes everything; env is what the environment is.    *)
ReadLine(s, env, line) ==
  LET add == Added(s.vs, env, line[1], line[2], line[3])
      use == Expansion(s.vs, env, line[3])
  IN IF s.failed THEN s
     ELSE IF line[2] = "use"
     THEN [s EXCEPT !.used = @ \cup use.used, !.failed = use.err,
                    !.results = Append(@, use.out)]
     ELSE [s EXCEPT !.vs = add.vs, !.used = @ \cup add.new.used, !.failed = add.new.err]

(* What a program makes of these lines in this environment.                         *)
ReadAll(env, all) ==
  Seqs!FoldLeft(LAMBDA s, line : ReadLine(s, env, line),
                [vs |-> [n \in {} |-> 0], used |-> {}, failed |-> FALSE, results |-> <<>>], all)

Read(line) ==
  /\ ~failed /\ Len(lines) < MaxLines
  /\ lines' = Append(lines, line)
  /\ LET s == ReadLine([vs |-> variables, used |-> recorded, failed |-> FALSE,
                        results |-> results], Env, line)
     IN /\ variables' = s.vs
        /\ recorded' = s.used
        /\ failed' = s.failed
        /\ results' = s.results

Init ==
  /\ variables = [n \in {} |-> 0] /\ recorded = {} /\ lines = <<>>
  /\ results = <<>> /\ failed = FALSE

Next ==
  \/ \E n \in Names : \E flavor \in {"simple", "recursive", "append"} : \E t \in Texts[n] :
       Read(<<n, flavor, t>>)
  \/ \E t \in Uses : Read(<<"", "use", t>>)

Spec == Init /\ [][Next]_vars
-------------------------------------------------------------------------------
(* The names a text refers to, without arguments.                                   *)
RefersTo(text) == {r[2][1][1][2] : r \in {x \in Seqs!ToSet(text) : x[1] = "ref"}}
Step(vs, names) ==
  names \cup UNION {RefersTo(vs[n].value) \cap DOMAIN vs :
                    n \in {m \in names : vs[m].flavor = "recursive"}}
RECURSIVE Closed(_, _)
Closed(vs, names) == IF Step(vs, names) = names THEN names ELSE Closed(vs, Step(vs, names))

(* "Recursive variable references itself (eventually)": a variable cannot be         *)
(* expanded exactly if following what it and the others refer to comes back to one   *)
(* of them, however the lines that assigned them were mixed.                       *)
CyclesAreReported ==
  \A n \in DOMAIN variables :
    Expansion(variables, Env, <<<<"ref", <<<<Word(n)>>>>>>>>).err
    = \E m \in Closed(variables, {n}) :
        /\ variables[m].flavor = "recursive"
        /\ m \in Closed(variables, RefersTo(variables[m].value) \cap DOMAIN variables)

(* env_write_dep writes all that has to be compared: a program that reads the same    *)
(* lines in an environment where only variables it has not recorded are different     *)
(* comes to the same configuration.                                              *)
EnvironmentIsRecorded ==
  \A changed \in SUBSET (DOMAIN Env \ recorded) :
    LET env == [n \in DOMAIN Env |-> IF n \in changed THEN OtherEnv[n] ELSE Env[n]]
        s == ReadAll(env, lines)
    IN s.vs = variables /\ s.results = results /\ s.failed = failed

(* A simple variable is words, expanded when it was assigned.                       *)
SimpleIsExpanded ==
  ~failed => \A n \in DOMAIN variables :
    variables[n].flavor = "simple" => \A i \in DOMAIN variables[n].value :
                                        variables[n].value[i][1] = "word"

(* No expansion uses a value that was freed; "X := $(X) ..." does.                   *)
NothingFreedIsUsed ==
  \A n \in DOMAIN variables : variables[n].flavor = "simple" =>
    Word("freed") \notin Seqs!ToSet(variables[n].value)
===============================================================================
