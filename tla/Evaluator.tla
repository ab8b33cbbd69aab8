----------------------------- MODULE Evaluator ------------------------------
(***************************************************************************)
(* What a program means, without bytecode, stacks, frames or a heap: a     *)
(* reference for the compiler and the machine.  Expressions are evaluated  *)
(* where they stand; a function is the parameters, the body and the        *)
(* environment of its lambda.                                              *)
(*                                                                         *)
(* This is the part of the language whose conses are never set: quote, if, *)
(* let, lambda, define, set! of a variable whose value is not used, progn, *)
(* list, cons, car, cdr and calls.  Programs must compile.                 *)
(***************************************************************************)
EXTENDS Lists

\* An environment: the variables defined in it, the newest first, and the
\* number of the one around it, or 0.
Environment(up) == [vars |-> <<>>, up |-> up]

\* What evaluation comes to: the environments there are, a value and whether
\* there was no error.
Gives(envs, value) == [envs |-> envs, value |-> value, ok |-> TRUE]
Fails(envs) == [envs |-> envs, value |-> Nil, ok |-> FALSE]

Then(r, Continue(_, _)) == IF r.ok THEN Continue(r.envs, r.value) ELSE r

Function(params, body, env) == <<"func", params, body, env>>
Primitive(name) == <<"bind", name>>

Added(envs, e, name, value) ==
    [envs EXCEPT ![e].vars = <<[name |-> name, value |-> value]>> \o @]

\* The environment, from e outwards, that has the variable, or 0.
RECURSIVE Home(_, _, _)
Home(envs, e, name) ==
    IF e = 0 \/ \E i \in DOMAIN envs[e].vars : envs[e].vars[i].name = name THEN e
    ELSE Home(envs, envs[e].up, name)

\* Variables are counted from the oldest, so that a new one changes no place.
PlaceOf(envs, e, name) ==
    LET vars == envs[e].vars IN
    Len(vars) - SelectInSeq(vars, LAMBDA v : v.name = name)

Newest(envs, e, place) == Len(envs[e].vars) - place

Lookup(envs, e, name) ==
    LET home == Home(envs, e, name) IN
    IF home = 0 THEN Fails(envs)
    ELSE Gives(envs, envs[home].vars[Newest(envs, home, PlaceOf(envs, home, name))].value)

Field(envs, value, Part(_)) ==
    CASE value = Nil   -> Gives(envs, Nil)
      [] IsPair(value) -> Gives(envs, Part(value))
      [] OTHER         -> Fails(envs)

-----------------------------------------------------------------------------
\* The builtins the programs call.
Apply(envs, name, args) ==
    LET numbers == \A i \in DOMAIN args : Kind(args[i]) = "num"
        Says(b) == Gives(envs, IF b THEN T ELSE Nil)
    IN  CASE name = "null?" -> IF Len(args) # 1 THEN Fails(envs)
                               ELSE Says(args[1] = Nil)
          [] ~numbers \/ Len(args) # 2 -> Fails(envs)
          [] name = "+"  -> Gives(envs, Num(args[1][2] + args[2][2]))
          [] name = "-"  -> Gives(envs, Num(args[1][2] - args[2][2]))
          [] name = "<=" -> Says(args[1][2] <= args[2][2])

\* The parameters with the arguments they get, if there are enough.
RECURSIVE Bound(_, _)
Bound(params, args) ==
    IF ~IsPair(params) THEN IF params = Nil THEN <<>>
                            ELSE <<[name |-> params[2], value |-> List(args)]>>
    ELSE Bound(Cdr(params), Tail(args))
         \o <<[name |-> Car(params)[2], value |-> Head(args)]>>

-----------------------------------------------------------------------------
RECURSIVE Eval(_, _, _), EvalEach(_, _, _), EvalBody(_, _, _), Bind(_, _, _)

\* The values of all the expressions.
EvalEach(envs, xs, e) ==
    IF xs = <<>> THEN Gives(envs, <<>>)
    ELSE Then(Eval(envs, Head(xs), e), LAMBDA envs1, value :
         Then(EvalEach(envs1, Tail(xs), e), LAMBDA envs2, values :
              Gives(envs2, <<value>> \o values)))

\* The value of the last expression.
EvalBody(envs, xs, e) ==
    CASE xs = <<>>   -> Gives(envs, Nil)
      [] Len(xs) = 1 -> Eval(envs, xs[1], e)
      [] OTHER -> Then(Eval(envs, Head(xs), e),
                       LAMBDA envs1, value : EvalBody(envs1, Tail(xs), e))

\* Each binding of a let sees those before it.
Bind(envs, bindings, e) ==
    IF bindings = <<>> THEN Gives(envs, Nil)
    ELSE LET binding == Elements(Head(bindings)) IN
         Then(Eval(envs, binding[2], e), LAMBDA envs1, value :
              Bind(Added(envs1, e, binding[1][2], value), Tail(bindings), e))

CallOf(envs, f, args) ==
    LET inner == Len(envs) + 1 IN
    CASE Kind(f) = "bind" -> Apply(envs, f[2], args)
      [] Kind(f) # "func" \/ Len(args) < Length(f[2]) -> Fails(envs)
      [] OTHER -> EvalBody(Append(envs, [Environment(f[4]) EXCEPT
                                            !.vars = Bound(f[2], args)]),
                           f[3], inner)

\* A definition gives the name it has defined.
Defined(r, e, name) ==
    Then(r, LAMBDA envs, value : Gives(Added(envs, e, name, value), Sym(name)))

EvalDefine(envs, what, rest, e) ==
    IF IsPair(what)
    THEN Defined(Gives(envs, Function(Cdr(what), rest, e)), e, Car(what)[2])
    ELSE Defined(IF rest = <<>> THEN Gives(envs, Nil) ELSE Eval(envs, rest[1], e),
                 e, what[2])

\* The variable is the one that is known before its value is computed.
EvalSet(envs, name, x, e) ==
    LET home == Home(envs, e, name)
        place == PlaceOf(envs, home, name)
    IN  IF home = 0 THEN Fails(envs)
        ELSE Then(Eval(envs, x, e), LAMBDA envs1, value :
                  Gives([envs1 EXCEPT
                            ![home].vars[Newest(envs1, home, place)].value = value],
                        Nil))

EvalIf(envs, test, then, else, e) ==
    Then(Eval(envs, test, e), LAMBDA envs1, value :
         IF value # Nil THEN Eval(envs1, then, e) ELSE EvalBody(envs1, else, e))

EvalCall(envs, xs, e) ==
    Then(EvalEach(envs, xs, e), LAMBDA envs1, values :
         CallOf(envs1, Head(values), Tail(values)))

\* The value of x in the environment e.
Eval(envs, x, e) ==
    IF IsSym(x) THEN Lookup(envs, e, x[2])
    ELSE IF ~IsPair(x) THEN Gives(envs, x)
    ELSE LET xs == Elements(x)
             form == IF IsSym(xs[1]) THEN xs[1][2] ELSE ""
             inner == Len(envs) + 1
         IN  CASE form = "quote"  -> Gives(envs, xs[2])
               [] form = "if"     -> EvalIf(envs, xs[2], xs[3], SubSeq(xs, 4, Len(xs)), e)
               [] form = "progn"  -> EvalBody(envs, Tail(xs), e)
               [] form = "lambda" -> Gives(envs, Function(xs[2], SubSeq(xs, 3, Len(xs)), e))
               [] form = "define" -> EvalDefine(envs, xs[2], SubSeq(xs, 3, Len(xs)), e)
               [] form = "set!"   -> EvalSet(envs, xs[2][2], xs[3], e)
               [] form = "let"    ->
                    Then(Bind(Append(envs, Environment(e)), Elements(xs[2]), inner),
                         LAMBDA envs1, value :
                             EvalBody(envs1, SubSeq(xs, 3, Len(xs)), inner))
               [] form = "list"   -> Then(EvalEach(envs, Tail(xs), e),
                                          LAMBDA envs1, values : Gives(envs1, List(values)))
               [] form = "cons"   -> Then(EvalEach(envs, Tail(xs), e),
                                          LAMBDA envs1, values :
                                              Gives(envs1, Pair(values[1], values[2])))
               [] form = "car"    -> Then(Eval(envs, xs[2], e),
                                          LAMBDA envs1, value : Field(envs1, value, Car))
               [] form = "cdr"    -> Then(Eval(envs, xs[2], e),
                                          LAMBDA envs1, value : Field(envs1, value, Cdr))
               [] OTHER           -> EvalCall(envs, xs, e)

-----------------------------------------------------------------------------
\* What is shown of a value.
RECURSIVE Shown(_)
Shown(value) == CASE IsPair(value) -> Pair(Shown(Car(value)), Shown(Cdr(value)))
                  [] Kind(value) \in {"func", "bind"} -> Opaque(Kind(value))
                  [] OTHER -> value

\* The results of programs run one after the other: <<>> for an error.
RECURSIVE ResultsIn(_, _)
ResultsIn(envs, programs) ==
    IF programs = <<>> THEN <<>>
    ELSE LET r == EvalBody(envs, Elements(Head(programs)), 1) IN
         <<IF r.ok THEN <<Shown(r.value)>> ELSE <<>>>>
         \o ResultsIn(r.envs, Tail(programs))

\* The environment the programs start in.
Globals(names) ==
    [Environment(0) EXCEPT
        !.vars = [i \in DOMAIN names |->
                    [name |-> names[i], value |-> Primitive(names[i])]]]

Results(names, programs) == ResultsIn(<<Globals(names)>>, programs)
=============================================================================
