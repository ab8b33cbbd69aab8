------------------------------ MODULE Compiler ------------------------------
(***************************************************************************)
(* hll_compiler.c from the expression the reader made to bytecode.         *)
(*                                                                         *)
(* A compiler is a record: the machine it compiles for (vm), the function  *)
(* whose code it emits (bytecode, an index of vm.codes) and error_count.   *)
(* Expressions are trees; the constants of the code are objects of the     *)
(* machine.  Collections are forbidden all the time.                       *)
(***************************************************************************)
EXTENDS Machine, Lists

NoName == ""

\* compiler_error
Error(c) == [c EXCEPT !.error_count = @ + 1]

\* An assertion of the compiler fails.
Assert_(c, condition) == IF condition THEN c ELSE [c EXCEPT !.vm = Abort(@)]

EmitOp(c, op) ==
    [c EXCEPT !.vm.codes[c.bytecode].ops = Append(@, Instruction(op, 0))]
EmitArg(c, op, arg) ==
    [c EXCEPT !.vm.codes[c.bytecode].ops = Append(@, Instruction(op, arg))]

\* hll_bytecode_op_idx
OpIdx(c) == Len(c.vm.codes[c.bytecode].ops)

Pool(c) == c.vm.codes[c.bytecode].constant_pool

\* Mutant: the offset is one too far, past the first instruction behind the jump.
PatchJumpPast(c, jump) ==
    [c EXCEPT !.vm.codes[c.bytecode].ops[jump].arg = OpIdx(c) - jump + 1]

\* Set the offset of the jump at the given index to what has been emitted since.
PatchJump(c, jump) ==
    [c EXCEPT !.vm.codes[c.bytecode].ops[jump].arg = OpIdx(c) - jump]

AddConst(c, v) == [c EXCEPT !.vm.codes[c.bytecode].constant_pool = Append(@, v)]

\* add_num_const: a number is in the pool once.
EmitNum(c, v) ==
    IF \E i \in DOMAIN Pool(c) : Pool(c)[i] = v
    THEN EmitArg(c, "CONST", CHOOSE i \in DOMAIN Pool(c) : Pool(c)[i] = v)
    ELSE EmitArg(AddConst(c, v), "CONST", Len(Pool(c)) + 1)

IsSymbNamed(c, v, name) == KindOf(c.vm, v) = "symb" /\ At(c.vm, v).name = name

\* add_symb_const: a symbol is in the pool once.
AddSymb(c, name) ==
    IF \E i \in DOMAIN Pool(c) : IsSymbNamed(c, Pool(c)[i], name) THEN c
    ELSE AddConst([c EXCEPT !.vm = Place(@, SymbObj(name))], Fresh(c.vm))

SymbIdx(c, name) ==
    CHOOSE i \in DOMAIN Pool(c) : IsSymbNamed(c, Pool(c)[i], name)

compile_symbol(c, name) ==
    LET c1 == AddSymb(c, name) IN EmitArg(c1, "CONST", SymbIdx(c1, name))

-----------------------------------------------------------------------------
\* The forms get_form_kind knows.
CarCdr == [car |-> <<"CAR">>, cdr |-> <<"CDR">>,
           caar |-> <<"CAR", "CAR">>, cadr |-> <<"CDR", "CAR">>,
           cdar |-> <<"CAR", "CDR">>, cddr |-> <<"CDR", "CDR">>]

RECURSIVE compile_eval_expression(_, _), compile_expression(_, _),
          hll_compile_ast(_, _)

\* The sub-expressions xs one after the other, each followed by op.
CompileEach(c, xs, op) ==
    FoldLeft(LAMBDA c1, x : EmitOp(compile_eval_expression(c1, x), op), c, xs)

\* compile_function_call_internal: the list of the arguments, then the call.
CompileArguments(c, args) ==
    EmitOp(CompileEach(EmitOp(EmitOp(c, "NIL"), "NIL"), Elements(args), "APPEND"),
           "POP")

compile_function_call_internal(c, args) == EmitOp(CompileArguments(c, args), "CALL")

\* The objects of an expression, as the reader makes them.
RECURSIVE Intern(_, _)
Intern(m, x) ==
    CASE IsPair(x) -> LET a == Intern(m, Car(x))
                          d == Intern(a.m, Cdr(x))
                      IN  [m |-> Place(d.m, ConsObj(a.value, d.value)),
                           value |-> Fresh(d.m)]
      [] IsSym(x)  -> [m |-> Place(m, SymbObj(x[2])), value |-> Fresh(m)]
      [] OTHER     -> [m |-> m, value |-> x]

\* hll_interpret_bytecode_internal to its end, while collections are
\* forbidden and nothing is left to chance.
RECURSIVE RunToEnd(_)
RunToEnd(m) ==
    IF ~m.running THEN m
    ELSE IF Finished(m) THEN Return(m, m.stack[1])
    ELSE RunToEnd(CHOOSE m1 \in Executed(m) : TRUE)

\* hll_expand_macro: the body runs in an environment of its own.  The root of
\* that environment stays behind when the arguments do not fit.
hll_expand_macro(m, macro, args) ==
    LET new_env == Fresh(m)
        m1 == PushTemp(Place(m, EnvObj(Nil, GlobalEnv)), new_env)
        bound == CHOOSE r \in BindParams(m1, macro, args, new_env) : TRUE
    IN  IF bound.ok
        THEN [m |-> RunToEnd(Enter(PopTemp(bound.m), new_env, macro)), ok |-> TRUE]
        ELSE bound

\* A call that is no macro's.
CompileCall(c, list) ==
    compile_function_call_internal(compile_eval_expression(c, Car(list)), Cdr(list))

\* expand_macro, for what hll_expand_macro has given: a list with the wrong
\* number of arguments is an error, and compiled as a call.
CompileExpansion(c, list, expansion) ==
    LET c1 == [c EXCEPT !.vm = expansion.m] IN
    IF expansion.ok
    THEN compile_eval_expression(c1, Tree(c1.vm, c1.vm.result))
    ELSE CompileCall(Error(c1), list)

compile_function_call(c, list) ==
    LET slot == IF IsSym(Car(list))
                THEN hll_find_var(c.vm, MacroEnv, Car(list)[2]) ELSE Nil
        args == Intern(c.vm, Cdr(list))
    IN  IF slot = Nil THEN CompileCall(c, list)
        ELSE CompileExpansion(c, list,
                hll_expand_macro(args.m, At(c.vm, slot).cdr, args.value))

compile_quote(c, form) ==
    IF Length(form) = 1 THEN Error(c)
    ELSE LET args == Cdr(form) IN
         compile_expression(IF Cdr(args) = Nil THEN c ELSE Error(c), Car(args))

\* Mutant: the values of all expressions stay on the stack.
PrognWithoutPop(c, prog) ==
    IF prog = Nil THEN EmitOp(c, "NIL")
    ELSE FoldLeft(LAMBDA c1, rest : compile_eval_expression(c1, Car(rest)),
                  c, Conses(prog))

\* A POP after each expression but the last.
PopUnlessLast(c, rest) == IF Cdr(rest) = Nil THEN c ELSE EmitOp(c, "POP")

compile_progn_internal(c, prog) ==
    IF prog = Nil THEN EmitOp(c, "NIL")
    ELSE FoldLeft(LAMBDA c1, rest :
                     PopUnlessLast(compile_eval_expression(c1, Car(rest)), rest),
                  c, Conses(prog))

compile_if(c, form) ==
    IF Length(form) < 3 THEN Error(c)
    ELSE LET arms == Cdr(Cdr(form))
             c1 == EmitArg(compile_eval_expression(c, Car(Cdr(form))), "JN", 0)
             c2 == EmitOp(compile_eval_expression(c1, Car(arms)), "NIL")
             c3 == EmitArg(c2, "JN", 0)
             c4 == PatchJump(c3, OpIdx(c1))
         IN  PatchJump(compile_progn_internal(c4, Cdr(arms)), OpIdx(c3))

\* The value of a binding or of set!: nil when there is none.
ValueOf(rest) == IF IsPair(rest) THEN Car(rest) ELSE rest

\* One (name value) of a let.
compile_binding(c, binding) ==
    LET rest == Cdr(binding)
        c1 == Assert_(c, /\ IsPair(rest) => Cdr(rest) = Nil
                         /\ IsSym(Car(binding)))
        c2 == compile_eval_expression(compile_expression(c1, Car(binding)), ValueOf(rest))
    IN  EmitOp(EmitOp(c2, "LET"), "POP")

\* It returns at the first binding that is no list; the ones before it are
\* compiled, the macros they define with them.
compile_let(c, form) ==
    IF Length(form) < 2 THEN Error(c)
    ELSE LET bindings == Elements(Car(Cdr(form)))
             wrong == SelectInSeq(bindings, LAMBDA b : ~IsPair(b))
             good == IF wrong = 0 THEN bindings ELSE SubSeq(bindings, 1, wrong - 1)
             c1 == FoldLeft(compile_binding, EmitOp(c, "PUSHENV"), good)
         IN  IF wrong # 0 THEN Error(c1)
             ELSE EmitOp(compile_progn_internal(c1, Cdr(Cdr(form))), "POPENV")

compile_cxr(c, form, ops) ==
    IF Length(form) # 2 THEN Error(c)
    ELSE FoldLeft(EmitOp, compile_eval_expression(c, Car(Cdr(form))), ops)

-----------------------------------------------------------------------------
(* Assignment. *)

\* compile_set_location for (nth n list) and (nthcdr n list).
CompileSetNth(c, location, value, set) ==
    IF Length(location) # 3 THEN Error(c)
    ELSE LET c1 == EmitOp(EmitOp(compile_symbol(c, "nthcdr"), "FIND"), "CDR")
             c2 == compile_function_call_internal(c1, Cdr(location))
         IN  EmitOp(compile_eval_expression(c2, value), set)

\* For (cXr list): all of the path but its last step, which is what is set.
CompileSetCxr(c, location, value, ops) ==
    IF Length(location) # 2 THEN Error(c)
    ELSE LET c1 == compile_eval_expression(c, Car(Cdr(location)))
             c2 == FoldLeft(EmitOp, c1, Front(ops))
         IN  EmitOp(compile_eval_expression(c2, value),
                    IF Last(ops) = "CAR" THEN "SETCAR" ELSE "SETCDR")

compile_set_location(c, location, value) ==
    LET head == IF IsPair(location) /\ IsSym(Car(location))
                THEN Car(location)[2] ELSE NoName
    IN  CASE IsSym(location) ->
               EmitOp(compile_eval_expression(
                          EmitOp(compile_symbol(c, location[2]), "FIND"), value),
                      "SETCDR")
          [] head = "nth"    -> CompileSetNth(c, location, value, "SETCAR")
          [] head = "nthcdr" -> CompileSetNth(c, location, value, "SETCDR")
          [] head \in DOMAIN CarCdr ->
               CompileSetCxr(c, location, value, CarCdr[head])
          [] OTHER -> Error(c)

compile_setf(c, form) ==
    IF Length(form) < 2 THEN Error(c)
    ELSE LET rest == Cdr(Cdr(form))
             c1 == Assert_(c, IsPair(rest) => Cdr(rest) = Nil)
         IN  compile_set_location(c1, Car(Cdr(form)), ValueOf(rest))

\* Mutant: the value is compiled before the cons.
SetFieldSwapped(c, form, set) ==
    IF Length(form) # 3 THEN Error(c)
    ELSE LET c1 == compile_eval_expression(c, Car(Cdr(Cdr(form))))
         IN  EmitOp(compile_eval_expression(c1, Car(Cdr(form))), set)

\* compile_setcar and compile_setcdr
CompileSetField(c, form, set) ==
    IF Length(form) # 3 THEN Error(c)
    ELSE LET c1 == Assert_(c, EndOf(form) = Nil)
             c2 == compile_eval_expression(c1, Car(Cdr(form)))
         IN  EmitOp(compile_eval_expression(c2, Car(Cdr(Cdr(form)))), set)

compile_list(c, form) ==
    CompileArguments(Assert_(c, EndOf(form) = Nil), Cdr(form))

compile_cons(c, form) ==
    IF Length(form) # 3 THEN Error(c)
    ELSE LET c1 == compile_eval_expression(EmitOp(EmitOp(c, "NIL"), "NIL"),
                                           Car(Cdr(form)))
             c2 == compile_eval_expression(EmitOp(c1, "APPEND"),
                                           Car(Cdr(Cdr(form))))
         IN  EmitOp(EmitOp(c2, "SETCDR"), "POP")

-----------------------------------------------------------------------------
(* Functions. *)

\* The parameter list of a function; a single symbol becomes (() symbol).
ParamList(params) == IF IsSym(params) THEN List(<<Nil, params>>) ELSE params

ParamsValid(params) ==
    /\ \A i \in DOMAIN Elements(params) : IsSym(Elements(params)[i])
    /\ EndOf(params) = Nil \/ IsSym(EndOf(params))
    /\ IsPair(params) \/ params = Nil \/ IsSym(params)

\* The names of the parameters are constants of the function, except the one
\* that ends a dotted list, which is the reader's.
ParamConses(c, params) ==
    LET list == ParamList(params)
        c1 == FoldLeft(LAMBDA c2, x : IF IsSym(x) THEN AddSymb(c2, x[2]) ELSE c2,
                       c, Elements(list))
        last == Intern(c1.vm, EndOf(list))
        Linked(x, r) ==
            [m |-> Place(r.m, ConsObj(IF IsSym(x) THEN Pool(c1)[SymbIdx(c1, x[2])]
                                      ELSE Nil, r.value)),
             value |-> Fresh(r.m)]
    IN  FoldRight(Linked, Elements(list), last)

\* The compiler of a function is one of its own, which leaves the code in
\* vm.codes whether or not there were errors.
NewCompiler(m, name) ==
    [vm |-> [m EXCEPT !.codes = Append(@, NewBytecode(name))],
     bytecode |-> Len(m.codes) + 1,
     error_count |-> 0]

\* The rest of compile_function_internal, when the body has been compiled.
WithParams(c, params, body) ==
    LET c1 == [c EXCEPT !.vm = body.c.vm, !.error_count = @ + body.c.error_count]
        Named(names) == [names.m EXCEPT !.heap[body.value[2]].param_names = names.value]
    IN  IF body.c.error_count # 0
        THEN [c |-> c1, value |-> body.value, ok |-> FALSE]
        ELSE IF ~ParamsValid(params)
        THEN [c |-> Error(c1), value |-> body.value, ok |-> FALSE]
        ELSE [c |-> [c EXCEPT !.vm = Named(ParamConses(body.c, params))],
              value |-> body.value, ok |-> TRUE]

compile_function_internal(c, params, body, name) ==
    WithParams(c, params, hll_compile_ast(NewCompiler(c.vm, name), body))

\* compile_function and, when there were no errors, MAKEFUN and what follows.
CompileClosure(f, ops) ==
    IF ~f.ok THEN f.c
    ELSE FoldLeft(EmitOp,
                  EmitArg(AddConst(f.c, f.value), "MAKEFUN", Len(Pool(f.c)) + 1), ops)

compile_lambda(c, form) ==
    IF Length(form) < 3 THEN Error(c)
    ELSE CompileClosure(compile_function_internal(c, Car(Cdr(form)), Cdr(Cdr(form)),
                                                  NoName),
                        <<>>)

compile_define(c, form) ==
    LET decide == Car(Cdr(form))
        rest == Cdr(Cdr(form))
    IN  CASE Length(form) = 1 -> Error(c)
          [] IsPair(decide) ->
               IF ~IsSym(Car(decide)) THEN Error(c)
               ELSE CompileClosure(compile_function_internal(
                                       compile_expression(c, Car(decide)),
                                       Cdr(decide), rest, Car(decide)[2]),
                                   <<"LET">>)
          [] IsSym(decide) ->
               IF Length(form) > 3 THEN Error(c)
               ELSE LET c1 == compile_expression(
                                  Assert_(c, IsPair(rest) => Cdr(rest) = Nil), decide)
                    IN  EmitOp(compile_eval_expression(c1, ValueOf(rest)), "LET")
          [] OTHER -> Error(c)

\* A macro is known from here on, to this program and to those that follow,
\* whether or not they compile.
AddMacro(f, name) ==
    IF ~f.ok THEN f.c
    ELSE IF hll_find_var(f.c.vm, MacroEnv, name) # Nil THEN Error(f.c)
    ELSE [f.c EXCEPT !.vm = CHOOSE m \in hll_add_variable(
              Place(@, SymbObj(name)), MacroEnv, Fresh(f.c.vm), f.value) : TRUE]

process_defmacro(c, form) ==
    LET control == Car(Cdr(form))
        name == Car(control)
    IN  IF Length(form) < 3 \/ ~IsPair(control) \/ ~IsSym(name) THEN Error(c)
        ELSE AddMacro(compile_function_internal(EmitOp(c, "NIL"), Cdr(control),
                                                Cdr(Cdr(form)), name[2]),
                      name[2])

-----------------------------------------------------------------------------
(* Expressions. *)

\* compile_form, for the kind get_form_kind gives.
compile_form(c, form) ==
    LET head == IF IsSym(Car(form)) THEN Car(form)[2] ELSE NoName IN
    CASE head = "quote"    -> compile_quote(c, form)
      [] head = "if"       -> compile_if(c, form)
      [] head = "let"      -> compile_let(c, form)
      [] head = "lambda"   -> compile_lambda(c, form)
      [] head = "set!"     -> compile_setf(c, form)
      [] head = "list"     -> compile_list(c, form)
      [] head = "cons"     -> compile_cons(c, form)
      [] head = "setcar!"  -> CompileSetField(c, form, "SETCAR")
      [] head = "setcdr!"  -> CompileSetField(c, form, "SETCDR")
      [] head = "define"   -> compile_define(c, form)
      [] head = "progn"    -> compile_progn_internal(c, Cdr(form))
      [] head = "defmacro" -> process_defmacro(c, form)
      [] head \in DOMAIN CarCdr -> compile_cxr(c, form, CarCdr[head])
      [] OTHER -> compile_function_call(c, form)

\* The code of an atom, evaluated or not.
CompileAtom(c, x) ==
    CASE x = Nil  -> EmitOp(c, "NIL")
      [] x = T    -> EmitOp(c, "TRUE")
      [] IsNum(x) -> EmitNum(c, x)

\* Code that leaves the value of x on the stack.
compile_eval_expression(c, x) ==
    CASE IsPair(x) -> compile_form(c, x)
      [] IsSym(x)  -> EmitOp(EmitOp(compile_symbol(c, x[2]), "FIND"), "CDR")
      [] OTHER     -> CompileAtom(c, x)

\* Code that leaves x itself on the stack.
compile_expression(c, x) ==
    CASE IsSym(x)  -> compile_symbol(c, x[2])
      [] IsPair(x) ->
           LET c1 == FoldLeft(LAMBDA c2, y : EmitOp(compile_expression(c2, y), "APPEND"),
                              EmitOp(EmitOp(c, "NIL"), "NIL"), Elements(x))
           IN  EmitOp(IF EndOf(x) = Nil THEN c1
                      ELSE EmitOp(compile_expression(c1, EndOf(x)), "SETCDR"),
                      "POP")
      [] OTHER     -> CompileAtom(c, x)

\* hll_compile_ast: a function of the expressions in ast.
hll_compile_ast(c, ast) ==
    LET c1 == [c EXCEPT !.vm = Place(@, FuncObj(Nil, c.bytecode))] IN
    [c |-> [EmitOp(compile_progn_internal(c1, ast), "END") EXCEPT
                !.vm.codes[c.bytecode] = Optimized(@)],
     value |-> Fresh(c.vm)]

\* hll_compile: the collector is kept off until the program is compiled.
hll_compile(m, ast) ==
    LET Result(compiled) ==
            [vm |-> Allow(compiled.c.vm), value |-> compiled.value,
             ok |-> compiled.c.error_count = 0]
    IN  Result(hll_compile_ast(NewCompiler(Forbid(m), NoName), ast))
=============================================================================
