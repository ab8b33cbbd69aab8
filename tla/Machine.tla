------------------------------ MODULE Machine -------------------------------
(***************************************************************************)
(* The interpreter loop of hll_vm.c.  One operator per instruction: it     *)
(* takes the machine the loop has fetched the instruction for, its ip      *)
(* already past it, and gives the machines the handler may end in.         *)
(*                                                                         *)
(* Fields of a machine:                                                    *)
(*   heap, next     the objects, and the next address                      *)
(*   codes          every hll_bytecode there is                            *)
(*   stack, call_stack, env        the execution state of hll_vm           *)
(*   temp_roots, forbid            of hll_gc                               *)
(*   error_count    of hll_debug_storage                                   *)
(*   gensyms        the counter of builtin_gensym                          *)
(*   printed        the lines written to the standard output               *)
(*   print_result   the argument of hll_interpret_bytecode                 *)
(*   running        hll_interpret_bytecode_internal has not returned       *)
(*   result         what it returned                                       *)
(*   aborted        an assertion of the code has failed                    *)
(***************************************************************************)
EXTENDS Builtins, Bytecode

Frame(bytecode, env, func) ==
    [bytecode |-> bytecode, ip |-> 1, env |-> env, func |-> func]

CurrentFrame(m) == Last(m.call_stack)
Code(m) == m.codes[CurrentFrame(m).bytecode]
Current(m) == Code(m).ops[CurrentFrame(m).ip]

\* The instruction the ip has just passed, and its operand.
Fetched(m) == Code(m).ops[CurrentFrame(m).ip - 1]
Operand(m) == Fetched(m).arg

Advance(m, n) == [m EXCEPT !.call_stack[Len(m.call_stack)].ip = @ + n]

Push(m, v) == [m EXCEPT !.stack = Append(@, v)]
Pop(m) == [m EXCEPT !.stack = Front(@)]
Top(m) == Last(m.stack)

\* Pop a value and keep it as a temp root.
Take(m) == PushTemp(Pop(m), Top(m))

\* "end:" of hll_interpret_bytecode_internal.  One temp root is popped,
\* whatever the handlers that were left by longjmp had pushed.
Return(m, value) == PopTemp([m EXCEPT !.stack = <<>>, !.call_stack = <<>>,
                                      !.result = value, !.running = FALSE])

\* Mutant: collections are allowed again, as if a builtin had raised the error.
RuntimeErrorAllowing(m) ==
    Return([m EXCEPT !.error_count = @ + 1, !.forbid = @ - 1], Nil)

\* hll_runtime_error, the longjmp and "bail:".
RuntimeError(m) == Return([m EXCEPT !.error_count = @ + 1], Nil)

\* The head of hll_interpret_bytecode_internal.
Enter(m, env, compiled) ==
    [PushTemp(m, compiled) EXCEPT
        !.stack = <<>>,
        !.call_stack = <<Frame(At(m, compiled).bytecode, env, compiled)>>,
        !.env = env,
        !.running = TRUE]

-----------------------------------------------------------------------------
(* Calls. *)

\* The parameter in a cell of one list is bound to the argument in a cell of
\* the other.
BindOne(ms, env, param, arg) ==
    UNION {hll_add_variable(m, env, At(m, param).car, At(m, arg).car) : m \in ms}

\* The loops of call_func and hll_expand_macro over the parameters: each is
\* bound to the next argument, and the symbol that ends a dotted list to the
\* rest.  ok says whether there were enough arguments.
BindEach(m, names, values, env) ==
    LET params == Cdrs(m, names)
        args == Cdrs(m, values)
        needed == Len(params) - 1
        bound[n \in 0 .. needed] ==
            IF n = 0 THEN {m} ELSE BindOne(bound[n - 1], env, params[n], args[n])
    IN  IF Len(args) - 1 < needed
        THEN {[m |-> m1, ok |-> FALSE] : m1 \in bound[Len(args) - 1]}
        ELSE {[m |-> m1, ok |-> TRUE] :
                 m1 \in IF Last(params) = Nil THEN bound[needed]
                        ELSE UNION {hll_add_variable(m2, env, Last(params), args[needed + 1]) :
                                       m2 \in bound[needed]}}

\* A single symbol in place of a parameter list is compiled to (() symbol).
BindParams(m, func, args, env) ==
    LET names == At(m, func).param_names IN
    IF ~(IsCons(m, names) /\ At(m, names).car = Nil)
    THEN BindEach(m, names, args, env)
    ELSE IF IsCons(m, At(m, names).cdr)
    THEN BindEach(m, At(m, At(m, names).cdr).car, args, env)
    ELSE {[m |-> Abort(m), ok |-> TRUE]}

\* call_func, lines 235 to 246.
EnterFunction(m, callable, new_env, mbtr) ==
    LET code == At(m, callable).bytecode IN
    [m EXCEPT
        !.call_stack = IF mbtr /\ code = CurrentFrame(m).bytecode
                       THEN [@ EXCEPT ![Len(@)].ip = 1]
                       ELSE Append(@, Frame(code, m.env, callable)),
        !.env = new_env]

CallFunction(m, callable, args, mbtr) ==
    LET new_env == Fresh(m) IN
    {IF r.ok THEN EnterFunction(PopTemp(r.m), callable, new_env, mbtr)
     ELSE RuntimeError(r.m) :
        r \in UNION {BindParams(PushTemp(m1, new_env), callable, args, new_env) :
                        m1 \in New(m, EnvObj(Nil, At(m, callable).env))}}

\* A runtime error leaves the builtin before hll_pop_forbid_gc.
CallBind(m, callable, args) ==
    {IF r.ok THEN Push(Allow(r.m), r.value) ELSE RuntimeError(r.m) :
        r \in Builtin(Forbid(m), At(m, callable).bind, args)}

call_func(m, callable, args, mbtr) ==
    CASE KindOf(m, callable) = "func" -> CallFunction(m, callable, args, mbtr)
      [] KindOf(m, callable) = "bind" -> CallBind(m, callable, args)
      [] OTHER -> {RuntimeError(m)}

\* What is left to do when the handler was not left by longjmp.
Unroot(m) == IF m.running THEN PopTemp(m) ELSE m

CallWith(m, mbtr) ==
    LET args == Top(m)
        callable == Top(Pop(m))
    IN  {Unroot(Unroot(m1)) : m1 \in call_func(Take(Take(m)), callable, args, mbtr)}

Call(m) == CallWith(m, FALSE)
MaybeTailCall(m) == CallWith(m, TRUE)

\* Mutant: the caller's environment is not restored.
EndKeepingEnv(m) == {[m EXCEPT !.call_stack = Front(@)]}

\* HLL_BC_END
End(m) == {[m EXCEPT !.env = CurrentFrame(m).env, !.call_stack = Front(@)]}

-----------------------------------------------------------------------------
(* The other instructions. *)

PushNil(m) == {Push(m, Nil)}
PushTrue(m) == {Push(m, T)}
\* The constant of HLL_BC_CONST or HLL_BC_MAKEFUN, which is asserted to be there.
HasConstant(m) == Operand(m) \in DOMAIN Code(m).constant_pool
ConstantOf(m) == Code(m).constant_pool[Operand(m)]

\* HLL_BC_CONST
Constant(m) == {IF HasConstant(m) THEN Push(m, ConstantOf(m)) ELSE Abort(m)}
Discard(m) == {Pop(m)}

\* Mutant: the element is not a root while its cons is allocated.
AppendElementUnrooted(m) ==
    LET head == Len(m.stack) - 2
        tail == Len(m.stack) - 1
        Linked(m1) ==
            IF m1.stack[head] = Nil
            THEN [m1 EXCEPT !.stack[head] = Fresh(m), !.stack[tail] = Fresh(m)]
            ELSE [m1 EXCEPT !.heap[m1.stack[tail][2]].cdr = Fresh(m),
                            !.stack[tail] = Fresh(m)]
    IN  {Linked(m1) : m1 \in New(Pop(m), ConsObj(Top(m), Nil))}

\* HLL_BC_APPEND
AppendElement(m) ==
    LET head == Len(m.stack) - 2
        tail == Len(m.stack) - 1
        Linked(m1) ==
            IF m1.stack[head] = Nil
            THEN PopTemp([m1 EXCEPT !.stack[head] = Fresh(m),
                                    !.stack[tail] = Fresh(m)])
            ELSE IF ~IsCons(m1, m1.stack[tail]) THEN RuntimeError(m1)
            ELSE PopTemp([m1 EXCEPT !.heap[m1.stack[tail][2]].cdr = Fresh(m),
                                    !.stack[tail] = Fresh(m)])
    IN  {Linked(m1) : m1 \in New(Take(m), ConsObj(Top(m), Nil))}

\* HLL_BC_FIND
Find(m) ==
    LET symb == Top(m)
        m1 == Take(m)
        slot == hll_find_var(m1, m1.env, At(m1, symb).name)
    IN  IF KindOf(m, symb) # "symb" \/ slot = Nil THEN {RuntimeError(m1)}
        ELSE IF ~IsVariable(m1, slot) THEN {Abort(m1)}
        ELSE {Push(PopTemp(m1), slot)}

\* HLL_BC_MAKEFUN
MakeFunction(m) ==
    LET func == At(m, ConstantOf(m))
        made == FuncObj(func.param_names, func.bytecode)
    IN  IF ~HasConstant(m) \/ KindOf(m, ConstantOf(m)) # "func" THEN {Abort(m)}
        ELSE {Push([m1 EXCEPT !.heap[m.next].env = m1.env], Fresh(m)) : m1 \in New(m, made)}

\* HLL_BC_JN: the jump is asserted to stay in the code.
JumpIfNil(m) ==
    LET m1 == Advance(Pop(m), Operand(m)) IN
    {IF Top(m) # Nil THEN Pop(m)
     ELSE IF CurrentFrame(m1).ip <= Len(Code(m1).ops) THEN m1 ELSE Abort(m1)}

\* HLL_BC_LET: the name stays on the stack.
Define(m) ==
    LET m1 == Take(m) IN
    {PopTemp(m2) : m2 \in hll_add_variable(m1, m1.env, Top(m1), Top(m))}

PushEnv(m) ==
    {[m1 EXCEPT !.env = Fresh(m)] : m1 \in New(m, EnvObj(Nil, m.env))}

PopEnv(m) ==
    LET up == At(m, m.env).up IN
    {IF KindOf(m, m.env) = "env" /\ KindOf(m, up) = "env" THEN [m EXCEPT !.env = up]
     ELSE Abort(m)}

\* Mutant: hll_gc_pop_temp_root is forgotten.
TakeFieldRooted(m, field) ==
    LET v == Top(m) IN
    CASE v = Nil      -> {Push(Take(m), Nil)}
      [] IsCons(m, v) -> {Push(Take(m), At(m, v)[field])}
      [] OTHER        -> {RuntimeError(Take(m))}

\* HLL_BC_CAR and HLL_BC_CDR: hll_car and hll_cdr of what they take.
TakeField(m, field) ==
    LET v == Top(m) IN
    CASE v = Nil      -> {Push(Pop(m), Nil)}
      [] IsCons(m, v) -> {Push(Pop(m), At(m, v)[field])}
      [] OTHER        -> {RuntimeError(Take(m))}

TakeCar(m) == TakeField(m, "car")
TakeCdr(m) == TakeField(m, "cdr")

\* HLL_BC_SETCAR and HLL_BC_SETCDR: hll_unwrap_cons asserts what it is given.
SetField(m, field) ==
    LET m1 == Pop(m)
        cons == Top(m1)
    IN  IF ~IsCons(m1, cons) THEN {Abort(m1)}
        ELSE {[m1 EXCEPT !.heap[cons[2]][field] = Top(m)]}

SetCar(m) == SetField(m, "car")
SetCdr(m) == SetField(m, "cdr")

-----------------------------------------------------------------------------
\* The number of values a handler asserts to be, or reads, on the stack.
Operands(op) == CASE op = "APPEND" -> 3
                  [] op \in {"CALL", "MBTRCALL", "LET", "SETCAR", "SETCDR"} -> 2
                  [] op \in {"END", "POP", "FIND", "JN", "CAR", "CDR"} -> 1
                  [] OTHER -> 0

\* What a round of the loop may do: it fetches the instruction, and Handler is
\* the case for it.
Handled(m, Handler(_)) ==
    IF Len(m.stack) < Operands(Current(m).op) THEN {Abort(m)}
    ELSE Handler(Advance(m, 1))

\* The switch of the loop.
Dispatch(m) ==
    LET op == Fetched(m).op IN
    CASE op = "END"      -> End(m)
      [] op = "POP"      -> Discard(m)
      [] op = "NIL"      -> PushNil(m)
      [] op = "TRUE"     -> PushTrue(m)
      [] op = "CONST"    -> Constant(m)
      [] op = "APPEND"   -> AppendElement(m)
      [] op = "FIND"     -> Find(m)
      [] op = "MAKEFUN"  -> MakeFunction(m)
      [] op = "CALL"     -> Call(m)
      [] op = "MBTRCALL" -> MaybeTailCall(m)
      [] op = "JN"       -> JumpIfNil(m)
      [] op = "LET"      -> Define(m)
      [] op = "PUSHENV"  -> PushEnv(m)
      [] op = "POPENV"   -> PopEnv(m)
      [] op = "CAR"      -> TakeCar(m)
      [] op = "CDR"      -> TakeCdr(m)
      [] op = "SETCAR"   -> SetCar(m)
      [] op = "SETCDR"   -> SetCdr(m)

Executed(m) == Handled(m, Dispatch)

\* The loop has no frame left: the result is at the bottom of the stack.
Finished(m) == m.running /\ m.call_stack = <<>>

-----------------------------------------------------------------------------
(* A new machine. *)

\* hll_make_vm, before add_builtins.
EmptyMachine ==
    [heap |-> <<EnvObj(Nil, Nil), EnvObj(Nil, Nil)>>, next |-> 3, codes |-> <<>>,
     stack |-> <<>>, call_stack |-> <<>>, env |-> GlobalEnv,
     temp_roots |-> <<>>, forbid |-> 0, error_count |-> 0,
     gensyms |-> 0, printed |-> <<>>, print_result |-> FALSE,
     running |-> FALSE, result |-> Nil, aborted |-> FALSE]

hll_add_binding(m, name) ==
    LET bind == Fresh(m)
        Named(m1) ==
            UNION {hll_add_variable(PushTemp(m2, Fresh(m1)), GlobalEnv, Fresh(m1), bind) :
                      m2 \in New(m1, SymbObj(name))}
    IN  {PopTemp(PopTemp(m3)) :
            m3 \in UNION {Named(PushTemp(m1, bind)) : m1 \in New(m, BindObj(name))}}

hll_make_vm(bindings) ==
    LET made[n \in 0 .. Len(bindings)] ==
            IF n = 0 THEN {EmptyMachine}
            ELSE UNION {hll_add_binding(m, bindings[n]) : m \in made[n - 1]}
    IN  made[Len(bindings)]
=============================================================================
