------------------------------ MODULE Execution -------------------------------
(***************************************************************************)
(* hll_interpret_bytecode: a program that has been compiled runs, one      *)
(* instruction at a time.  Any allocation of the run may collect.          *)
(***************************************************************************)
EXTENDS Verifier

Value(tree) == <<"ok", tree>>
Failed == <<"error">>

VARIABLES
    vm,             \* see module Machine
    output          \* the results of the programs so far

execution == <<vm, output>>

-----------------------------------------------------------------------------
\* "success:", and the printing of the result.  Errors of macros count, too.
Finish ==
    /\ Finished(vm)
    /\ \E shown \in {Tree(vm, vm.stack[1])} :
       /\ vm' = IF vm.error_count = 0 /\ vm.print_result
                THEN Prints(Return(vm, vm.stack[1]), <<shown>>)
                ELSE Return(vm, vm.stack[1])
       /\ output' = Append(output, IF vm.error_count = 0 THEN Value(shown) ELSE Failed)

\* One round of the interpreter loop.
Executes(op, Handler(_)) ==
    /\ vm.running /\ ~Finished(vm)
    /\ Current(vm).op = op
    /\ vm' \in Handled(vm, Handler)
    /\ output' = IF vm'.running \/ vm'.aborted THEN output ELSE Append(output, Failed)

EndOp == Executes("END", End)
PopOp == Executes("POP", Discard)
NilOp == Executes("NIL", PushNil)
TrueOp == Executes("TRUE", PushTrue)
ConstOp == Executes("CONST", Constant)
AppendOp == Executes("APPEND", AppendElement)
FindOp == Executes("FIND", Find)
MakeFunOp == Executes("MAKEFUN", MakeFunction)
CallOp == Executes("CALL", Call)
MbtrCallOp == Executes("MBTRCALL", MaybeTailCall)
JnOp == Executes("JN", JumpIfNil)
LetOp == Executes("LET", Define)
PushEnvOp == Executes("PUSHENV", PushEnv)
PopEnvOp == Executes("POPENV", PopEnv)
CarOp == Executes("CAR", TakeCar)
CdrOp == Executes("CDR", TakeCdr)
SetCarOp == Executes("SETCAR", SetCar)
SetCdrOp == Executes("SETCDR", SetCdr)

Instructions == \/ EndOp \/ PopOp \/ NilOp \/ TrueOp \/ ConstOp
                \/ AppendOp \/ FindOp \/ MakeFunOp \/ CallOp \/ MbtrCallOp
                \/ JnOp \/ LetOp \/ PushEnvOp \/ PopEnvOp
                \/ CarOp \/ CdrOp \/ SetCarOp \/ SetCdrOp

-----------------------------------------------------------------------------
(* Machines. *)

MachineFields == {"heap", "next", "codes", "stack", "call_stack", "env", "temp_roots",
                  "forbid", "error_count", "gensyms", "printed", "print_result",
                  "running", "result", "aborted"}

ObjectFields == [cons |-> {"car", "cdr"}, symb |-> {"name"}, bind |-> {"bind"},
                 env |-> {"vars", "up"}, func |-> {"param_names", "bytecode", "env"}]

(* A scope is what stays of a machine while a program runs, and what the   *)
(* program has nothing to do with:                                         *)
(*   codes     all bytecode                                                *)
(*   runnable  the bytecode that functions may have, as indexes of codes   *)
(*   objects   of some objects, what is never assigned to                  *)
(*   garbage   addresses that no object but those at them refers to        *)

\* What no instruction assigns to, of an object.
Permanent(o) == [field \in DOMAIN o \ {"car", "cdr", "vars", "env"} |-> o[field]]

Addressed(scope, m) == DOMAIN m.heap \ scope.garbage

\* A value of the machine: no reference, or one to an object that is there.
Live(scope, m, v) == IF IsRef(v) THEN v[2] \in DOMAIN m.heap /\ v[2] \notin scope.garbage
                     ELSE v[1] \in {"nil", "true", "num"}

ObjectSound(scope, m, o) ==
    /\ o.kind \in DOMAIN ObjectFields
    /\ DOMAIN o = {"kind"} \cup ObjectFields[o.kind]
    /\ o.kind = "func" => o.bytecode \in scope.runnable
    /\ \A v \in References(m, o) : Live(scope, m, v)

FrameSound(m, f) ==
    /\ DOMAIN f = {"bytecode", "ip", "env", "func"}
    /\ KindOf(m, f.env) = "env"
    /\ KindOf(m, f.func) = "func" /\ At(m, f.func).bytecode = f.bytecode

IsStack(s) == s \in Seq(Range(s))

\* A machine as the operations of the virtual machine leave it.
SoundIn(scope, m) ==
    /\ DOMAIN m = MachineFields
    /\ m.next \in Nat /\ DOMAIN m.heap \subseteq 1 .. (m.next - 1)
    /\ m.codes = scope.codes
    /\ scope.garbage \cup DOMAIN scope.objects \subseteq 1 .. (m.next - 1)
    /\ IsStack(m.stack) /\ IsStack(m.temp_roots) /\ IsStack(m.call_stack)
    /\ m.forbid \in Nat /\ m.error_count \in Nat
    /\ \A a \in Addressed(scope, m) : ObjectSound(scope, m, m.heap[a])
    /\ \A a \in Addressed(scope, m) \cap DOMAIN scope.objects :
          Permanent(m.heap[a]) = scope.objects[a]
    /\ \A v \in RootValues(m) : Live(scope, m, v)
    /\ KindOf(m, m.env) = "env"
    /\ \A f \in Range(m.call_stack) : FrameSound(m, f)

\* Any bytecode, and every object.
Whole(m) == [codes |-> m.codes, runnable |-> DOMAIN m.codes,
             objects |-> <<>>, garbage |-> {}]

Sound(m) == SoundIn(Whole(m), m)

\* Verified bytecode, and the objects that can be reached.
Verifying(m) ==
    LET objects == [a \in DOMAIN m.heap |-> Permanent(m.heap[a])]
    IN  [codes |-> m.codes,
         runnable |-> {b \in DOMAIN m.codes : Verified(objects, m.codes[b])},
         objects |-> objects,
         garbage |-> DOMAIN m.heap \ Rooted(m)]

-----------------------------------------------------------------------------
(* Properties. *)

\* The machine, and the frames of the program it runs: no ip is outside the code.
TypeOK ==
    /\ Sound(vm) /\ IsStack(output)
    /\ \A f \in Range(vm.call_stack) :
          /\ f.bytecode \in DOMAIN vm.codes
          /\ vm.running => f.ip \in DOMAIN vm.codes[f.bytecode].ops

(***************************************************************************)
(* Nothing the machine can reach has been freed, whenever the collector    *)
(* runs: every handler keeps the objects it has popped or built rooted     *)
(* over each allocation it makes, and the function of each frame keeps the *)
(* bytecode the frame runs.                                                *)
(***************************************************************************)
NoDangling ==
    /\ Rooted(vm) \subseteq DOMAIN vm.heap
    /\ \A f \in Range(vm.call_stack) :
          KindOf(vm, f.func) = "func" /\ At(vm, f.func).bytecode = f.bytecode

(***************************************************************************)
(* A program leaves exactly one value on the stack when its last frame is  *)
(* popped, however its expressions and calls are nested: what the compiler *)
(* emits for each form nets one value.                                     *)
(***************************************************************************)
OneValueLeft == Finished(vm) => Len(vm.stack) = 1

(***************************************************************************)
(* Between two instructions the only temp root is the program itself, and  *)
(* collections are allowed: handlers undo what they push.  (They do not    *)
(* when they are left by a runtime error or by an assertion.)              *)
(***************************************************************************)
Balanced(m, results) ==
    Failed \notin Range(results) /\ m.error_count = 0 /\ ~m.aborted =>
        /\ m.forbid = 0
        /\ Len(m.temp_roots) = IF m.running THEN 1 ELSE 0

RootsBalanced == Balanced(vm, output)

(***************************************************************************)
(* No instruction finds what it takes for granted missing: the ip is in    *)
(* the code, the values an instruction reads are on the stack, its         *)
(* constant is in the pool and is a function where one is made of it, a    *)
(* jump stays in the code, and an environment that is popped has one       *)
(* above it.                                                               *)
(***************************************************************************)
Executable ==
    vm.running /\ ~Finished(vm) =>
        LET ip == CurrentFrame(vm).ip
            ops == Code(vm).ops
        IN  /\ ip \in DOMAIN ops
            /\ Len(vm.stack) >= Operands(ops[ip].op)
            /\ ConstantFits(vm.heap, Code(vm), ip)
            /\ ops[ip].op = "JN" => JumpTarget(ops, ip) \in DOMAIN ops
            /\ ops[ip].op = "POPENV" => /\ KindOf(vm, vm.env) = "env"
                                       /\ KindOf(vm, At(vm, vm.env).up) = "env"

-----------------------------------------------------------------------------
(* One program, whatever its bytecode, and whatever was run before. *)

\* A program is started on a machine that runs none.
ExecutionInit ==
    \E m, env, compiled :
        /\ Sound(m) /\ Balanced(m, output) /\ ~m.running /\ ~m.aborted
        /\ Live(Whole(m), m, env) /\ KindOf(m, env) = "env"
        /\ Live(Whole(m), m, compiled) /\ KindOf(m, compiled) = "func"
        /\ IsStack(output)
        /\ vm = Enter(m, env, compiled)

ExecutionNext == Finish \/ Instructions

ExecutionSpec == ExecutionInit /\ [][ExecutionNext]_execution

-----------------------------------------------------------------------------
(* One program whose bytecode is as hll_compiler.c emits it. *)

\* The machine a program is started on has verified bytecode only: that of the
\* functions that can be reached, their constants included.
CompiledFit == SoundIn(Verifying(vm), vm)

CompiledSpec == ExecutionInit /\ CompiledFit /\ [][ExecutionNext]_execution
=============================================================================
