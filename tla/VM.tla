--------------------------------- MODULE VM ---------------------------------
(***************************************************************************)
(* A virtual machine and the programs it is given one after the other with *)
(* hll_interpret, as the REPL does: each is compiled, and run one          *)
(* instruction at a time.  Any allocation of the run may collect.          *)
(***************************************************************************)
EXTENDS Compiler, Execution

CONSTANT
    Scripts         \* what the machine may be asked to do

\* bindings: the builtins of add_builtins that it uses, in order.
\* programs: what hll_interpret is given, each a list of expressions.
\* outputs: what each is to give.
\* frames: how many frames the programs need at a time.
ScriptFields == {"bindings", "programs", "outputs", "frames"}
ASSUME ScriptAssumption ==
    \A s \in Scripts : /\ ScriptFields \subseteq DOMAIN s
                       /\ Len(s.programs) = Len(s.outputs)

VARIABLE
    script

vars == <<vm, script, output>>

\* The program that is running, or the next one.
Program == Len(output) + 1

-----------------------------------------------------------------------------
Init == /\ script \in Scripts
        /\ vm \in hll_make_vm(script.bindings)
        /\ output = <<>>

-----------------------------------------------------------------------------
(* hll_interpret *)

Compiled == hll_compile([vm EXCEPT !.error_count = 0], script.programs[Program])

\* The program is compiled and started.
Interpret ==
    /\ ~vm.running /\ ~vm.aborted
    /\ Program <= Len(script.programs)
    /\ \E compiled \in {Compiled} :
       /\ compiled.ok
       /\ vm' = IF compiled.vm.aborted THEN compiled.vm
                ELSE Enter(compiled.vm, GlobalEnv, compiled.value)
    /\ UNCHANGED <<script, output>>

\* The compiler has reported errors.
Reject ==
    /\ ~vm.running /\ ~vm.aborted
    /\ Program <= Len(script.programs)
    /\ \E compiled \in {Compiled} :
       /\ ~compiled.ok
       /\ vm' = compiled.vm
       /\ output' = Append(output, Failed)
    /\ UNCHANGED script

\* hll_interpret, of one program after the other.
Step == Interpret \/ Reject \/ (ExecutionNext /\ UNCHANGED script)

\* The programs are done.
AllDone == Program > Len(script.programs) /\ ~vm.running /\ ~vm.aborted

-----------------------------------------------------------------------------
(* Properties. *)

\* A program has just been entered.
Started ==
    /\ vm.running /\ vm.stack = <<>>
    /\ Len(vm.call_stack) = 1 /\ vm.call_stack[1].ip = 1

(***************************************************************************)
(* Whatever is compiled, after whatever has been run, every function that  *)
(* the program can come to call, a closure or macro of an earlier program  *)
(* or a constant of one that is yet to be made among them, is verified     *)
(* bytecode: along each way through it, jumps and marked calls included,   *)
(* values and environments balance.                                        *)
(***************************************************************************)
ProgramsFit == Started => CompiledFit

(***************************************************************************)
(* Programs give what tests/test_lisp.sh expects of them, or what module   *)
(* Evaluator makes of their text, whenever the collector runs.             *)
(***************************************************************************)
Correct == \A i \in DOMAIN output : output[i] = script.outputs[i]

(***************************************************************************)
(* Named functions that call themselves in tail position, through either   *)
(* arm of an if and out of a let, do so in one frame.                      *)
(***************************************************************************)
FramesBounded == Len(vm.call_stack) <= script.frames

-----------------------------------------------------------------------------
(* What comments and assertions of the code say, and it does not do. *)

(***************************************************************************)
(* HLL_BC_LET: "If variable with same name is defined in current env,      *)
(* error."  So no environment has two variables of one name.               *)
(***************************************************************************)
DefinedOnce ==
    \A a \in DOMAIN vm.heap : vm.heap[a].kind = "env" =>
        IsInjective([i \in DOMAIN Items(vm, vm.heap[a].vars) |->
            At(vm, At(vm, Items(vm, vm.heap[a].vars)[i]).car).name])

(***************************************************************************)
(* The assertions of hll_unwrap_cons, and those of the compiler and the    *)
(* other handlers, hold whatever program is run.                           *)
(***************************************************************************)
AssertionsHold == ~vm.aborted

(***************************************************************************)
(* The collector runs when bytes_allocated has passed next_gc: it is not   *)
(* forbidden any more when a program has ended, well or not.               *)
(***************************************************************************)
AllowedBetweenPrograms == ~vm.running => vm.forbid = 0
=============================================================================
