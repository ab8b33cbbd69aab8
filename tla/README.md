# hololisp in TLA+

hololisp (`hololisp/`) is a Lisp in C: a reader and a compiler turn source text
into bytecode, a stack machine runs it, and a mark and sweep collector runs
inside any allocation. Everything happens on one thread. What is hard about it
is therefore not concurrency but *who still holds what when the collector
runs*, what a `longjmp` out of the middle of a handler leaves behind, whether
the code emitted for nested forms keeps the stack balanced, and whether the
optimiser may reuse a frame.

This directory is a model of that: TLA+ modules, TLC configurations, and proofs
checked by TLAPS. `PROJECT.json` lists the runs, the properties with a mutant
of the code each one catches, the source lines each definition stands for, the
hazards and the findings.

## 1. The system

| Component | State | Operations | Interacts with |
|---|---|---|---|
| Garbage collector (`hll_gc.c`) | `all_objs`, `gray_objs`, `temp_roots`, `forbid`, `bytes_allocated`, `next_gc`, `is_dark` of each object | `hll_gc_realloc`, `hll_collect_garbage`, push/pop temp root, push/pop forbid, `hll_delete_gc` | called by every constructor; reads the stacks and environments of the machine |
| Object model (`hll_value.c`) | objects: cons, symbol, bind, env, func | constructors, `hll_free_obj`, accessors | collector; functions share counted bytecode |
| Bytecode (`hll_bytecode.c`) | `ops`, `constant_pool`, `refcount` | emit, inc/dec refcount, `hll_optimize_bytecode` | filled by the compiler, run by the machine, its constants traced by the collector |
| Compiler (`hll_compiler.c`) | the function being emitted, `error_count`, `loc_stack`, `loc_op_idx` | one function per form, macro expansion, functions within functions | runs the machine for macros; forbids collections meanwhile |
| Lexer and reader (`hll_compiler.c`) | position, the token looked at, `errno`, the table of locations | `hll_lexer_next`, `hll_read_ast` | gives the compiler conses and symbols |
| Virtual machine (`hll_vm.c`) | value stack, call stack, `env`, `global_env`, `macro_env`, `err_jmp` | 18 instructions, `call_func`, `hll_interpret`, `hll_add_binding`, `hll_expand_macro` | everything |
| Builtins (`hll_builtins.c`) | a counter of `gensym`, the state of `random` | 34 C functions, and a prelude in Lisp | called with collections forbidden; may raise errors |
| Debug information (`hll_debug.c`) | run-length encoded locations, error count | add location, search, report | filled by the compiler, read by errors |
| Command line (`main.c`) | `hll_options`, exit status | parse arguments, read a file, REPL, dump | one machine per process |
| Memory (`hll_mem.c`) | | `hll_realloc` | everything |

What is hard in each, and what makes it correct:

* **Collector.** It runs in the middle of a constructor; objects form cycles; one
  forgotten flag spoils the *next* collection. Correct: no accessible object is
  freed (`NoDangling`), everything else is (`NoFloatingGarbage`), a collection
  ends (`CollectionEnds`), `forbid` is obeyed (`ForbidRespected`).
* **Bytecode.** Closures share bytecode and its constants. Correct: the count is
  exact and constants live as long as a closure (`RefcountMatches`,
  `KeepsPromise`). The optimiser must mark only calls after which nothing is left
  to do (`OptimizedVerified`, `Correct`), and all the usual ones (`FramesBounded`).
* **Machine.** Each handler pops values and then allocates. Correct: what it
  needs later is rooted (`NoDangling`), the roots are undone (`RootsBalanced`).
* **Compiler.** Each form nets one value on every path, jumps are patched after
  the fact. Correct: all it emits is bytecode that can be run (`ProgramsFit`,
  `Executable`, `OneValueLeft`), `Terminates`, and the results the tests expect
  (`Correct`).
* **Errors.** A compile error, a run-time error at any depth and an error in a
  macro must leave a machine that runs the next program (`Correct`, `NoDangling`).
* **Lexer.** One automaton decides where a token ends and what it is, one character
  past its end. Correct: it finds the tokens that the rules say the text has
  (`FindsTokens`) and never looks past the text (`StaysInText`).
* **Reader.** Recursive, with an error possible at each token, after each of which it
  goes on. Correct: it reads what the grammar says and reports an error exactly when
  the grammar has none (`ReadsGrammar`), it ends (`ReadingEnds`), and each expression
  keeps its place in the text though addresses collide in the table
  (`LocationsKept`).
* **Locations.** Runs of instructions are closed when a form is entered and left;
  nothing but their lengths says what they belong to. Correct: a search ends
  (`LocationFound`) near the form that failed (`ReportsNearby`).
* **Boxing.** A kind must be told from the bits of any double and any pointer:
  `TestsExact` and `KindsKept`.
* **Process.** Modes override each other, a REPL goes on after errors. Correct:
  output and exit status are those the test script relies on (`ExitsAsTested`), and
  the process exits (`Terminates`).

## 2. Modules

Collector:

| Module | Models | State and actions against the code |
|---|---|---|
| `Reachability` | reachability in the reference graph | least closed set, written without recursion so that it can be reasoned about |
| `HeapSpec` | what the collector promises | `live`, `edges`, `roots`; `Mutate`, `Allocate`, `Reclaim`, `Shutdown` |
| `GC` | `hll_gc.c`, the constructors and `hll_free_obj`, reference counts | `kind`/`body`/`code` are the objects, `pool`/`refcount` the bytecodes, `held` the root lists, `locals` what C variables hold. `Allocate` is a constructor that does not collect; `StartCollection`, `Blacken`, `StartSweep`, `Sweep`, `FinishCollection` are the parts of one that does. `Store`, `AddConstant`, `Hold`, `Drop`, `PushForbid`, `PopForbid` are what the rest of the interpreter does between allocations; `DeleteGc` is `hll_delete_gc`, `OutOfMemory` the `exit` of `hll_realloc` |
| `MCGC` | instances for TLC | |

Lexer, reader and locations:

| Module | Models |
|---|---|
| `Tokens` | what the tokens of a text are, without an automaton: words, blanks, the kind of a word. As a specification it gives one token after the other |
| `Lexer` | the automaton of `get_next_state`, one transition per character (`Scan`), and `hll_lexer_next` around it (`Begin`, `Finish`), with the `errno` it finds. It implements `Tokens` |
| `Reader` | `read_list` and `read_expr` with their C stack made explicit (`stack`), one action per branch of their code, `peek_token` running the lexer, and the hash table of locations: `get_location_entry_idx` is a walk over cells, a cell being the slot or the field `next` of an entry |
| `Grammar` | what a sequence of tokens stands for, by the grammar, and the properties of the reader |
| `MCReader` | texts for TLC |
| `Locations` | `compiler_push_location`, `compiler_pop_location`, `hll_bytecode_add_loc`, `hll_bytecode_get_loc`, for any nesting of forms and functions |

Values:

| Module | Models |
|---|---|
| `Boxing` | `hll_value.c` bit by bit where it matters: sign, the bits of `HLL_QNAN`, the rest; constructors, tests and `hll_get_value_kind` |

Machine, compiler and process:

| Module | Models |
|---|---|
| `Lisp`, `Lists` | expressions as trees: what the reader gives the compiler and the printer shows; lists of them taken apart. They are two modules because `Reader` needs only the first, which has no recursive operator |
| `Bytecode` | instructions and the marking of tail calls |
| `Store` | heap, roots, allocation, environments. An allocation either collects first, in one step, or does not: that a whole collection amounts to this is what `GC` shows |
| `Builtins` | the 34 builtins, each as the set of its outcomes: a value, an error, or a failed assertion |
| `Machine` | the handlers of the interpreter loop, `call_func`, runtime errors, a whole run (for macros); `hll_make_vm` and `hll_add_binding` |
| `Verifier` | what the loop takes for granted of the bytecode it runs: along each way through a function values and environments balance, constants are there, jumps stay in the code. No code checks it; the handlers rely on it |
| `Compiler` | every form, functions, macros, `hll_expand_macro`, `hll_compile` |
| `Execution` | `hll_interpret_bytecode`: a program that has been compiled runs, one action per instruction; `Sound`, what every operation may rely on. As a specification of its own, any bytecode on any sound machine (`ExecutionSpec`), or one that can come to call verified functions only (`CompiledSpec`) |
| `VM` | the new machine, then `hll_interpret` for one program after the other, each run by `Execution` |
| `Main` | the process of `main.c`: the command line, the file, the string or the REPL that gives `VM` its programs, and the exit |
| `Evaluator` | no code: what a program means, by evaluation of its text in environments, without bytecode, stack, frames or heap. The reference for `Correct` |
| `MCVM` | the processes, with the programs of `tests/test_lisp.sh` and the results it expects, and programs that are enumerated, with the results `Evaluator` gives |

`Main` extends `VM`, which extends `Compiler` and `Execution`. `Compiler` extends
`Machine`, `Execution` extends `Verifier`, which extends `Machine`; and that extends
`Builtins`, `Store`, `Lisp` and `Bytecode`. Only `Compiler` needs `Lists`:
no module under `Execution` has a recursive operator, so that it can be reasoned about. A machine is one record, so that the compiler
can run a macro on it. `Reader` extends `Lexer`, `Grammar` extends `Reader`. `GC`
instantiates `HeapSpec` and `Lexer` instantiates `Tokens` for the refinements.
`Main` makes the machine before it reads the command line, where the code makes it
after: nothing in between depends on it.

Conventions. Operators have the name of the C function they model where there is
one. An instruction is one element of `ops` and a jump counts instructions: the
widths of operands do not matter to control flow. In `Machine` a handler gives the
*set* of machines it may end in, one for each choice to collect or not. An
assertion of the code that fails sets `aborted` and stops the machine. Addresses
are never reused in `Store`, so a reference to a freed object is seen to dangle; in
`GC` they are reused.

A definition whose comment begins with "Mutant" is not part of the model. It is the
definition below it with a plausible mistake, and `PROJECT.json` says which property
is violated when it is put in its place.

## 3. Runs

| Run | Instance | Distinct states | Checks |
|---|---|---|---|
| `gc_functions` | 4 addresses, 2 of them the fixed environments; functions and conses, one bytecode, stack and call stack | 209270 | `TypeOK`, `RefcountMatches`, `MarkSweepInv`, `KeepsPromise`, `NoFloatingGarbage`, `ForbidRespected` |
| `gc_envs` | 4 addresses; environments and conses, `vm->env` | 431164 | `NoDangling` |
| `gc_threshold` | 4 addresses; no `HLL_STRESS_GC`, sizes in words, conses, temp roots | 79993 | `CollectionEnds` |
| `reader` | 16 thousand texts | 921070 | `StaysInText`, `FindsTokens`, `ReadsGrammar`, `LocationsKept`, `ReadingEnds` |
| `locations` | 5 instructions, 4 forms, 3 functions | 297148 | `LocationFound`, `ReportsNearby` |
| `vm_suite` | 56 processes, and 770 enumerated programs | 130346 | `TypeOK`, `NoDangling`, `Correct`, `ProgramsFit`, `Executable`, `OneValueLeft`, `RootsBalanced`, `FramesBounded`, `ExitsAsTested`, `Terminates` |
| `gc_bytes`, `vm_let`, `vm_assert`, `vm_forbid`, `locations_functions`, `boxing` | | | findings, section 6 |

**Bounds of `GC`.** With four addresses there are two objects besides the fixed
environments: enough for a cycle, for an object that is garbage while another one
refers to it, for an environment that only another one refers to, for two closures
of one bytecode, for a constant that only a bytecode keeps, and for reuse of an
address. Memory runs out soon, then: an allocation that finds no free address, after
its collection if it has one, is the `exit` of `hll_realloc`. `MaxHeld` = 2 bounds
the entries of the root lists, of which `vm->env` is one, and `MaxForbid` the nesting
of `hll_push_forbid_gc`: 1 in `gc_functions`, where `ForbidRespected` is checked, 0
in the others. Each run enables the root lists (`Classes`) and kinds (`Kinds`)
it is about; together they have all four lists and every kind with references. Only
`gc_threshold` and `gc_bytes` give objects a size: in `gc_functions` what `TypeOK` says
of `bytes_allocated` and `next_gc` holds because both stay 0; for all sizes it is part
of the theorem `TypeCorrect`.
Symbols and binds have no references, and to the collector differ from a number in
being freed only. The proofs have none of these bounds. Deadlock is checked; the
only state without an effective step is "deleted", which stutters. The two runs with
invariants and action properties use symmetry in the two free addresses; the
liveness run does not.

**Bounds of the reader.** A character is a representative of its class
(`get_equivalence_class` tells no more apart), `99` being a number out of range. The
texts are every sequence of three classes, of four of those that words are made of,
of five of those that lists and quotes are made of, and of seven parentheses and
dots: enough for each transition of the automaton, a token of three characters next
to any other, two levels of lists with an error in either, and recovery followed by
more text. Each is read with `errno` clear and with a stale `ERANGE`. The table has
two slots instead of thousands, so that chains of several colliding addresses
occur. Deadlock is not checked: the reader ends, and `ReadingEnds` says so. The
proofs have no bound on the text, the table or the addresses.

**Bounds of `Locations`.** A unit is any nesting of four forms, recorded or not, in
three functions, with five instructions in any place. A run is lost or misplaced
within two forms and three instructions, so longer units repeat the pattern; the
proofs have none of these bounds.
Deadlock is not checked: a unit ends.

**Bounds of `Main` and `VM`.** There are none on a run: each program is run to its
end, with the choice to collect at *every* allocation, so a script stands for all the
moments the collector may choose. What is bounded is the set of processes. Their
programs cover every form, every instruction, every builtin with its errors,
closures over a let and over arguments, dotted parameters, tail calls through either
arm of an `if` and out of a `let`, macros that expand into macros, those of the
prelude among them, and for errors: a builtin, a field of a non-cons, an unknown
variable, a missing argument, something that is not callable, a macro with the wrong
arguments, a macro that fails, a macro defined twice, each kind of compile error, a
`let` that the compiler gives up halfway through, and an error under a call, a let and a
list. After each, further programs run on the same machine. The command lines cover
every option, each mode overriding another, missing and unknown arguments, missing and
empty files, and a dump of a file that does not compile.

The results `Correct` compares with are of two kinds. Those of the 56 processes are
literal; the ones of scripts quoted from `tests/test_lisp.sh` are what the tests expect,
and the other scripts say where they come from. Those of the 770 further processes are
computed by `Evaluator`. Each of these defines a global variable and a function `f`
whose body is made: any of fifteen forms (`if` in each of its places and with a call of
`f` itself, `let` in both places, `set!`, `define`, `progn`, `list`, `cons`, `car`, a
closure, a call of what is not always one) around any of them around a variable, the
parameter or a closure; or an `if` of three of five such forms. So each form occurs in
tail position and out of it, under a `let` and a function that shadow the variable, and
in programs that end in an error; then the variable is looked at again. Longer nestings
repeat these pairs. No program has a body that ends in a dot (section 6):
`ProgramsFit`, `Executable` and `OneValueLeft` are about bodies that are proper lists.
Conses that are set and macros stay with the literal scripts: the evaluator has neither.
`EvaluatorAgrees`, an assumption TLC evaluates, says that it gives what the tests expect
for the sixteen scripts that use only what it knows.

**Fairness.** In `GC`, `WF_vars(Collect)`: `hll_collect_garbage` is a loop that
nothing interrupts. Nothing is assumed of the client. In
`Reader`, `WF_readerVars(ReaderNext)`: one thread reads a text that is all there. In
`Main`, the steps of the one thread are weakly fair; `Fairness` is `WF_mainVars(Runs)`
with its ENABLED written out as `~Ended` (the process has not exited, and no assertion
has failed), because evaluating ENABLED would compile the program again for each
state. That a step can be taken until the process has ended is checked too: a state
without a successor would be a deadlock, and TLC reports those. All the input of a
REPL is there from the start; nothing is said of a user who stops typing. A machine
that an assertion has stopped only stutters, so `Terminates` also says that none does.

## 4. Proofs

TLAPS checks, for every finite set of addresses, every set of bytecodes, every
configuration and every order of marking and sweeping (module `GC_proofs`):

* `TypeCorrect`, `RefcountCorrect`, `MarkSweepCorrect`, `NothingDangles`: the
  invariants of `GC`;
* `Refinement`: `Spec => H!Spec`, so the collector implements `HeapSpec`;
* `ForbidCorrect` and `CollectionExact`: the two action properties;

and in `HeapSpec_proofs` that the abstract heap never takes an accessible object
(`AbstractSafety`). That module also has the facts about reachability everything
rests on: it contains the roots, it is closed, it is the least such set, and it
depends only on the edges of what is reachable. `GC_proofs` cites them through its
instance of `HeapSpec`, where reachability is the same.

*Assumptions.* Those `GC` states as ASSUME: `Obj` is finite, the two fixed
environments are two different objects, sizes are natural numbers, thresholds fit in
a word. TLC evaluates them in every run. They say nothing of `Stress` or of the
sizes of heaps: safety does not depend on when a collection starts.

*The argument.* `NoDangling` is not inductive: whether a sweep step is harmless
depends on what is marked. The invariant is

    SafeInv == Base /\ MarkSweepInv /\ NoDangling

`Base` is types, exact reference counts, and that the sweep has only allocated
objects left to visit. `MarkSweepInv` says, while marking, that dark objects are
reachable, that the roots are dark, and that a dark object which is no longer gray
has dark references only; so when no gray object is left the dark ones are exactly
the reachable ones. While sweeping it says that `is_dark` tells exactly the
reachable objects among those not visited. An object that is freed is then not
reachable, and freeing it changes no edge of a reachable object (`FreeKeepsRefs`);
that needs exact reference counts, because the constants of a bytecode are edges of
all its closures. `StepMaps` takes each action of `GC` to one of `HeapSpec` or a
stutter; `NoDangling` of the next state follows from that of `HeapSpec`. The object
that waits for the collection is the reason for the third part of the phase
invariant: what it will point to (`Wanted`) must be rooted, which the contract of
the client (`MayUse`) provides. TLC checks `TypeOK`, `RefcountMatches`,
`MarkSweepInv` and `NoDangling` on the instances.

**The lexer** (`Lexer_proofs`), for every set of texts: `InText` (it never looks
past the terminator), `Refinement` (`Spec => FindsTokens`, the automaton implements
`Tokens`) and `EofRepeats`. The invariant `IInv` says what the automaton knows in
each state of the characters since `token_start` (`Shape`: all are of the body of the
first one's class; in `NUMBER` they are a number; in `SYMB` there is already one that
makes the word no number and no dot) and in each final state that the token is the
one `Tokens` wants (`Found`). One lemma per state shows that a transition keeps it;
`EndIsUnique` says that the end of a token is determined by where it starts, and so
that the automaton has stopped where `Tokens` does.

**Boxing** (`Boxing_proofs`), for parts of a word of any size that satisfy `Sizes`,
those of the code among them: `ExactTests` and `KindsAreKept`. `TestsExact` is not
inductive, since what `hll_is_cons` says depends on the heap; `Boxed` is: it says how a
value of each kind is represented, and for an object that its kind is on the heap at
its address. `KindsAreKept` delimits the finding `boxing`: doubles with a last byte
other than zero are the only values with a wrong kind, so that programs with integers
of fewer than 45 bits, which the other modules are about, are not touched by it.

**The reader** (`Reader_proofs`), for every set of texts, every number of slots and
all sequences of different addresses: `LocationsAreKept` (`LocationsKept`, and with it
the assertion of `store_location`), and `LexerRuns`, `ReaderSpec => Spec`, by which
what was proved of the lexer is true of it in the reader (`ReaderInText`,
`ReaderFindsTokens`). `LocationsKept` is not inductive, since it does not say where a
search comes by. `LocsInv` is: the entries are those of the addresses so far, and the
table is `LinkedUpTo` its length, which is to say that the cell of each entry, and each
slot, leads to the *next* entry of the slot, or is 0 if there is none (`Chained`). So a
walk only goes up, hence ends (`WalkEnds`); on the way to an entry it can pass by
earlier ones only, which have other hashes (`WalkStays`); and where it ends without
finding one is the last cell of the slot, where `store_location` writes
(`StoreLinks`). Entry 0, which no cell leads to, is found because every search that
fails gives 0. `Walk` is a function that calls itself: `WalkUnfolds` shows that there
is one, from `WalkEnds`, before anything is said of its values.

**The machine** (`Execution_proofs`), for every bytecode, on every machine that
satisfies `Sound`, however large and whatever ran on it before: `NoDanglingAlways` and
`RootsBalancedAlways`, theorems of `ExecutionSpec`. That specification starts one
program, with the one temp root of `hll_interpret_bytecode_internal`, on a machine that
runs none, and takes its instructions one by one; it does not ask for the bytecode to
come from the compiler. That such machines exist is `MakeVmSound`: the one `hll_make_vm`
gives is one, with any builtins and with a collection at any allocation of
`hll_add_binding`.

Neither property is inductive. `NoDangling` speaks of what is reachable; but `setcdr!`
may make reachable, and a handler may look at, anything that is there. `Sound` says that
*every* object there refers to objects that are there, that each has the fields of its
kind, that the roots are there and that environments are environments. An allocation
with a collection keeps that, since what is left is closed: `Reached`, a loop of
generations, is the least closed set that contains the roots (`ReachedClosed`,
`ReachedLeast`; it ends in time because a generation that marks no object of the heap is
the last, and every other leaves an object less). What an allocation
does *not* keep is an object that is not rooted, and this is the obligation of each
handler: `Held` is a value that is rooted, `Keeps` a step that leaves rooted objects
rooted and what they are. `AllocatedIs` shows that an allocation of an object whose
fields are held is such a step, `AddVariable` that `hll_add_variable` is, with its two
allocations and the temp root between them; so are the loops over parameters
(`BindEachKeeps`), and from these follows what each handler needs after it has
allocated. Builtins run while collections are forbidden: for them `Tame` is enough, a
sound machine with the roots it had (`BuiltinTame`, all 34). A handler ends in an
assertion, in an error, or with the temp roots, `forbid` and count of errors it was
given (`Handles`, one lemma per instruction), and this is `RootsBalanced`. The loops of
the code are recursive functions here; what they compute is shown by induction on their
arguments (`UpTo`), in the form of an invariant of the loop.

All of this is proved for a *scope*, of which `Sound` is the widest case: the bytecode
that functions may have (`runnable`), what is never assigned to in the objects there
are, and which of them are garbage. `SoundIn(scope, m)` says that every object which is
not garbage of the scope, those that handlers are yet to make included, is a function
with runnable bytecode if it is a function at all. With `Whole` the scope says nothing;
with `Verifying` it says that the program can come to call verified functions only.
`TypeOK` of `vm_suite` has `Sound`, and `ProgramsFit` says that each program starts in
the scope `Verifying`: in every state TLC visits, the compiler and the macros it runs
have handed over such a machine, so that the proofs are about the programs of `VM` too.

**Verified bytecode** (`Verifier_proofs`), for any number of verified functions of any
length that call each other in any way: `TypeOKAlways`, `OneValueLeftAlways` and
`ExecutableAlways`, theorems of `CompiledSpec`. What that assumes beyond `ExecutionInit`
is `CompiledFit`, the scope `Verifying`. That the compiler provides it is what TLC checks
(`ProgramsFit`, at the start of each program); it cannot be a theorem, since the compiler
is recursive over trees.

Functions are verified one by one: `VerifiedBy` gives each instruction a level, the
values its function has on the stack and the environments it has pushed, and says that
they fit along every way through the code. `OneValueLeft` and `Executable` are about
the stack of all frames together, and neither is inductive. The invariant is `FitIn`:
the machine is sound in its scope and the scope is verified, and while a program runs
* each frame is in its code, each but the last behind a call (`Controlled`);
* the stack is as high as the levels of the frames add up to, a frame that waits
  counting for one less than its level after the call, since the value of the call is
  still to come (`Heights`);
* each frame is in an environment with as many above it as it has pushed (`EnvsFit`),
  so that POPENV never leaves the environments of the function.

A JN behind a NIL is how the compiler jumps always, and what is behind it is not reached
from it: its level is that of another way. So `Controlled` also says that a frame at
such an instruction has nil on top of the stack. One lemma per kind of step takes each of
the three parts along: a step within a function, a call, a call that uses the frame
again, an END. The last but one is where the optimiser matters: a frame may only be used
again if the function has the argument and the callee of the call on the stack and
nothing else, and so `LevelFits` asks for exactly two values at a MBTRCALL.
`OptimizedVerified` proves that `hll_optimize_bytecode` marks no others: if a function is
verified, it is verified, with the same levels, after its calls have been marked. Where
`IsTail` follows jumps and scope ends to an END, the level is one value all the way
(`TailLevels`, by induction from the end of the code, since jumps go forward), so
the call before it finds two.

**The locations** (`Locations_proofs`), for any number of forms, functions and
instructions: `LocationFoundAlways` and `ReportsNearbyAlways`. `LocationFound` speaks
of finished functions only. `RunsInv` adds, of each compiler at work, that what it has
accounted for is in the runs of the unit (`loc_op_idx <= Total`) and that outside of
every form the rest cannot fail, so that nothing is missing when it is done. `NearInv`,
for a unit without functions, says that the runs hold exactly what the one compiler has
accounted for, that each instruction since was made for the form on top of its stack,
and that neighbours on the stack are neighbours in the program. The sums are
those of `Reach`, a recursive function; that they exist and grow with a run is proved
from the least-number principle (`NatLeast`), which `WellFoundedInduction` gives as a
fact about sets, not as an operator.

Only model-checked: `CollectionEnds`, `ReadingEnds` and `Terminates` (liveness);
`ReadsGrammar`, whose reference definition is recursive; and, of `Main` and `VM`,
`Correct`, `ProgramsFit`, `FramesBounded` and `ExitsAsTested`, which depend on what the
compiler emits: its modules use recursive operators on trees and lists. That the
compiler, and the macros it runs, leave the machine sound is checked for the same reason
(`TypeOK`), not proved.

## 5. What is left out

* The hash of names (names are compared themselves), arithmetic on numbers that are
  not small integers, the text of messages, line and column.
* The encoding: operand widths, the limit of 16 bits on constants and jumps.
* In `VM`, programs start as expressions: that the reader makes the expression of a
  text is what `reader` checks. The objects the reader would make are made where the
  compiler uses them; collections are forbidden in both places.
* The state of `random`: any number of the interval may come.
* `append` of one list several times, which makes a cycle that nothing can print (the
  proofs about the machine include it).
* `hll_add_binding` between programs, `hll_config` callbacks, growth of stretchy
  buffers, lines of a REPL longer than its buffer, the count of leaks of a build with
  `HLL_MEM_CHECK`.
* The web front end and the unit tests.

In `GC`, marking and sweeping pick objects in any order, where the code has a
queue and a list; the code's order is one of those checked. `Hold` and `Drop` keep
the set of objects on a root list, not its order. The client of `GC` is any program
that uses, after an allocation, only what is rooted; that `hll_vm.c` is such a program
is what `NoDanglingAlways` proves of the interpreter loop and the builtins, and
`MakeVmSound` of `hll_add_binding`.

## 6. Findings

* `gc_bytes`: `bytes_allocated` is not the number of allocated bytes. A collection
  counts survivors without the payload of conses, then subtracts what it frees from
  a count those objects are not in, and forgets the object being allocated.
* `vm_let`: `HLL_BC_LET` does not report a name that is defined already, as its
  comment says; it shadows it.
* `vm_assert`: `(setcdr! () 1)` reaches the assertion of `hll_unwrap_cons`.
* `vm_forbid`: a runtime error in a builtin leaves collections forbidden for the rest
  of the machine's life.
* `locations_functions`: all functions of a unit share one run-length encoding, which
  is searched from its start for each: `(define (f x) (+ x 1))` and then `(car 5)`
  report the error within `f`.
* `boxing`: `hll_get_value_kind` takes the last byte of a double for its kind.
  `(/ 1 3)` ends the process at `HLL_UNREACHABLE`, `(number? (/ 1 3))` is false,
  4503599627370497 is printed as `()`.

Seen, but without a run of its own: temp roots that are left behind by an error
(`hll_vm.c:466`, `:498`) keep their objects for good; `vm->stack` dangles between
programs (`hll_vm.c:464`); a macro that fails while a program is compiled does not
keep the program from being run; after one literal out of range every number is
refused (`hll_compiler.c:439`); `eq?` is true of values that differ; `(random 0)`
divides by zero; a body that ends in a dot, as in `(progn 1 . 2)`, leaves no value on
the stack, since `compile_progn_internal` drops every value that nil does not follow
(`hll_compiler.c:907`); an error in a function of an earlier line of a REPL is located in the
text of the latest one (`hll_debug.c:68`). They are listed as hazards, or stated by the
models and by the expected results of `MCVM` as what the code does.

## 7. Plan

Done, in the order of importance: the collector with its proofs; the machine with the
compiler; all builtins and the process around them; lexer and reader with their
references; locations; boxing; an evaluator as the reference for programs; verified
bytecode and the optimiser. Left, in this order:

1. **Proofs.** That `hll_expand_macro` and the compiler keep a machine sound and emit
   verified bytecode, which would carry the proofs about one program over to the machine
   that runs one after the other. It takes a compiler written with recursive functions
   on numbered nodes instead of recursive operators on trees.
2. **Encoding.** Constants and jumps with a small word in place of 16 bits.
3. **Embedding.** `hll_add_binding` as an action between programs, with the stacks that
   the program before it has left dangling.
