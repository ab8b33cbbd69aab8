----------------------------- MODULE Locations ------------------------------
(***************************************************************************)
(* How an instruction is mapped to the source it was compiled from.  The   *)
(* compiler keeps a stack of the forms it is in; whenever it enters or     *)
(* leaves one, the instructions emitted since the last time become a run   *)
(* of the unit's run-length encoding.  All the functions of a translation  *)
(* unit share one encoding, in which hll_bytecode_get_loc counts           *)
(* instructions from the start of the function that runs.                  *)
(*                                                                         *)
(* What the forms are is left open: a program here is any nesting of forms *)
(* and functions and any number of instructions between them.              *)
(***************************************************************************)
EXTENDS Integers, Sequences, SequencesExt, FiniteSets, FiniteSetsExt

CONSTANTS
    MaxOps,         \* bound on the instructions of the unit
    MaxForms,       \* bound on its forms
    MaxFunctions    \* bound on its bytecodes, that of the unit included

ASSUME BoundsAssumption == MaxOps \in Nat /\ MaxForms \in Nat /\ MaxFunctions \in Nat \ {0}

VARIABLES
    compilers,      \* one per function being compiled, innermost last
    ops,            \* of each function: the form that made each instruction
    parent,         \* of each form, the form it is in; 0 for none
    recorded,       \* the forms with an entry in the table of locations
    loc_rle         \* dtu->loc_rle with dtu->locs: runs with the form they name

vars == <<compilers, ops, parent, recorded, loc_rle>>

\* A constant or nil that hll_compile_ast emits itself: it has no form, and
\* does not fail.
NoForm == 0

Functions == DOMAIN ops
Forms == DOMAIN parent

\* get_location_entry gives the entry 0 for what has none: that of whichever
\* cons the reader has recorded first, which is no form in particular.
FirstEntry == 0
Location(form, isRecorded) == IF isRecorded THEN form ELSE FirstEntry

-----------------------------------------------------------------------------
Compiler == Last(compilers)
Ops == ops[Compiler.fn]
Top == Last(Compiler.loc_stack)
Pending == Len(Ops) - Compiler.loc_op_idx

\* hll_compiler_loc_stack_entry, with the form it is the location of.
Entry(form, loc, kind) == [form |-> form, loc |-> loc, kind |-> kind]

\* hll_compiler_init, and the list of expressions that hll_compile_ast pushes.
NewCompiler(fn, entry) == [fn |-> fn, loc_stack |-> <<entry>>, loc_op_idx |-> 0]

hll_bytecode_add_loc(loc) == Append(loc_rle, [length |-> Pending, loc |-> loc])

\* compiler_push_location: what is pending gets the location of the form that
\* is being entered.
push_location(entries) ==
    /\ compilers' = Append(Front(compilers),
                           [Compiler EXCEPT !.loc_stack = @ \o entries,
                                            !.loc_op_idx = Len(Ops)])
    /\ loc_rle' = IF Pending > 0 THEN hll_bytecode_add_loc(Head(entries).loc) ELSE loc_rle

\* Mutant: the start of the run is not moved on.
pop_locationStays ==
    LET left == Front(Compiler.loc_stack)
    IN /\ compilers' = Append(Front(compilers), [Compiler EXCEPT !.loc_stack = left])
       /\ loc_rle' = IF left # <<>> /\ Pending > 0
                     THEN hll_bytecode_add_loc(Last(left).loc) ELSE loc_rle

\* Mutant: leaving a form starts a new run, but what is pending gets none.
pop_locationNoRun ==
    LET left == Front(Compiler.loc_stack)
    IN /\ compilers' = Append(Front(compilers),
                              [Compiler EXCEPT !.loc_stack = left, !.loc_op_idx = Len(Ops)])
       /\ UNCHANGED loc_rle

\* compiler_pop_location: what is pending gets the location of the form around
\* the one that is left, or none when there is none.
pop_location ==
    LET left == Front(Compiler.loc_stack)
    IN /\ compilers' = Append(Front(compilers),
                              [Compiler EXCEPT !.loc_stack = left, !.loc_op_idx = Len(Ops)])
       /\ loc_rle' = IF left # <<>> /\ Pending > 0
                     THEN hll_bytecode_add_loc(Last(left).loc) ELSE loc_rle

\* How many instructions the first n runs of rle are for.
Reach(rle) == LET reach[n \in 0 .. Len(rle)] ==
                      IF n = 0 THEN 0 ELSE reach[n - 1] + rle[n].length
              IN  reach

\* The run of rle with instruction k, counted from 0, or 0 past the last run.
RunOf(rle, k) == LET runs == {n \in DOMAIN rle : k < Reach(rle)[n]}
                 IN  IF runs = {} THEN 0 ELSE Min(runs)

\* hll_bytecode_get_loc
hll_bytecode_get_loc(k) == loc_rle[RunOf(loc_rle, k)].loc

-----------------------------------------------------------------------------
NewForms == {form \in {Len(parent) + 1} : form <= MaxForms}
NewForm(form, outer, isRecorded) ==
    /\ parent' = Append(parent, outer)
    /\ recorded' = IF isRecorded THEN recorded \cup {form} ELSE recorded

Emitted(form) == [ops EXCEPT ![Compiler.fn] = Append(@, form)]
Room == FoldFunction(LAMBDA s, n : Len(s) + n, 0, ops) < MaxOps

\* hll_compile_ast on the list of expressions of the unit; the list is the
\* first form of it.
Init == /\ compilers = <<NewCompiler(1, Entry(1, 1, "ast"))>>
        /\ ops = <<<<>>>>
        /\ parent = <<0>>
        /\ recorded = {1}
        /\ loc_rle = <<>>

\* An expression of the list that is a form: hll_compile_ast pushes its
\* location, and compile_eval_expression pushes it once more.  A macro's
\* expansion is not in the table.
OpenExpression ==
    /\ compilers # <<>> /\ Top.kind = "ast"
    /\ \E form \in NewForms, isRecorded \in BOOLEAN :
          /\ NewForm(form, Top.form, isRecorded)
          /\ LET loc == Location(form, isRecorded)
             IN push_location(<<Entry(form, loc, "expr"), Entry(form, loc, "form")>>)
    /\ UNCHANGED ops

\* An expression of the list that is a symbol: no symbol is in the table.
OpenSymbol ==
    /\ compilers # <<>> /\ Top.kind = "ast"
    /\ \E form \in NewForms :
          /\ NewForm(form, Top.form, FALSE)
          /\ push_location(<<Entry(form, Location(form, FALSE), "expr")>>)
    /\ UNCHANGED ops

\* A form within a form.
OpenForm ==
    /\ compilers # <<>> /\ Top.kind = "form"
    /\ \E form \in NewForms, isRecorded \in BOOLEAN :
          /\ NewForm(form, Top.form, isRecorded)
          /\ push_location(<<Entry(form, Location(form, isRecorded), "form")>>)
    /\ UNCHANGED ops

Close == /\ compilers # <<>> /\ Top.kind # "ast"
         /\ pop_location
         /\ UNCHANGED <<ops, parent, recorded>>

\* hll_bytecode_emit_op
Emit == /\ compilers # <<>> /\ Room
        /\ ops' = Emitted(IF Top.kind = "ast" THEN NoForm ELSE Top.form)
        /\ UNCHANGED <<compilers, parent, recorded, loc_rle>>

\* compile_function_internal: a compiler of its own for the body, in the same
\* translation unit.
BeginFunction ==
    /\ compilers # <<>> /\ Top.kind = "form" /\ Len(ops) < MaxFunctions
    /\ \E form \in NewForms, isRecorded \in BOOLEAN :
          /\ NewForm(form, Top.form, isRecorded)
          /\ compilers' = Append(compilers, NewCompiler(Len(ops) + 1,
                                                Entry(form, Location(form, isRecorded), "ast")))
    /\ ops' = Append(ops, <<>>)
    /\ UNCHANGED loc_rle

\* The list is over: its location is popped, END is emitted.
EndAst == /\ compilers # <<>> /\ Top.kind = "ast" /\ Ops # <<>>
          /\ ops' = Emitted(NoForm)
          /\ compilers' = Front(compilers)
          /\ UNCHANGED <<parent, recorded, loc_rle>>

Next == \/ OpenExpression \/ OpenSymbol \/ OpenForm \/ Close \/ Emit
        \/ BeginFunction \/ EndAst

Spec == Init /\ [][Next]_vars

-----------------------------------------------------------------------------
Compiled == Functions \ {compilers[i].fn : i \in DOMAIN compilers}

\* The instructions of a form: only they can raise a runtime error.
Fallible(f) == {k \in DOMAIN ops[f] : ops[f][k] # NoForm}

(***************************************************************************)
(* hll_bytecode_get_loc: assert(rle <= &hll_sb_last(dtu->loc_rle)).        *)
(* Whatever instruction of a compiled function fails, and be it a macro's  *)
(* while the rest of the unit is still being compiled, the search for its  *)
(* location ends within the runs of the unit.                              *)
(***************************************************************************)
LocationFound == \A f \in Compiled : \A k \in Fallible(f) : RunOf(loc_rle, k - 1) # 0

(***************************************************************************)
(* In a unit without functions, what is reported for an instruction is the *)
(* form it was made for, the form around that, or one directly within it:  *)
(* the runs may be a form off, but nowhere do they drift.                  *)
(***************************************************************************)
Near(form) == ({form, parent[form]} \ {NoForm}) \cup {inner \in Forms : parent[inner] = form}

ReportsNearby ==
    Compiled = {1} =>
        \A k \in Fallible(1) :
            hll_bytecode_get_loc(k - 1) \in {Location(form, form \in recorded) : form \in Near(ops[1][k])}

(***************************************************************************)
(* hll_debug.h: "runtime error - compiled bytecode mapped to source        *)
(* location".  What is reported for an instruction of a function is then a *)
(* form of that function, whatever other functions the unit has.           *)
(***************************************************************************)
FormsOf(f) == ToSet(ops[f]) \cup {parent[form] : form \in ToSet(ops[f]) \ {NoForm}}

ReportsOwnFunction ==
    compilers = <<>> /\ recorded = Forms =>
        \A f \in Compiled : \A k \in Fallible(f) :
            hll_bytecode_get_loc(k - 1) \in
                FormsOf(f) \cup UNION {Near(form) : form \in FormsOf(f) \ {NoForm}}
=============================================================================
