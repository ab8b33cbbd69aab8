------------------------------ MODULE Bytecode ------------------------------
(***************************************************************************)
(* hll_bytecode.c: the instructions a function is made of and the          *)
(* optimiser that marks its tail calls.  An instruction is one element of  *)
(* ops whatever its width in bytes, and a jump offset counts instructions. *)
(***************************************************************************)
EXTENDS Integers, Sequences

\* HLL_BC_CONST, HLL_BC_MAKEFUN and HLL_BC_JN have an operand.
OpNames == {"END", "NIL", "TRUE", "CONST", "APPEND", "POP", "FIND", "CALL",
            "MBTRCALL", "JN", "LET", "PUSHENV", "POPENV", "CAR", "CDR",
            "SETCAR", "SETCDR", "MAKEFUN"}

Instruction(op, arg) == [op |-> op, arg |-> arg]

\* Where a jump at index i goes.
JumpTarget(ops, i) == i + 1 + ops[i].arg

\* hll_new_bytecode
NewBytecode(name) == [name |-> name, ops |-> <<>>, constant_pool |-> <<>>]

-----------------------------------------------------------------------------
\* Mutant: the jump over the other arm of an if is not followed.
IsTailNoJump(ops, call) ==
    LET end == Len(ops) + 1
        tail[i \in 1 .. end] ==
            i = end \/ (ops[i].op \in {"END", "POPENV"} /\ tail[i + 1])
    IN  tail[call + 1]

\* investigate_call_op: from the call on there is nothing but unconditional
\* jumps ("NIL JN", as an if emits them), POPENV and END.
IsTail(ops, call) ==
    LET end == Len(ops) + 1
        tail[i \in 1 .. end] ==
            \/ i = end
            \/ i < end /\ ops[i].op \in {"END", "POPENV"} /\ tail[i + 1]
            \/ /\ i < end /\ ops[i].op = "NIL"
               /\ ops[i + 1].op = "JN"
               /\ tail[JumpTarget(ops, i + 1)]
    IN  tail[call + 1]

\* Mutant: what follows a call is not looked at.
mark_tail_callsAll(ops) ==
    [i \in DOMAIN ops |-> IF ops[i].op = "CALL"
                          THEN Instruction("MBTRCALL", 0) ELSE ops[i]]

mark_tail_calls(ops) ==
    [i \in DOMAIN ops |-> IF ops[i].op = "CALL" /\ IsTail(ops, i)
                          THEN Instruction("MBTRCALL", 0) ELSE ops[i]]

\* hll_optimize_bytecode: only functions with a name are looked at.
Optimized(bytecode) ==
    IF bytecode.name = "" THEN bytecode
    ELSE [bytecode EXCEPT !.ops = mark_tail_calls(@)]
=============================================================================
