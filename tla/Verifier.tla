------------------------------ MODULE Verifier -------------------------------
(***************************************************************************)
(* What the loop of hll_interpret_bytecode_internal takes for granted of   *)
(* the bytecode it runs, and what hll_compiler.c is therefore to emit.  No *)
(* code checks it: the handlers assert some of it, in a build with         *)
(* assertions, and otherwise read past the stack or the constant pool.     *)
(*                                                                         *)
(* A function is looked at by itself: each of its instructions is given a  *)
(* level, what the function has on the stack and how many environments it  *)
(* has pushed when it comes to the instruction, and the levels have to fit *)
(* along every way through the code.                                       *)
(***************************************************************************)
EXTENDS Machine

Level(values, envs) == [values |-> values, envs |-> envs]

\* How many values an instruction leaves more than it finds; a call is done
\* when the function it calls has returned.
Pushed(op) ==
    CASE op \in {"NIL", "TRUE", "CONST", "MAKEFUN"} -> 1
      [] op \in {"POP", "APPEND", "CALL", "MBTRCALL", "JN", "LET",
                 "SETCAR", "SETCDR", "END"} -> -1
      [] OTHER -> 0

PushedEnvs(op) == CASE op = "PUSHENV" -> 1
                    [] op = "POPENV" -> -1
                    [] OTHER -> 0

After(op, level) == Level(level.values + Pushed(op), level.envs + PushedEnvs(op))

Jumps(ops) == {i \in DOMAIN ops : ops[i].op = "JN"}

\* A jump that is always made: there is a nil on the stack whenever the code
\* comes to it.
Unconditional(ops, i) ==
    /\ ops[i].op = "JN" /\ i > 1
    /\ ops[i - 1].op = "NIL"
    /\ \A j \in Jumps(ops) : JumpTarget(ops, j) # i

\* Where the code goes from an instruction.
Successors(ops, i) ==
    CASE ops[i].op = "END" -> {}
      [] ops[i].op = "JN"  -> {JumpTarget(ops, i)} \cup
                              (IF Unconditional(ops, i) THEN {} ELSE {i + 1})
      [] OTHER             -> {i + 1}

\* The levels of the instructions, if there are any that fit: each is what an
\* instruction before it that goes there leaves.  Code that nothing goes to is
\* taken to be run after the one before it.
Levels(ops) ==
    LET Before(i) == {j \in 1 .. (i - 1) : i \in Successors(ops, j)}
        From(i) == IF Before(i) = {} THEN i - 1 ELSE Max(Before(i))
        Next(levels, i) ==
            Append(levels, IF i = 1 THEN Level(0, 0)
                           ELSE After(ops[From(i)].op, levels[From(i)]))
    IN  FoldLeftDomain(Next, <<>>, ops)

-----------------------------------------------------------------------------
\* What an instruction needs of the constants of the code, given the objects.
ConstantFits(objects, code, i) ==
    LET k == code.ops[i].arg
        v == code.constant_pool[k]
    IN  CASE code.ops[i].op = "CONST" -> k \in DOMAIN code.constant_pool
          [] code.ops[i].op = "MAKEFUN" ->
                /\ k \in DOMAIN code.constant_pool
                /\ IsRef(v) /\ v[2] \in DOMAIN objects /\ objects[v[2]].kind = "func"
          [] OTHER -> TRUE

\* What an instruction needs to be run at a level.
LevelFits(op, level) ==
    /\ level.values \in Nat /\ level.envs \in Nat
    /\ level.values >= Operands(op)
    /\ op = "END" => level.values = 1
    /\ op = "MBTRCALL" => level.values = 2
    /\ op = "POPENV" => level.envs > 0

VerifiedBy(objects, code, level) ==
    /\ code.ops \in Seq(Range(code.ops)) \ {<<>>} /\ level[1] = Level(0, 0)
    /\ \A i \in DOMAIN code.ops :
          /\ code.ops[i].op \in OpNames
          /\ code.ops[i].op = "JN" => code.ops[i].arg \in Nat
          /\ LevelFits(code.ops[i].op, level[i])
          /\ ConstantFits(objects, code, i)
          /\ \A j \in Successors(code.ops, i) :
                /\ j \in DOMAIN code.ops
                /\ level[j] = After(code.ops[i].op, level[i])

\* The code can be run: it nets one value, and nothing it asserts of the stack,
\* the constants, the jumps and the environments fails.
Verified(objects, code) == VerifiedBy(objects, code, Levels(code.ops))
=============================================================================
