--------------------------- MODULE Verifier_proofs ---------------------------
(***************************************************************************)
(* A program whose bytecode is verified finds what each instruction takes  *)
(* for granted, and leaves one value; and the optimiser leaves verified    *)
(* what is verified.                                                       *)
(*                                                                         *)
(* FitIn is the invariant.  A function is verified by itself; what holds   *)
(* of the frames together is that each waits behind a call (Controlled),   *)
(* that the stack is as high as their levels add up to (Heights), and that *)
(* each is in as many environments as it has pushed (EnvsFit).             *)
(***************************************************************************)
EXTENDS Execution_proofs

-----------------------------------------------------------------------------
(* The frames a step leaves. *)

\* The ip of the last frame is another, and nothing else.
Moved(s, j) == [s EXCEPT ![Len(s)].ip = j]

LEMMA LastMoved ==
    ASSUME NEW s, IsStack(s), Len(s) > 0, DOMAIN s[Len(s)] = {"bytecode", "ip", "env", "func"}, NEW j
    PROVE  /\ IsStack(Moved(s, j)) /\ Len(Moved(s, j)) = Len(s) /\ Len(s) \in Nat
           /\ \A k \in 1 .. (Len(s) - 1) : Moved(s, j)[k] = s[k]
           /\ Moved(s, j)[Len(s)].ip = j /\ Moved(s, j)[Len(s)].bytecode = s[Len(s)].bytecode
           /\ Moved(s, j)[Len(s)].env = s[Len(s)].env
           /\ DOMAIN Moved(s, j)[Len(s)] = {"bytecode", "ip", "env", "func"}
<1> DEFINE i == Len(s)
           last == s[i]
           moved == [last EXCEPT !.ip = j]
           t == [s EXCEPT ![i] = moved]
<1>1. /\ moved.ip = j /\ moved.bytecode = last.bytecode /\ moved.env = last.env
      /\ DOMAIN moved = {"bytecode", "ip", "env", "func"}
  OBVIOUS
<1>2. Len(s) \in Nat /\ DOMAIN s = 1 .. Len(s)
  BY DEF IsStack
<1>3. t[i] = moved /\ \A k \in 1 .. (Len(s) - 1) : t[k] = s[k]
  BY <1>2
<1>4. IsStack(t) /\ Len(t) = Len(s)
  <2> HIDE DEF moved, i
  <2> QED BY StackPut
<1>5. t = Moved(s, j)
  BY DEF Moved
<1> HIDE DEF t, moved
<1> QED BY <1>1, <1>2, <1>3, <1>4, <1>5

\* There is a frame more, or a frame less.
LEMMA FramePushed ==
    ASSUME NEW s, IsStack(s), NEW f
    PROVE  /\ IsStack(Append(s, f)) /\ Len(Append(s, f)) = Len(s) + 1 /\ Len(s) \in Nat
           /\ \A k \in 1 .. Len(s) : Append(s, f)[k] = s[k]
           /\ Append(s, f)[Len(s) + 1] = f
<1>1. s \in Seq(Range(s)) /\ Len(s) \in Nat
  BY DEF IsStack
<1> QED BY <1>1, StackPush DEF IsStack

LEMMA FramePopped ==
    ASSUME NEW s, IsStack(s), Len(s) > 0
    PROVE  /\ IsStack(Front(s)) /\ Len(Front(s)) = Len(s) - 1 /\ Len(s) \in Nat
           /\ \A k \in 1 .. (Len(s) - 1) : Front(s)[k] = s[k]
<1>1. s \in Seq(Range(s)) /\ Len(s) \in Nat
  BY DEF IsStack
<1>2. \A k \in 1 .. (Len(s) - 1) : Front(s)[k] = s[k]
  BY <1>1, SubSeqProperties DEF Front
<1> QED BY <1>1, <1>2, StackPop

-----------------------------------------------------------------------------
(* Where the frames are in verified code. *)

\* The bytecode functions may have is verified, each by its levels.
ScopeFits(scope, level) ==
    \A b \in scope.runnable : VerifiedBy(scope.objects, scope.codes[b], level[b])

Ops(scope, f) == scope.codes[f.bytecode].ops

\* A frame that waits for the function it has called.
Waits(scope, f) == f.ip > 1 /\ Ops(scope, f)[f.ip - 1].op \in {"CALL", "MBTRCALL"}

\* Each frame is somewhere in its code.
Controlled(scope, m) ==
    LET s == m.call_stack
    IN  /\ \A k \in 1 .. Len(s) : s[k].ip \in DOMAIN Ops(scope, s[k])
        /\ \A k \in 1 .. (Len(s) - 1) : Waits(scope, s[k])
        /\ Len(s) > 0 /\ Unconditional(Ops(scope, s[Len(s)]), s[Len(s)].ip) => Top(m) = Nil

LEMMA FrameIs ==
    ASSUME NEW scope, NEW m, SoundIn(scope, m), NEW k \in 1 .. Len(m.call_stack)
    PROVE  /\ DOMAIN m.call_stack[k] = {"bytecode", "ip", "env", "func"}
           /\ m.call_stack[k].bytecode \in scope.runnable
           /\ Live(scope, m, m.call_stack[k].env)
<1> DEFINE f == m.call_stack[k]
<1>1. Parts(scope, m)
  BY SoundParts
<1>2. f \in Range(m.call_stack)
  BY <1>1 DEF Parts, IsStack, Range
<1>3. FrameFits(scope, m, f)
  BY <1>1, <1>2 DEF Parts
<1> HIDE DEF f
<1>4. f.bytecode \in scope.runnable
  <2>1. KindOf(m, f.func) = "func" /\ Live(scope, m, f.func) /\ At(m, f.func).bytecode = f.bytecode
    BY <1>3 DEF FrameFits, FrameSound
  <2>2. At(m, f.func).bytecode \in scope.runnable
    BY <2>1, FuncFields
  <2> QED BY <2>1, <2>2
<1> QED BY <1>3, <1>4 DEF FrameFits, FrameSound, f

\* What verified code says of one of its instructions.
LEMMA CodeIs ==
    ASSUME NEW scope, NEW level, ScopeFits(scope, level), NEW b \in scope.runnable
    PROVE  LET ops == scope.codes[b].ops
           IN  /\ DOMAIN ops = 1 .. Len(ops) /\ Len(ops) \in Nat /\ 1 \in DOMAIN ops
               /\ level[b][1] = Level(0, 0)
               /\ \A i \in DOMAIN ops :
                     /\ i \in Nat /\ ops[i].op \in OpNames
                     /\ ops[i].op = "JN" => ops[i].arg \in Nat
                     /\ LevelFits(ops[i].op, level[b][i])
                     /\ ConstantFits(scope.objects, scope.codes[b], i)
                     /\ \A j \in Successors(ops, i) :
                           j \in DOMAIN ops /\ level[b][j] = After(ops[i].op, level[b][i])
<1> DEFINE code == scope.codes[b]
           ops == code.ops
<1>1. VerifiedBy(scope.objects, code, level[b])
  BY DEF ScopeFits
<1> HIDE DEF code
<1>2. ops \in Seq(Range(ops)) /\ ops # <<>>
  BY <1>1 DEF VerifiedBy
<1>3. DOMAIN ops = 1 .. Len(ops) /\ Len(ops) \in Nat /\ 1 \in DOMAIN ops
  <2> HIDE DEF ops
  <2> QED BY <1>2
<1>4. \A i \in DOMAIN ops : i \in Nat
  BY <1>3
<1> QED BY <1>1, <1>3, <1>4 DEF VerifiedBy, code

\* How an instruction that stays in its frame leaves the environment.
EnvMoves(m, n, op) ==
    CASE op = "PUSHENV" -> KindOf(n, n.env) = "env" /\ At(n, n.env).up = m.env
      [] op = "POPENV"  -> n.env = At(m, m.env).up
      [] OTHER          -> n.env = m.env

\* The ways an instruction leaves the frames.
Stays(scope, m, n, op) ==
    LET s == m.call_stack
        ops == Ops(scope, s[Len(s)])
    IN  \E j \in Successors(ops, s[Len(s)].ip) :
           /\ n.call_stack = Moved(s, j)
           /\ Len(n.stack) = Len(m.stack) + Pushed(op) /\ EnvMoves(m, n, op)
           /\ Unconditional(ops, j) => Top(n) = Nil

Entered(m, n, op) ==
    LET s == m.call_stack
        next == Moved(s, s[Len(s)].ip + 1)
    IN  /\ op \in {"CALL", "MBTRCALL"}
        /\ \E f : f.ip = 1 /\ f.env = m.env /\ n.call_stack = Append(next, f)
        /\ Len(n.stack) = Len(m.stack) + (-2) /\ KindOf(n, n.env) = "env"

Reentered(m, n, op) ==
    LET s == m.call_stack
    IN  /\ op = "MBTRCALL" /\ n.call_stack = Moved(s, 1)
        /\ Len(n.stack) = Len(m.stack) + (-2) /\ KindOf(n, n.env) = "env"

Left(m, n, op) ==
    LET s == m.call_stack
    IN  /\ op = "END" /\ Len(n.call_stack) = Len(s) - 1
        /\ \A k \in 1 .. (Len(s) - 1) : n.call_stack[k] = s[k]
        /\ n.env = s[Len(s)].env /\ n.stack = m.stack

Moves(scope, m, n, op) ==
    \/ op # "END" /\ Stays(scope, m, n, op)
    \/ Entered(m, n, op) \/ Reentered(m, n, op) \/ Left(m, n, op)

\* Moved twice, the ip is where it was moved last.
LEMMA MovedTwice ==
    ASSUME NEW s, IsStack(s), Len(s) > 0, DOMAIN s[Len(s)] = {"bytecode", "ip", "env", "func"}, NEW j, NEW k
    PROVE  Moved(Moved(s, j), k) = Moved(s, k)
<1> DEFINE i == Len(s)
<1>1. i \in Nat /\ DOMAIN s = 1 .. i /\ i \in DOMAIN s /\ s = [x \in DOMAIN s |-> s[x]]
  <2>1. s \in Seq(Range(s))
    BY DEF IsStack
  <2>2. DOMAIN s = 1 .. Len(s) /\ Len(s) \in Nat
    BY <2>1
  <2>3. s = [x \in DOMAIN s |-> s[x]]
    BY <2>1, SMT
  <2> QED BY <2>2, <2>3
<1> HIDE DEF i
<1>2. [[s EXCEPT ![i].ip = j] EXCEPT ![i].ip = k] = [s EXCEPT ![i].ip = k]
  BY <1>1
<1>3. Len(Moved(s, j)) = i
  BY LastMoved DEF i
<1>4. Moved(Moved(s, j), k) = [Moved(s, j) EXCEPT ![i].ip = k]
  BY <1>3 DEF Moved
<1> QED BY <1>2, <1>4 DEF i, Moved

\* The frames when the ip is past the instruction.
LEMMA AdvanceMoves ==
    ASSUME NEW scope, NEW m, SoundIn(scope, m), Len(m.call_stack) > 0, NEW k
    PROVE  /\ Changes(m, Advance(m, k), {"call_stack"}) /\ SoundIn(scope, Advance(m, k))
           /\ Advance(m, k).call_stack = Moved(m.call_stack, m.call_stack[Len(m.call_stack)].ip + k)
<1>1. DOMAIN m = MachineFields
  BY SoundIs
<1>2. Advance(m, k).call_stack = Moved(m.call_stack, m.call_stack[Len(m.call_stack)].ip + k)
  BY <1>1 DEF Advance, MachineFields, Moved
<1> QED BY <1>2, AdvanceIs

LEMMA SuccessorsAre ==
    \A ops, i : Successors(ops, i) =
        IF ops[i].op = "END" THEN {} ELSE IF ops[i].op # "JN" THEN {i + 1}
        ELSE IF Unconditional(ops, i) THEN {JumpTarget(ops, i)}
        ELSE {i + 1, JumpTarget(ops, i)}
BY DEF Successors

\* Code that is jumped to unconditionally follows a nil.
LEMMA AfterNil ==
    ASSUME NEW ops, NEW i \in DOMAIN ops, i \in Nat, NEW j \in Successors(ops, i), Unconditional(ops, j)
    PROVE  ops[i].op = "NIL"
<1>1. j # JumpTarget(ops, i) \/ ops[i].op # "JN"
  BY DEF Unconditional, Jumps
<1>4. Unconditional(ops, i) => ops[i].op = "JN"
  BY DEF Unconditional
<1>2. j = i + 1
  BY <1>1, <1>4 DEF Successors
<1>3. j - 1 = i
  BY <1>2
<1> QED BY <1>3 DEF Unconditional

\* A round of the loop moves the frames as the instruction says.
LEMMA RoundMoves ==
    ASSUME NEW scope, NEW level, ScopeFits(scope, level), NEW m, SoundIn(scope, m), Controlled(scope, m),
           Len(m.call_stack) > 0, NEW op, Current(m).op = op,
           NEW n, n.running = TRUE, Does(Advance(m, 1), n, op)
    PROVE  /\ Moves(scope, m, n, op) /\ op \in OpNames
           /\ op = Ops(scope, m.call_stack[Len(m.call_stack)])[m.call_stack[Len(m.call_stack)].ip].op
<1> DEFINE s == m.call_stack
           f == s[Len(s)]
           ip == f.ip
           ops == Ops(scope, f)
           q == Advance(m, 1)
           next == Moved(s, ip + 1)
<1>1. IsStack(s) /\ Len(s) \in Nat /\ DOMAIN m = MachineFields /\ m.codes = scope.codes
  BY SoundIs DEF IsStack
<1>2. DOMAIN f = {"bytecode", "ip", "env", "func"} /\ f.bytecode \in scope.runnable
  BY <1>1, FrameIs
<1>3. ip \in DOMAIN ops
  BY <1>1 DEF Controlled
<1>4. ip \in Nat /\ ops[ip].op \in OpNames /\ (ops[ip].op = "JN" => ops[ip].arg \in Nat)
  BY <1>2, <1>3, CodeIs DEF Ops
<1>5. op = ops[ip].op
  BY <1>1 DEF Current, Code, CurrentFrame, Last, Ops
<1>6. /\ Changes(m, q, {"call_stack"}) /\ q.call_stack = next /\ SoundIn(scope, q)
  BY AdvanceMoves
<1>7. /\ IsStack(next) /\ Len(next) = Len(s) /\ next[Len(s)].ip = ip + 1
      /\ next[Len(s)].bytecode = f.bytecode /\ next[Len(s)].env = f.env
      /\ DOMAIN next[Len(s)] = {"bytecode", "ip", "env", "func"}
      /\ \A k \in 1 .. (Len(s) - 1) : next[k] = s[k]
  BY <1>1, <1>2, LastMoved
<1>8. \A k : Moved(next, k) = Moved(s, k)
  BY <1>1, <1>2, MovedTwice
<1>9. q.stack = m.stack /\ q.env = m.env /\ q.codes = scope.codes /\ q.heap = m.heap
  BY <1>1, <1>6 DEF Changes, MachineFields
<1>10. Does(q, n, op)
  OBVIOUS
<1>11. \A j \in Successors(ops, ip) : Unconditional(ops, j) => op = "NIL"
  BY <1>3, <1>4, <1>5, AfterNil
<1>12. Successors(ops, ip) = IF op = "END" THEN {} ELSE IF op # "JN" THEN {ip + 1}
                             ELSE IF Unconditional(ops, ip) THEN {JumpTarget(ops, ip)}
                             ELSE {ip + 1, JumpTarget(ops, ip)}
  BY <1>5, SuccessorsAre
<1> HIDE DEF q, next, f, ip, ops
<1> SUFFICES Moves(scope, m, n, op)
  BY <1>4, <1>5 DEF f, ip, ops
<1>13. CASE op = "END"
  <2>1. n.call_stack = Front(next) /\ n.stack = q.stack /\ n.env = Last(next).env
    BY <1>6, <1>10, <1>13 DEF Does
  <2>2. Len(Front(next)) = Len(s) - 1 /\ \A k \in 1 .. (Len(s) - 1) : Front(next)[k] = s[k]
    BY <1>1, <1>7, FramePopped
  <2>3. Last(next) = next[Len(s)]
    BY <1>7 DEF Last
  <2> QED BY <1>5, <1>7, <1>9, <1>13, <2>1, <2>2, <2>3, <1>4 DEF Moves, Left, f, ip, ops
<1>14. ASSUME op # "END", Leaves(q, n, Pushed(op)), op = "NIL" => Top(n) = Nil, op \notin {"JN", "PUSHENV", "POPENV"}
       PROVE  Stays(scope, m, n, op)
  <2>1. ip + 1 \in Successors(ops, ip)
    BY <1>12, <1>14
  <2>2. n.call_stack = next /\ n.env = m.env /\ Len(n.stack) = Len(m.stack) + Pushed(op)
    BY <1>6, <1>9, <1>14 DEF Leaves
  <2>3. EnvMoves(m, n, op)
    BY <1>14, <2>2 DEF EnvMoves
  <2> QED BY <1>11, <1>14, <2>1, <2>2, <2>3 DEF Stays, f, ip, ops, next
<1>15. CASE op \in {"CALL", "MBTRCALL"}
  <2>1. Pushed(op) = -1
    BY <1>15 DEF Pushed
  <2>2. PICK mbtr \in BOOLEAN : Calls(q, n, mbtr) /\ (mbtr => op = "MBTRCALL")
    BY <1>10, <1>15 DEF Does
  <2>3. CASE Leaves(q, n, -1)
    BY <1>14, <1>15, <2>1, <2>3 DEF Moves
  <2>4. CASE Enters(q, n, mbtr) /\ Len(n.stack) = Len(q.stack) + (-2) /\ KindOf(n, n.env) = "env"
    <3>1. CASE \E frame : frame.ip = 1 /\ frame.env = q.env /\ n.call_stack = Append(q.call_stack, frame)
      BY <1>6, <1>9, <1>15, <2>4, <3>1 DEF Moves, Entered, f, ip, next
    <3>2. CASE mbtr = TRUE /\ n.call_stack = [q.call_stack EXCEPT ![Len(q.call_stack)].ip = 1]
      <4>1. n.call_stack = Moved(s, 1)
        BY <1>6, <1>7, <1>8, <3>2 DEF Moved
      <4> QED BY <1>9, <2>2, <2>4, <3>2, <4>1 DEF Moves, Reentered
    <3> QED BY <2>4, <3>1, <3>2 DEF Enters
  <2> QED BY <2>2, <2>3, <2>4 DEF Calls
<1>16. CASE op = "JN"
  <2>1. /\ n.env = m.env /\ Len(n.stack) = Len(m.stack) + Pushed(op)
        /\ n.call_stack = IF Top(q) = Nil THEN Advance(q, Operand(q)).call_stack ELSE next
    BY <1>6, <1>9, <1>10, <1>16 DEF Does, Pushed
  <2>2. EnvMoves(m, n, op)
    BY <1>16, <2>1 DEF EnvMoves
  <2>3. Top(q) = Top(m)
    BY <1>9 DEF Top
  <2>4. CASE Top(m) = Nil
    <3>1. Operand(q) = ops[ip].arg
      <4>1. CurrentFrame(q) = next[Len(s)]
        BY <1>6, <1>7 DEF CurrentFrame, Last
      <4>2. (ip + 1) - 1 = ip
        BY <1>4
      <4> QED BY <1>7, <1>9, <4>1, <4>2 DEF Operand, Fetched, Code, Ops, f, ops
    <3>2. n.call_stack = Moved(next, next[Len(next)].ip + Operand(q))
      BY <1>1, <1>6, <1>7, <2>1, <2>3, <2>4, AdvanceMoves
    <3>3. n.call_stack = Moved(s, JumpTarget(ops, ip))
      BY <1>7, <1>8, <3>1, <3>2 DEF JumpTarget
    <3>4. JumpTarget(ops, ip) \in Successors(ops, ip)
      BY <1>12, <1>16
    <3> QED BY <1>11, <1>16, <2>1, <2>2, <3>3, <3>4 DEF Moves, Stays, f, ip, ops
  <2>5. CASE Top(m) # Nil
    <3>1. ~Unconditional(ops, ip)
      BY <2>5, <1>1 DEF Controlled, f, ip, ops
    <3>2. ip + 1 \in Successors(ops, ip)
      BY <1>12, <1>16, <3>1
    <3> QED BY <1>11, <1>16, <2>1, <2>2, <2>3, <2>5, <3>2 DEF Moves, Stays, f, ip, ops, next
  <2> QED BY <2>4, <2>5
<1>17. CASE op \in {"PUSHENV", "POPENV"}
  <2>1. n.call_stack = next /\ n.stack = m.stack /\ EnvMoves(m, n, op)
    <3>1. op = "POPENV" => n.env = At(m, m.env).up
      BY <1>9, <1>10 DEF Does, At
    <3> QED BY <1>6, <1>9, <1>10, <1>17, <3>1 DEF Does, EnvMoves
  <2>2. Len(n.stack) = Len(m.stack) + Pushed(op)
    <3>1. Len(m.stack) \in Nat /\ Pushed(op) = 0
      BY <1>17, SoundIs DEF IsStack, Pushed
    <3> QED BY <2>1, <3>1
  <2>3. ip + 1 \in Successors(ops, ip)
    BY <1>12, <1>17
  <2> QED BY <1>11, <1>17, <2>1, <2>2, <2>3 DEF Moves, Stays, f, ip, ops, next
<1>18. CASE op \notin {"END", "CALL", "MBTRCALL", "JN", "PUSHENV", "POPENV"}
  <2>1. Leaves(q, n, Pushed(op)) /\ (op = "NIL" => Top(n) = Nil)
    BY <1>10, <1>18 DEF Does
  <2> QED BY <1>14, <1>18, <2>1 DEF Moves
<1> QED BY <1>13, <1>15, <1>16, <1>17, <1>18

\* The frames after each way, one by one.
LEMMA MovedFrames ==
    ASSUME NEW scope, NEW m, SoundIn(scope, m), Len(m.call_stack) > 0, NEW n, NEW op, Moves(scope, m, n, op)
    PROVE  LET s == m.call_stack
               t == n.call_stack
           IN  /\ Len(s) \in Nat
               /\ \A k \in 1 .. (Len(s) - 1) : t[k] = s[k]
               /\ op # "END" => t[Len(s)].bytecode = s[Len(s)].bytecode /\ t[Len(s)].env = s[Len(s)].env
               /\ Stays(scope, m, n, op) =>
                     Len(t) = Len(s) /\ t[Len(s)].ip \in Successors(Ops(scope, s[Len(s)]), s[Len(s)].ip)
               /\ Entered(m, n, op) =>
                     /\ Len(t) = Len(s) + 1 /\ t[Len(s)].ip = s[Len(s)].ip + 1
                     /\ t[Len(s) + 1].ip = 1 /\ t[Len(s) + 1].env = m.env
               /\ Reentered(m, n, op) => Len(t) = Len(s) /\ t[Len(s)].ip = 1
               /\ Left(m, n, op) => Len(t) = Len(s) - 1
<1> DEFINE s == m.call_stack
           t == n.call_stack
           i == Len(s)
<1>1. IsStack(s) /\ Len(s) > 0
  BY SoundIs
<1>2. i \in Nat /\ i \in 1 .. i
  BY <1>1 DEF IsStack
<1>3. DOMAIN s[i] = {"bytecode", "ip", "env", "func"}
  BY <1>2, FrameIs
<1>4. \A j : /\ IsStack(Moved(s, j)) /\ Len(Moved(s, j)) = i
             /\ \A k \in 1 .. (i - 1) : Moved(s, j)[k] = s[k]
             /\ Moved(s, j)[i].ip = j /\ Moved(s, j)[i].bytecode = s[i].bytecode /\ Moved(s, j)[i].env = s[i].env
  <2> HIDE DEF s
  <2> QED BY <1>1, <1>3, LastMoved
<1>5. CASE Stays(scope, m, n, op)
  <2>1. PICK j \in Successors(Ops(scope, s[i]), s[i].ip) : t = Moved(s, j)
    BY <1>5 DEF Stays
  <2>2. ~Left(m, n, op) /\ (Entered(m, n, op) => FALSE)
    <3>1. Len(t) = i
      BY <1>4, <2>1
    <3>2. Left(m, n, op) => Len(t) = i - 1
      BY DEF Left
    <3>3. Entered(m, n, op) => \E f : t = Append(Moved(s, s[i].ip + 1), f)
      BY DEF Entered
    <3>4. \A f : Len(Append(Moved(s, s[i].ip + 1), f)) = i + 1
      BY <1>4, FramePushed
    <3> QED BY <1>2, <3>1, <3>2, <3>3, <3>4
  <2>3. Reentered(m, n, op) => t = Moved(s, 1)
    BY DEF Reentered
  <2> QED BY <1>2, <1>4, <2>1, <2>2, <2>3
<1>6. CASE Entered(m, n, op)
  <2>1. PICK f : f.ip = 1 /\ f.env = m.env /\ t = Append(Moved(s, s[i].ip + 1), f)
    BY <1>6 DEF Entered
  <2> DEFINE u == Moved(s, s[i].ip + 1)
  <2>2. /\ IsStack(u) /\ Len(u) = i /\ u[i].ip = s[i].ip + 1 /\ u[i].bytecode = s[i].bytecode
        /\ u[i].env = s[i].env /\ \A k \in 1 .. (i - 1) : u[k] = s[k]
    BY <1>4
  <2>3. t = Append(u, f)
    BY <2>1
  <2> HIDE DEF u
  <2>4. /\ Len(t) = i + 1 /\ t[i + 1] = f /\ \A k \in 1 .. i : t[k] = u[k]
    BY <2>2, <2>3, FramePushed
  <2>5. ~Left(m, n, op) /\ ~Reentered(m, n, op) /\ ~Stays(scope, m, n, op)
    <3>1. Left(m, n, op) => Len(t) = i - 1
      BY DEF Left
    <3>2. Reentered(m, n, op) \/ Stays(scope, m, n, op) => Len(t) = i
      BY <1>4 DEF Reentered, Stays
    <3> QED BY <1>2, <2>4, <3>1, <3>2
  <2>6. \A k \in 1 .. (i - 1) : t[k] = s[k]
    BY <1>2, <2>2, <2>4
  <2>7. t[i] = u[i]
    BY <1>2, <2>4
  <2> HIDE DEF t, s, i
  <2>8. /\ t[i].ip = s[i].ip + 1 /\ t[i].bytecode = s[i].bytecode /\ t[i].env = s[i].env
        /\ t[i + 1].ip = 1 /\ t[i + 1].env = m.env
    BY <2>1, <2>2, <2>4, <2>7
  <2> QED BY <1>2, <2>4, <2>5, <2>6, <2>8 DEF t, s, i
<1>7. CASE Reentered(m, n, op) /\ ~Stays(scope, m, n, op)
  <2>1. t = Moved(s, 1)
    BY <1>7 DEF Reentered
  <2>2. ~Left(m, n, op) /\ ~Entered(m, n, op)
    <3>1. Len(t) = i
      BY <1>4, <2>1
    <3>2. Left(m, n, op) => Len(t) = i - 1
      BY DEF Left
    <3>3. Entered(m, n, op) => \E f : t = Append(Moved(s, s[i].ip + 1), f)
      BY DEF Entered
    <3>4. \A f : Len(Append(Moved(s, s[i].ip + 1), f)) = i + 1
      BY <1>4, FramePushed
    <3> QED BY <1>2, <3>1, <3>2, <3>3, <3>4
  <2> QED BY <1>2, <1>4, <1>7, <2>1, <2>2
<1>8. CASE Left(m, n, op) /\ ~Stays(scope, m, n, op) /\ ~Entered(m, n, op) /\ ~Reentered(m, n, op)
  BY <1>2, <1>8 DEF Left
<1> QED BY <1>5, <1>6, <1>7, <1>8 DEF Moves

\* Each frame stays in its code.
LEMMA ControlKept ==
    ASSUME NEW scope, NEW level, ScopeFits(scope, level), NEW m, SoundIn(scope, m), Controlled(scope, m),
           Len(m.call_stack) > 0, NEW op,
           op = Ops(scope, m.call_stack[Len(m.call_stack)])[m.call_stack[Len(m.call_stack)].ip].op,
           NEW n, SoundIn(scope, n), Moves(scope, m, n, op)
    PROVE  Controlled(scope, n)
<1> DEFINE s == m.call_stack
           t == n.call_stack
           i == Len(s)
           ip == s[i].ip
           ops == Ops(scope, s[i])
<1>1. /\ i \in Nat /\ i > 0 /\ \A k \in 1 .. (i - 1) : t[k] = s[k]
      /\ op # "END" => t[i].bytecode = s[i].bytecode
      /\ Stays(scope, m, n, op) => Len(t) = i /\ t[i].ip \in Successors(ops, ip)
      /\ Entered(m, n, op) => Len(t) = i + 1 /\ t[i].ip = ip + 1 /\ t[i + 1].ip = 1
      /\ Reentered(m, n, op) => Len(t) = i /\ t[i].ip = 1
      /\ Left(m, n, op) => Len(t) = i - 1
  BY MovedFrames
<1>2. \A k \in 1 .. Len(t) : t[k].bytecode \in scope.runnable
  BY FrameIs
<1>3. \A k \in 1 .. i : s[k].bytecode \in scope.runnable
  BY FrameIs
<1>4. \A b \in scope.runnable : 1 \in DOMAIN scope.codes[b].ops
  BY CodeIs
<1>5. /\ ip \in Nat /\ ip \in DOMAIN ops /\ ip >= 1
      /\ \A j \in Successors(ops, ip) : j \in DOMAIN ops
  <2>1. ip \in DOMAIN ops /\ s[i].bytecode \in scope.runnable
    BY <1>1, <1>3 DEF Controlled
  <2>2. DOMAIN ops = 1 .. Len(ops) /\ Len(ops) \in Nat
    BY <2>1, CodeIs DEF Ops
  <2>3. \A j \in Successors(ops, ip) : j \in DOMAIN ops
    BY <2>1, CodeIs DEF Ops
  <2> HIDE DEF ops, ip
  <2> QED BY <2>1, <2>2, <2>3
<1>6. /\ \A k \in 1 .. i : s[k].ip \in DOMAIN Ops(scope, s[k])
      /\ \A k \in 1 .. (i - 1) : Waits(scope, s[k])
  BY DEF Controlled
<1>7. op # "END" => Ops(scope, t[i]) = ops
  BY <1>1 DEF Ops
<1>8. \A f : ~Unconditional(Ops(scope, f), 1)
  BY DEF Unconditional
<1>9. \A k : Waits(scope, s[k]) => ~Unconditional(Ops(scope, s[k]), s[k].ip)
  BY DEF Waits, Unconditional
<1>10. op = ops[ip].op
  OBVIOUS
<1>11. ASSUME Stays(scope, m, n, op) PROVE Unconditional(ops, t[i].ip) => Top(n) = Nil
  <2>1. PICK j \in Successors(ops, ip) : t = Moved(s, j) /\ (Unconditional(ops, j) => Top(n) = Nil)
    BY <1>11 DEF Stays
  <2>2. t[i].ip = j
    <3>1. IsStack(s) /\ DOMAIN s[i] = {"bytecode", "ip", "env", "func"}
      BY <1>1, SoundIs, FrameIs
    <3> HIDE DEF s
    <3> QED BY <1>1, <2>1, <3>1, LastMoved
  <2> QED BY <2>1, <2>2
<1> SUFFICES /\ \A k \in 1 .. Len(t) : t[k].ip \in DOMAIN Ops(scope, t[k])
             /\ \A k \in 1 .. (Len(t) - 1) : Waits(scope, t[k])
             /\ Len(t) > 0 /\ Unconditional(Ops(scope, t[Len(t)]), t[Len(t)].ip) => Top(n) = Nil
  BY DEF Controlled
<1>12. ip + 1 \in DOMAIN ops \/ op \in {"JN", "END"}
  BY <1>5, <1>10, SuccessorsAre
<1>13. Entered(m, n, op) => op \in {"CALL", "MBTRCALL"}
  BY DEF Entered
<1>14. Reentered(m, n, op) => op = "MBTRCALL"
  BY DEF Reentered
<1>15. Entered(m, n, op) => Waits(scope, t[i])
  <2>1. (ip + 1) - 1 = ip /\ ip + 1 > 1
    BY <1>5
  <2> QED BY <1>1, <1>7, <1>10, <1>13, <2>1 DEF Waits
<1>16. 1 \in DOMAIN ops /\ (Entered(m, n, op) => 1 \in DOMAIN Ops(scope, t[i + 1]))
  <2>1. s[i].bytecode \in scope.runnable
    BY <1>1, <1>3
  <2>2. Entered(m, n, op) => t[i + 1].bytecode \in scope.runnable
    <3>1. Entered(m, n, op) => i + 1 \in 1 .. Len(t)
      BY <1>1
    <3> QED BY <1>2, <3>1
  <2> QED BY <1>4, <2>1, <2>2 DEF Ops
<1> HIDE DEF i, s, t, ip, ops
<1>17. CASE op # "END" /\ Stays(scope, m, n, op)
  BY <1>1, <1>5, <1>6, <1>7, <1>11, <1>17
<1>18. CASE Entered(m, n, op)
  <2>1. \A k \in 1 .. Len(t) : k \in 1 .. (i - 1) \/ k = i \/ k = i + 1
    BY <1>1, <1>18
  <2>2. \A k \in 1 .. (Len(t) - 1) : k \in 1 .. (i - 1) \/ k = i
    BY <1>1, <1>18
  <2> QED BY <1>1, <1>5, <1>6, <1>7, <1>8, <1>12, <1>13, <1>15, <1>16, <1>18, <2>1, <2>2
<1>19. CASE Reentered(m, n, op)
  BY <1>1, <1>6, <1>7, <1>8, <1>14, <1>16, <1>19
<1>20. CASE Left(m, n, op)
  BY <1>1, <1>6, <1>9, <1>20
<1> QED BY <1>17, <1>18, <1>19, <1>20 DEF Moves

-----------------------------------------------------------------------------
(* How much is on the stack. *)

FrameLevel(level, f) == level[f.bytecode][f.ip]

\* A frame has what its level says, and one that waits a value less: height[k]
\* is what the frames up to the k-th have but for one value.
Heights(level, m, height) ==
    LET s == m.call_stack
    IN  /\ height \in [Nat -> Int] /\ height[0] = 0
        /\ \A k \in 1 .. Len(s) :
              /\ height[k - 1] \in Nat
              /\ height[k] = height[k - 1] + FrameLevel(level, s[k]).values + (-1)
        /\ Len(m.stack) = height[Len(s)] + 1

\* What verified code says of the instruction op a frame is at.
LevelFacts(scope, level, f, op) ==
    /\ LevelFits(op, FrameLevel(level, f)) /\ Pushed(op) \in Int /\ PushedEnvs(op) \in Int
    /\ \A j \in Successors(Ops(scope, f), f.ip) : level[f.bytecode][j] = After(op, FrameLevel(level, f))
    /\ level[f.bytecode][1] = Level(0, 0)
    /\ op \in {"CALL", "MBTRCALL"} => Successors(Ops(scope, f), f.ip) = {f.ip + 1}

LEMMA FrameLevelIs ==
    ASSUME NEW scope, NEW level, ScopeFits(scope, level), NEW m, SoundIn(scope, m), Controlled(scope, m),
           NEW k \in 1 .. Len(m.call_stack), NEW f, f = m.call_stack[k], NEW op, op = Ops(scope, f)[f.ip].op
    PROVE  LevelFacts(scope, level, f, op)
<1> DEFINE ops == Ops(scope, f)
<1>1. f.bytecode \in scope.runnable /\ f.ip \in DOMAIN ops
  BY FrameIs DEF Controlled
<1>2. Pushed(op) \in Int /\ PushedEnvs(op) \in Int
  BY DEF Pushed, PushedEnvs
<1>3. LevelFits(op, FrameLevel(level, f)) /\ \A j \in Successors(ops, f.ip) : level[f.bytecode][j] = After(op, FrameLevel(level, f))
  BY <1>1, CodeIs DEF Ops, FrameLevel
<1>4. level[f.bytecode][1] = Level(0, 0)
  BY <1>1, CodeIs
<1>5. op \in {"CALL", "MBTRCALL"} => Successors(ops, f.ip) = {f.ip + 1}
  BY SuccessorsAre
<1> QED BY <1>2, <1>3, <1>4, <1>5 DEF LevelFacts

LEMMA LevelIs == \A v, e : Level(v, e).values = v /\ Level(v, e).envs = e
BY DEF Level

\* The height of a call that goes on: numbers only.
LEMMA HeightPut ==
    ASSUME NEW h \in [Nat -> Int], NEW i \in Nat, NEW x \in Int
    PROVE  /\ [h EXCEPT ![i] = x] \in [Nat -> Int] /\ [h EXCEPT ![i] = x][i] = x
           /\ \A k \in Nat : k # i => [h EXCEPT ![i] = x][k] = h[k]
OBVIOUS

LEMMA HeightsKept ==
    ASSUME NEW scope, NEW level, ScopeFits(scope, level), NEW m, SoundIn(scope, m), Controlled(scope, m),
           Len(m.call_stack) > 0, NEW op,
           op = Ops(scope, m.call_stack[Len(m.call_stack)])[m.call_stack[Len(m.call_stack)].ip].op,
           NEW n, SoundIn(scope, n), Moves(scope, m, n, op), NEW height, Heights(level, m, height)
    PROVE  \E h : Heights(level, n, h)
<1> DEFINE s == m.call_stack
           t == n.call_stack
           i == Len(s)
           lv == FrameLevel(level, s[i])
           v == lv.values
           ls == Len(m.stack)
           ln == Len(n.stack)
<1>1. /\ i \in Nat /\ i > 0 /\ \A k \in 1 .. (i - 1) : t[k] = s[k]
      /\ op # "END" => t[i].bytecode = s[i].bytecode
      /\ Stays(scope, m, n, op) => Len(t) = i /\ t[i].ip \in Successors(Ops(scope, s[i]), s[i].ip)
      /\ Entered(m, n, op) => Len(t) = i + 1 /\ t[i].ip = s[i].ip + 1 /\ t[i + 1].ip = 1
      /\ Reentered(m, n, op) => Len(t) = i /\ t[i].ip = 1
      /\ Left(m, n, op) => Len(t) = i - 1
  BY MovedFrames
<1>0. Entered(m, n, op) => t[i + 1].bytecode \in scope.runnable
  <2>1. Entered(m, n, op) => i + 1 \in 1 .. Len(t)
    BY <1>1
  <2> QED BY <2>1, FrameIs
<1>2. /\ LevelFits(op, lv) /\ Pushed(op) \in Int
      /\ \A j \in Successors(Ops(scope, s[i]), s[i].ip) : level[s[i].bytecode][j] = After(op, lv)
      /\ level[s[i].bytecode][1] = Level(0, 0)
      /\ op \in {"CALL", "MBTRCALL"} => Successors(Ops(scope, s[i]), s[i].ip) = {s[i].ip + 1}
  <2>1. i \in 1 .. Len(m.call_stack)
    BY <1>1
  <2> DEFINE f == s[i]
  <2>2. f = m.call_stack[i] /\ op = Ops(scope, f)[f.ip].op
    OBVIOUS
  <2> HIDE DEF f, i
  <2>3. LevelFacts(scope, level, f, op)
    BY <2>1, <2>2, FrameLevelIs
  <2> QED BY <2>3 DEF f, LevelFacts
<1>3. /\ v \in Nat /\ v >= Operands(op) /\ (op = "END" => v = 1) /\ (op = "MBTRCALL" => v = 2)
      /\ (op \in {"CALL", "MBTRCALL"} => v >= 2)
  <2>1. op \in {"CALL", "MBTRCALL"} => Operands(op) = 2
    BY DEF Operands
  <2> HIDE DEF lv
  <2> QED BY <1>2, <2>1 DEF LevelFits
<1>4. After(op, lv).values = v + Pushed(op)
  BY LevelIs DEF After
<1>5. /\ height \in [Nat -> Int] /\ height[0] = 0 /\ ls = height[i] + 1
      /\ \A k \in 1 .. i : height[k - 1] \in Nat /\ height[k] = height[k - 1] + FrameLevel(level, s[k]).values + (-1)
  BY DEF Heights
<1>6. height[i - 1] \in Nat /\ height[i] = height[i - 1] + v + (-1) /\ height[i] \in Int
  <2> HIDE DEF s, i
  <2> QED BY <1>1, <1>5 DEF s, i
<1>7. Left(m, n, op) => op = "END" /\ ln = ls
  BY DEF Left
<1>8. Stays(scope, m, n, op) => ln = ls + Pushed(op)
  BY DEF Stays
<1>9. (Entered(m, n, op) => op \in {"CALL", "MBTRCALL"} /\ ln = ls + (-2)) /\ (Reentered(m, n, op) => op = "MBTRCALL" /\ ln = ls + (-2))
  BY DEF Entered, Reentered
<1>10. \A h : Heights(level, n, h) <=>
            /\ h \in [Nat -> Int] /\ h[0] = 0 /\ ln = h[Len(t)] + 1
            /\ \A k \in 1 .. Len(t) : h[k - 1] \in Nat /\ h[k] = h[k - 1] + FrameLevel(level, t[k]).values + (-1)
  BY DEF Heights
<1>11. op # "END" /\ Stays(scope, m, n, op) => FrameLevel(level, t[i]).values = v + Pushed(op)
  BY <1>1, <1>2, <1>4 DEF FrameLevel
<1>12. Entered(m, n, op) => FrameLevel(level, t[i]).values = v + (-1)
  <2>1. op \in {"CALL", "MBTRCALL"} => Pushed(op) = -1
    BY DEF Pushed
  <2>2. Entered(m, n, op) => FrameLevel(level, t[i]) = After(op, lv)
    BY <1>1, <1>2, <1>9 DEF FrameLevel
  <2> QED BY <1>4, <1>9, <2>1, <2>2
<1>14. Reentered(m, n, op) => FrameLevel(level, t[i]).values = 0
  <2>1. Level(0, 0).values = 0
    BY LevelIs
  <2>2. Reentered(m, n, op) => FrameLevel(level, t[i]) = Level(0, 0)
    BY <1>1, <1>2, <1>9 DEF FrameLevel
  <2> QED BY <2>1, <2>2
<1>15. Entered(m, n, op) => FrameLevel(level, t[i + 1]).values = 0
  <2>1. Level(0, 0).values = 0
    BY LevelIs
  <2>2. Entered(m, n, op) => FrameLevel(level, t[i + 1]) = Level(0, 0)
    BY <1>0, <1>1, CodeIs DEF FrameLevel
  <2> QED BY <2>1, <2>2
<1>16. \A k \in 1 .. (i - 1) : FrameLevel(level, t[k]) = FrameLevel(level, s[k])
  BY <1>1
<1> DEFINE Own(u, k) == FrameLevel(level, u[k]).values
<1> HIDE DEF Own
<1>17. /\ \A k \in 1 .. (i - 1) : Own(t, k) = Own(s, k)
       /\ op # "END" /\ Stays(scope, m, n, op) => Own(t, i) = v + Pushed(op)
       /\ Entered(m, n, op) => Own(t, i) = v + (-1) /\ Own(t, i + 1) = 0
       /\ Reentered(m, n, op) => Own(t, i) = 0
  BY <1>11, <1>12, <1>14, <1>15, <1>16 DEF Own
<1>22. \A k \in 1 .. i : height[k - 1] \in Nat /\ height[k] = height[k - 1] + Own(s, k) + (-1)
  BY <1>5 DEF Own
<1>23. \A h : Heights(level, n, h) <=>
            /\ h \in [Nat -> Int] /\ h[0] = 0 /\ ln = h[Len(t)] + 1
            /\ \A k \in 1 .. Len(t) : h[k - 1] \in Nat /\ h[k] = h[k - 1] + Own(t, k) + (-1)
  BY <1>10 DEF Own
<1>24. i \in Nat /\ i > 0
  BY <1>1
<1>25. height \in [Nat -> Int] /\ height[0] = 0 /\ ls = height[i] + 1
  BY <1>5
<1>26. \A k \in 1 .. i : k \in Nat /\ k - 1 \in Nat /\ k - 1 # i /\ (k # i => k \in 1 .. (i - 1))
  <2> HIDE DEF i
  <2> QED BY <1>24
<1>27. op # "END" /\ Stays(scope, m, n, op) => height[i - 1] \in Nat
  BY <1>6
<1>28. Pushed(op) \in Int
  BY <1>2
<1>18. ASSUME op # "END", Stays(scope, m, n, op) PROVE \E h : Heights(level, n, h)
  <2> DEFINE x == height[i] + Pushed(op)
             h == [height EXCEPT ![i] = x]
  <2>1. x \in Int
    BY <1>2, <1>6
  <2>2. h \in [Nat -> Int] /\ h[i] = x /\ \A k \in Nat : k # i => h[k] = height[k]
    BY <1>1, <1>5, <2>1, HeightPut
  <2> HIDE DEF h
  <2>3. h[0] = 0 /\ ln = h[i] + 1
    BY <1>6, <1>8, <1>18, <1>24, <1>25, <1>28, <2>2
  <2>4. ASSUME NEW k \in 1 .. i PROVE h[k - 1] \in Nat /\ h[k] = h[k - 1] + Own(t, k) + (-1)
    <3>1. k - 1 \in Nat /\ k - 1 # i /\ k \in Nat /\ height[k - 1] \in Nat
      BY <1>22, <1>26
    <3>2. h[k - 1] = height[k - 1]
      BY <2>2, <3>1
    <3>3. CASE k = i
      BY <1>3, <1>6, <1>17, <1>18, <1>28, <2>2, <3>1, <3>2, <3>3
    <3>4. CASE k # i
      BY <1>17, <1>22, <1>26, <2>2, <3>1, <3>2, <3>4
    <3> QED BY <3>3, <3>4
  <2> QED BY <1>1, <1>23, <1>18, <2>2, <2>3, <2>4
<1>19. ASSUME Entered(m, n, op) PROVE \E h : Heights(level, n, h)
  <2> DEFINE x == height[i] + (-1)
             y == height[i] + (-2)
             g == [height EXCEPT ![i] = x]
             h == [g EXCEPT ![i + 1] = y]
  <2>1. x \in Nat /\ y \in Int
    BY <1>3, <1>6, <1>9, <1>19
  <2>2. g \in [Nat -> Int] /\ g[i] = x /\ \A k \in Nat : k # i => g[k] = height[k]
    BY <1>1, <1>5, <2>1, HeightPut
  <2> HIDE DEF g
  <2>3. h \in [Nat -> Int] /\ h[i + 1] = y /\ \A k \in Nat : k # i + 1 => h[k] = g[k]
    BY <1>1, <2>1, <2>2, HeightPut
  <2> HIDE DEF h
  <2>4. h[i] = x /\ h[0] = 0 /\ ln = h[i + 1] + 1
    <3>1. 0 # i /\ 0 # i + 1 /\ i # i + 1 /\ i \in Nat /\ height[i] \in Int
      BY <1>6, <1>24
    <3>2. h[i] = x /\ h[0] = 0 /\ h[i + 1] = y
      BY <1>25, <2>2, <2>3, <3>1
    <3>3. ln = ls + (-2) /\ ls = height[i] + 1
      BY <1>9, <1>19, <1>25
    <3> QED BY <3>1, <3>2, <3>3
  <2>5. ASSUME NEW k \in 1 .. (i + 1) PROVE h[k - 1] \in Nat /\ h[k] = h[k - 1] + Own(t, k) + (-1)
    <3>1. CASE k = i + 1
      <4>1. k - 1 = i
        BY <1>1, <3>1
      <4> QED BY <1>6, <1>17, <1>19, <2>1, <2>3, <2>4, <3>1, <4>1
    <3>2. CASE k = i
      <4>1. h[k - 1] = height[k - 1] /\ height[k - 1] \in Nat
        BY <1>1, <1>6, <2>2, <2>3, <3>2
      <4> QED BY <1>3, <1>6, <1>9, <1>17, <1>19, <2>4, <3>2, <4>1
    <3>3. CASE k \in 1 .. (i - 1)
      <4>2. k \in 1 .. i /\ k # i /\ k - 1 # i + 1 /\ k # i + 1
        BY <1>24, <3>3
      <4>1. h[k - 1] = height[k - 1] /\ h[k] = height[k]
        BY <1>26, <2>2, <2>3, <4>2
      <4> QED BY <1>17, <1>22, <3>3, <4>1, <4>2
    <3> QED BY <1>1, <3>1, <3>2, <3>3
  <2> QED BY <1>1, <1>23, <1>19, <2>3, <2>4, <2>5
<1>20. ASSUME Reentered(m, n, op) PROVE \E h : Heights(level, n, h)
  <2> DEFINE x == height[i] + (-2)
             h == [height EXCEPT ![i] = x]
  <2>1. x \in Int
    BY <1>6
  <2>2. h \in [Nat -> Int] /\ h[i] = x /\ \A k \in Nat : k # i => h[k] = height[k]
    BY <1>1, <1>5, <2>1, HeightPut
  <2> HIDE DEF h
  <2>3. h[0] = 0 /\ ln = h[i] + 1
    BY <1>1, <1>5, <1>6, <1>9, <1>20, <2>2
  <2>4. ASSUME NEW k \in 1 .. i PROVE h[k - 1] \in Nat /\ h[k] = h[k - 1] + Own(t, k) + (-1)
    <3>1. k - 1 \in Nat /\ k - 1 # i /\ k \in Nat /\ height[k - 1] \in Nat
      BY <1>22, <1>26
    <3>2. h[k - 1] = height[k - 1]
      BY <2>2, <3>1
    <3>3. CASE k = i
      BY <1>3, <1>6, <1>9, <1>17, <1>20, <2>2, <3>1, <3>2, <3>3
    <3>4. CASE k # i
      BY <1>17, <1>22, <1>26, <2>2, <3>1, <3>2, <3>4
    <3> QED BY <3>3, <3>4
  <2> QED BY <1>1, <1>23, <1>20, <2>2, <2>3, <2>4
<1>21. ASSUME Left(m, n, op) PROVE \E h : Heights(level, n, h)
  <2>1. ln = height[i - 1] + 1
    BY <1>3, <1>5, <1>6, <1>7, <1>21
  <2>2. \A k \in 1 .. (i - 1) : k \in 1 .. i /\ Own(t, k) = Own(s, k)
    BY <1>1, <1>17
  <2>3. Heights(level, n, height)
    BY <1>1, <1>22, <1>23, <1>25, <1>21, <2>1, <2>2
  <2> QED BY <2>3
<1> QED BY <1>18, <1>19, <1>20, <1>21 DEF Moves

-----------------------------------------------------------------------------
(* How many environments there are above one. *)

EnvChain(scope, m, c, k) ==
    /\ \A i \in 0 .. k : Live(scope, m, c[i]) /\ KindOf(m, c[i]) = "env"
    /\ \A i \in 0 .. (k - 1) : c[i + 1] = At(m, c[i]).up

\* The environment e, and k more above it.
EnvAbove(scope, m, e, k) == k \in Nat /\ \E c : c[0] = e /\ EnvChain(scope, m, c, k)

\* The environments that are still there are what they were.
SameEnvs(scope, m, n) ==
    \A v : Live(scope, m, v) /\ Live(scope, n, v) /\ KindOf(m, v) = "env" =>
              KindOf(n, v) = "env" /\ At(n, v).up = At(m, v).up

LEMMA EnvAboveKept ==
    ASSUME NEW scope, NEW m, NEW n, SoundIn(scope, n), SameEnvs(scope, m, n),
           NEW e, Live(scope, n, e), NEW k, EnvAbove(scope, m, e, k)
    PROVE  EnvAbove(scope, n, e, k)
<1>1. PICK c : c[0] = e /\ EnvChain(scope, m, c, k)
  BY DEF EnvAbove
<1>2. k \in Nat
  BY DEF EnvAbove
<1> DEFINE S == {i \in 0 .. k : Live(scope, n, c[i])}
<1>3. 0 \in S
  BY <1>1, <1>2
<1>4. ASSUME NEW i \in 0 .. k, Live(scope, n, c[i])
      PROVE  KindOf(n, c[i]) = "env" /\ At(n, c[i]).up = At(m, c[i]).up
  <2>1. Live(scope, m, c[i]) /\ KindOf(m, c[i]) = "env"
    BY <1>1 DEF EnvChain
  <2> QED BY <1>4, <2>1 DEF SameEnvs
<1>5. ASSUME NEW i \in 0 .. (k - 1), i \in S PROVE i + 1 \in S
  <2>1. i \in 0 .. k /\ i + 1 \in 0 .. k /\ Live(scope, n, c[i])
    BY <1>2, <1>5
  <2>2. KindOf(n, c[i]) = "env" /\ c[i + 1] = At(n, c[i]).up
    BY <1>1, <1>4, <2>1 DEF EnvChain
  <2>3. Live(scope, n, c[i + 1])
    BY <2>1, <2>2, EnvFields
  <2> QED BY <2>1, <2>3
<1>6. \A i \in 0 .. k : i \in S
  <2> HIDE DEF S
  <2> QED BY <1>2, <1>3, <1>5, UpTo
<1>7. \A i \in 0 .. k : Live(scope, n, c[i]) /\ KindOf(n, c[i]) = "env" /\ At(n, c[i]).up = At(m, c[i]).up
  BY <1>4, <1>6
<1>8. \A i \in 0 .. (k - 1) : i \in 0 .. k
  BY <1>2
<1>9. EnvChain(scope, n, c, k)
  BY <1>1, <1>7, <1>8 DEF EnvChain
<1> QED BY <1>1, <1>2, <1>9 DEF EnvAbove

LEMMA EnvAboveNone ==
    ASSUME NEW scope, NEW m, NEW e, Live(scope, m, e), KindOf(m, e) = "env"
    PROVE  EnvAbove(scope, m, e, 0)
<1> DEFINE c == [i \in 0 .. 0 |-> e]
<1>1. c[0] = e /\ EnvChain(scope, m, c, 0)
  BY DEF EnvChain
<1> HIDE DEF c
<1> QED BY <1>1 DEF EnvAbove

\* An environment is pushed.
LEMMA EnvAbovePushed ==
    ASSUME NEW scope, NEW m, NEW e, Live(scope, m, e), KindOf(m, e) = "env", NEW k, EnvAbove(scope, m, At(m, e).up, k)
    PROVE  EnvAbove(scope, m, e, k + 1)
<1>1. PICK c : c[0] = At(m, e).up /\ EnvChain(scope, m, c, k)
  BY DEF EnvAbove
<1>2. k \in Nat
  BY DEF EnvAbove
<1> DEFINE d == [i \in 0 .. (k + 1) |-> IF i = 0 THEN e ELSE c[i - 1]]
<1>3. d[0] = e /\ \A i \in 0 .. k : i + 1 \in 0 .. (k + 1) /\ d[i + 1] = c[i]
  <2>1. \A i \in 0 .. k : i + 1 \in 0 .. (k + 1) /\ (i + 1) - 1 = i /\ i + 1 # 0
    BY <1>2
  <2> QED BY <1>2, <2>1
<1>4. \A i \in 0 .. (k + 1) : i = 0 \/ (i - 1 \in 0 .. k /\ (i - 1) + 1 = i)
  BY <1>2
<1> HIDE DEF d
<1>5. \A i \in 0 .. (k + 1) : Live(scope, m, d[i]) /\ KindOf(m, d[i]) = "env"
  <2> SUFFICES ASSUME NEW i \in 0 .. (k + 1) PROVE Live(scope, m, d[i]) /\ KindOf(m, d[i]) = "env"
    OBVIOUS
  <2>1. CASE i = 0
    BY <1>3, <2>1
  <2>2. CASE i - 1 \in 0 .. k /\ (i - 1) + 1 = i
    <3>1. d[i] = c[i - 1]
      BY <1>3, <2>2
    <3> QED BY <1>1, <2>2, <3>1 DEF EnvChain
  <2> QED BY <1>4, <2>1, <2>2
<1>6. ASSUME NEW i \in 0 .. k PROVE d[i + 1] = At(m, d[i]).up
  <2>1. CASE i = 0
    BY <1>1, <1>3, <2>1
  <2>2. CASE i # 0
    <3>1. i - 1 \in 0 .. k /\ (i - 1) + 1 = i /\ i - 1 \in 0 .. (k - 1)
      BY <1>2, <2>2
    <3>2. d[i] = c[i - 1] /\ d[i + 1] = c[i]
      BY <1>3, <3>1
    <3>3. c[i] = At(m, c[i - 1]).up
      BY <1>1, <3>1 DEF EnvChain
    <3> QED BY <3>2, <3>3
  <2> QED BY <2>1, <2>2
<1>7. (k + 1) - 1 = k /\ k + 1 \in Nat
  BY <1>2
<1>8. EnvChain(scope, m, d, k + 1)
  BY <1>5, <1>6, <1>7 DEF EnvChain
<1> QED BY <1>3, <1>7, <1>8 DEF EnvAbove

\* An environment is popped.
LEMMA EnvAbovePopped ==
    ASSUME NEW scope, NEW m, NEW e, NEW k, EnvAbove(scope, m, e, k), k > 0
    PROVE  /\ EnvAbove(scope, m, At(m, e).up, k + (-1))
           /\ KindOf(m, e) = "env" /\ KindOf(m, At(m, e).up) = "env"
<1>1. PICK c : c[0] = e /\ EnvChain(scope, m, c, k)
  BY DEF EnvAbove
<1>2. k \in Nat /\ k - 1 \in Nat
  BY DEF EnvAbove
<1> DEFINE d == [i \in 0 .. (k - 1) |-> c[i + 1]]
<1>3. \A i \in 0 .. (k - 1) : i + 1 \in 0 .. k /\ d[i] = c[i + 1]
  BY <1>2
<1> HIDE DEF d
<1>4. 0 \in 0 .. k /\ 0 \in 0 .. (k - 1) /\ 0 + 1 = 1 /\ 1 \in 0 .. k
  BY <1>2
<1>5. c[1] = At(m, e).up /\ d[0] = c[1]
  <2>1. c[0 + 1] = At(m, c[0]).up
    BY <1>1, <1>4 DEF EnvChain
  <2> QED BY <1>1, <1>3, <1>4, <2>1
<1>6. \A i \in 0 .. (k - 1) : Live(scope, m, d[i]) /\ KindOf(m, d[i]) = "env"
  BY <1>1, <1>3 DEF EnvChain
<1>7. ASSUME NEW i \in 0 .. ((k - 1) - 1) PROVE d[i + 1] = At(m, d[i]).up
  <2>1. i \in 0 .. (k - 1) /\ i + 1 \in 0 .. (k - 1)
    BY <1>2
  <2>2. d[i] = c[i + 1] /\ d[i + 1] = c[(i + 1) + 1]
    BY <1>3, <2>1
  <2>3. c[(i + 1) + 1] = At(m, c[i + 1]).up
    BY <1>1, <2>1 DEF EnvChain
  <2> QED BY <2>2, <2>3
<1>8. EnvChain(scope, m, d, k - 1)
  BY <1>6, <1>7 DEF EnvChain
<1>9. KindOf(m, c[0]) = "env" /\ KindOf(m, c[1]) = "env"
  BY <1>1, <1>4 DEF EnvChain
<1>10. EnvAbove(scope, m, At(m, e).up, k - 1)
  BY <1>2, <1>5, <1>8 DEF EnvAbove
<1>11. k + (-1) = k - 1
  BY <1>2
<1> QED BY <1>1, <1>5, <1>9, <1>10, <1>11

\* The environment a frame runs in, or goes on in when its call returns.
EnvOf(m, k) == IF k = Len(m.call_stack) THEN m.env ELSE m.call_stack[k + 1].env

EnvsFit(scope, level, m) ==
    \A k \in 1 .. Len(m.call_stack) :
        EnvAbove(scope, m, EnvOf(m, k), FrameLevel(level, m.call_stack[k]).envs)

LEMMA EnvsKept ==
    ASSUME NEW scope, NEW level, ScopeFits(scope, level), NEW m, SoundIn(scope, m), Controlled(scope, m),
           Len(m.call_stack) > 0, NEW op,
           op = Ops(scope, m.call_stack[Len(m.call_stack)])[m.call_stack[Len(m.call_stack)].ip].op,
           NEW n, SoundIn(scope, n), Moves(scope, m, n, op), SameEnvs(scope, m, n), EnvsFit(scope, level, m)
    PROVE  EnvsFit(scope, level, n)
<1> DEFINE s == m.call_stack
           t == n.call_stack
           i == Len(s)
           lv == FrameLevel(level, s[i])
<1>1. /\ i \in Nat /\ i > 0 /\ \A k \in 1 .. (i - 1) : t[k] = s[k]
      /\ op # "END" => t[i].bytecode = s[i].bytecode /\ t[i].env = s[i].env
      /\ Stays(scope, m, n, op) => Len(t) = i /\ t[i].ip \in Successors(Ops(scope, s[i]), s[i].ip)
      /\ Entered(m, n, op) => Len(t) = i + 1 /\ t[i].ip = s[i].ip + 1 /\ t[i + 1].ip = 1 /\ t[i + 1].env = m.env
      /\ Reentered(m, n, op) => Len(t) = i /\ t[i].ip = 1
      /\ Left(m, n, op) => Len(t) = i - 1
  BY MovedFrames
<1>0. Entered(m, n, op) => t[i + 1].bytecode \in scope.runnable
  <2>1. Entered(m, n, op) => i + 1 \in 1 .. Len(t)
    BY <1>1
  <2> QED BY <2>1, FrameIs
<1>2. LevelFacts(scope, level, s[i], op)
  <2> DEFINE f == s[i]
  <2>1. i \in 1 .. Len(m.call_stack)
    BY <1>1
  <2>2. f = m.call_stack[i] /\ op = Ops(scope, f)[f.ip].op
    OBVIOUS
  <2> HIDE DEF f, i
  <2>3. LevelFacts(scope, level, f, op)
    BY <2>1, <2>2, FrameLevelIs
  <2> QED BY <2>3 DEF f
<1>3. lv.envs \in Nat /\ (op = "POPENV" => lv.envs > 0)
  <2> HIDE DEF lv
  <2>1. LevelFits(op, lv)
    BY <1>2 DEF LevelFacts, lv
  <2> QED BY <2>1 DEF LevelFits
<1>4. op # "END" /\ Stays(scope, m, n, op) => FrameLevel(level, t[i]).envs = lv.envs + PushedEnvs(op)
  <2>1. After(op, lv).envs = lv.envs + PushedEnvs(op)
    BY LevelIs DEF After
  <2>2. op # "END" /\ Stays(scope, m, n, op) => FrameLevel(level, t[i]) = After(op, lv)
    BY <1>1, <1>2 DEF FrameLevel, LevelFacts
  <2> QED BY <2>1, <2>2
<1>5. Entered(m, n, op) => FrameLevel(level, t[i]).envs = lv.envs /\ FrameLevel(level, t[i + 1]).envs = 0
  <2>0. Entered(m, n, op) => op \in {"CALL", "MBTRCALL"}
    BY DEF Entered
  <2>1. op \in {"CALL", "MBTRCALL"} => PushedEnvs(op) = 0
    BY DEF PushedEnvs
  <2>2. Entered(m, n, op) => FrameLevel(level, t[i]) = After(op, lv)
    BY <1>1, <1>2, <2>0 DEF FrameLevel, LevelFacts
  <2>3. After(op, lv).envs = lv.envs + PushedEnvs(op) /\ Level(0, 0).envs = 0
    BY LevelIs DEF After
  <2>4. Entered(m, n, op) => FrameLevel(level, t[i + 1]) = Level(0, 0)
    BY <1>0, <1>1, CodeIs DEF FrameLevel
  <2> QED BY <1>3, <2>0, <2>1, <2>2, <2>3, <2>4
<1>6. Reentered(m, n, op) => op # "END" /\ FrameLevel(level, t[i]).envs = 0
  <2>0. Reentered(m, n, op) => op = "MBTRCALL"
    BY DEF Reentered
  <2>2. Reentered(m, n, op) => FrameLevel(level, t[i]) = Level(0, 0)
    BY <1>1, <1>2, <2>0 DEF FrameLevel, LevelFacts
  <2>3. Level(0, 0).envs = 0
    BY LevelIs
  <2> QED BY <2>0, <2>2, <2>3
<1>7. \A k \in 1 .. i : EnvAbove(scope, m, EnvOf(m, k), FrameLevel(level, s[k]).envs)
  BY DEF EnvsFit
<1>8. /\ EnvAbove(scope, m, m.env, lv.envs)
      /\ \A k \in 1 .. (i - 1) : EnvAbove(scope, m, s[k + 1].env, FrameLevel(level, s[k]).envs)
  <2>1. \A k \in 1 .. (i - 1) : k \in 1 .. i /\ k # i
    BY <1>1
  <2> QED BY <1>1, <1>7, <2>1 DEF EnvOf
<1>9. Live(scope, n, n.env) /\ \A k \in 1 .. Len(t) : Live(scope, n, t[k].env)
  BY SoundParts, FrameIs DEF Parts
<1>10. \A e, k : EnvAbove(scope, m, e, k) /\ Live(scope, n, e) => EnvAbove(scope, n, e, k)
  BY EnvAboveKept
<1> DEFINE Own(u, k) == FrameLevel(level, u[k]).envs
<1>11. /\ \A k \in 1 .. (i - 1) : Own(t, k) = Own(s, k)
       /\ \A k \in 1 .. (i - 1) : EnvAbove(scope, m, s[k + 1].env, Own(s, k))
       /\ op # "END" /\ Stays(scope, m, n, op) => Own(t, i) = lv.envs + PushedEnvs(op)
       /\ Entered(m, n, op) => Own(t, i) = lv.envs /\ Own(t, i + 1) = 0
       /\ Reentered(m, n, op) => Own(t, i) = 0
  BY <1>1, <1>4, <1>5, <1>6, <1>8
<1>12. EnvsFit(scope, level, n) <=> \A k \in 1 .. Len(t) : EnvAbove(scope, n, EnvOf(n, k), Own(t, k))
  BY DEF EnvsFit
<1>13. \A k : EnvOf(n, k) = IF k = Len(t) THEN n.env ELSE t[k + 1].env
  BY DEF EnvOf
<1> HIDE DEF Own, s, t, i, lv
\* The frames below the last two are as they were.
<1>14. ASSUME NEW k \in 1 .. (i - 1), t[k + 1].env = s[k + 1].env, k + 1 \in 1 .. Len(t)
       PROVE  EnvAbove(scope, n, t[k + 1].env, Own(t, k))
  BY <1>9, <1>10, <1>11, <1>14
<1>15. \A k \in 1 .. (i - 1) : k + 1 \in 1 .. i /\ (k + 1 \in 1 .. (i - 1) \/ k + 1 = i) /\ k # i /\ k # i + 1
  BY <1>1
<1>16. op # "END" => \A k \in 1 .. (i - 1) : t[k + 1].env = s[k + 1].env
  BY <1>1, <1>15
<1>17. ASSUME op # "END", Stays(scope, m, n, op) PROVE EnvsFit(scope, level, n)
  <2>1. EnvAbove(scope, n, n.env, Own(t, i))
    <3>1. EnvMoves(m, n, op)
      BY <1>17 DEF Stays
    <3>2. Own(t, i) = lv.envs + PushedEnvs(op) /\ EnvAbove(scope, m, m.env, lv.envs)
      BY <1>8, <1>11, <1>17
    <3>3. CASE op = "PUSHENV"
      <4>1. KindOf(n, n.env) = "env" /\ At(n, n.env).up = m.env /\ PushedEnvs(op) = 1
        BY <3>1, <3>3 DEF EnvMoves, PushedEnvs
      <4>2. Live(scope, n, m.env)
        BY <1>9, <4>1, EnvFields
      <4>3. EnvAbove(scope, n, At(n, n.env).up, lv.envs)
        BY <1>10, <3>2, <4>1, <4>2
      <4>4. EnvAbove(scope, n, n.env, lv.envs + 1)
        BY <1>9, <4>1, <4>3, EnvAbovePushed
      <4> QED BY <3>2, <4>1, <4>4
    <3>4. CASE op = "POPENV"
      <4>1. n.env = At(m, m.env).up /\ PushedEnvs(op) = -1
        BY <3>1, <3>4 DEF EnvMoves, PushedEnvs
      <4>2. EnvAbove(scope, m, At(m, m.env).up, lv.envs + (-1))
        BY <1>3, <3>2, <3>4, EnvAbovePopped
      <4> QED BY <1>9, <1>10, <3>2, <4>1, <4>2
    <3>5. CASE op \notin {"PUSHENV", "POPENV"}
      <4>1. n.env = m.env /\ PushedEnvs(op) = 0
        BY <3>1, <3>5 DEF EnvMoves, PushedEnvs
      <4>2. lv.envs + 0 = lv.envs
        BY <1>3
      <4> QED BY <1>9, <1>10, <3>2, <4>1, <4>2
    <3> QED BY <3>3, <3>4, <3>5
  <2>2. Len(t) = i /\ \A k \in 1 .. i : k = i \/ k \in 1 .. (i - 1)
    BY <1>1, <1>17
  <2>3. \A k \in 1 .. (i - 1) : EnvAbove(scope, n, t[k + 1].env, Own(t, k))
    BY <1>14, <1>15, <1>16, <1>17, <2>2
  <2> QED BY <1>12, <1>13, <2>1, <2>2, <2>3
<1>18. ASSUME Entered(m, n, op) PROVE EnvsFit(scope, level, n)
  <2>0. op # "END" /\ KindOf(n, n.env) = "env"
    BY <1>18 DEF Entered
  <2>1. EnvAbove(scope, n, n.env, Own(t, i + 1))
    BY <1>9, <1>11, <1>18, <2>0, EnvAboveNone
  <2>2. Len(t) = i + 1 /\ \A k \in 1 .. (i + 1) : k = i + 1 \/ k = i \/ k \in 1 .. (i - 1)
    BY <1>1, <1>18
  <2>3. i + 1 \in 1 .. Len(t) /\ i # i + 1 /\ \A k \in 1 .. (i - 1) : k + 1 \in 1 .. Len(t)
    BY <1>1, <2>2
  <2>4. EnvAbove(scope, n, t[i + 1].env, Own(t, i))
    BY <1>1, <1>8, <1>9, <1>10, <1>11, <1>18, <2>3
  <2>5. \A k \in 1 .. (i - 1) : EnvAbove(scope, n, t[k + 1].env, Own(t, k))
    BY <1>14, <1>16, <2>0, <2>3
  <2> QED BY <1>12, <1>13, <1>15, <2>1, <2>2, <2>3, <2>4, <2>5
<1>19. ASSUME Reentered(m, n, op) PROVE EnvsFit(scope, level, n)
  <2>0. op # "END" /\ KindOf(n, n.env) = "env"
    BY <1>6, <1>19 DEF Reentered
  <2>1. EnvAbove(scope, n, n.env, Own(t, i))
    BY <1>9, <1>11, <1>19, <2>0, EnvAboveNone
  <2>2. Len(t) = i /\ \A k \in 1 .. i : k = i \/ k \in 1 .. (i - 1)
    BY <1>1, <1>19
  <2>3. \A k \in 1 .. (i - 1) : EnvAbove(scope, n, t[k + 1].env, Own(t, k))
    BY <1>14, <1>15, <1>16, <2>0, <2>2
  <2> QED BY <1>12, <1>13, <2>1, <2>2, <2>3
<1>20. ASSUME Left(m, n, op) PROVE EnvsFit(scope, level, n)
  <2>1. n.env = s[i].env /\ Len(t) = i - 1
    BY <1>1, <1>20 DEF Left, s, i
  <2>2. \A k \in 1 .. (i - 1) : k = i - 1 => k + 1 = i
    BY <1>1
  <2>3. ASSUME NEW k \in 1 .. (i - 1) PROVE EnvAbove(scope, n, EnvOf(n, k), Own(t, k))
    <3>1. CASE k = i - 1
      <4>1. EnvAbove(scope, m, n.env, Own(t, k))
        BY <1>11, <2>1, <2>2, <3>1
      <4> QED BY <1>9, <1>10, <1>13, <2>1, <3>1, <4>1
    <3>2. CASE k # i - 1
      <4>1. k + 1 \in 1 .. (i - 1)
        BY <1>1, <3>2
      <4>2. t[k + 1].env = s[k + 1].env /\ k + 1 \in 1 .. Len(t)
        BY <1>1, <2>1, <4>1
      <4> QED BY <1>13, <1>14, <2>1, <3>2, <4>2
    <3> QED BY <3>1, <3>2
  <2> QED BY <1>12, <2>1, <2>3
<1> QED BY <1>17, <1>18, <1>19, <1>20 DEF Moves

-----------------------------------------------------------------------------
(* The steps of a program that is verified. *)

\* No step changes which environment is above another.
LEMMA StepSameEnvs ==
    ASSUME NEW scope, InvIn(scope), [ExecutionNext]_execution
    PROVE  SameEnvs(scope, vm, vm')
<1> DEFINE objects == [a \in Addressed(scope, vm) |-> Permanent(vm.heap[a])]
<1>1. PICK now : now = [codes |-> scope.codes, runnable |-> scope.runnable,
                        objects |-> objects, garbage |-> scope.garbage]
  OBVIOUS
<1>2. /\ now.codes = scope.codes /\ now.runnable = scope.runnable
      /\ now.objects = objects /\ now.garbage = scope.garbage
  BY <1>1
<1>3. SoundIn(scope, vm) /\ IsStack(output) /\ RootsBalanced
  BY DEF InvIn
<1>4. \A m, v : Live(now, m, v) <=> Live(scope, m, v)
  BY <1>2 DEF Live
<1>5. \A m : Addressed(now, m) = Addressed(scope, m)
  BY <1>2 DEF Addressed
<1>6. DOMAIN now.objects \subseteq 1 .. (vm.next - 1)
  BY <1>2, <1>3 DEF SoundIn, Addressed
<1>7. \A a \in Addressed(now, vm) \cap DOMAIN now.objects : Permanent(vm.heap[a]) = now.objects[a]
  BY <1>2
<1>8. \A m, o : ObjectSound(now, m, o) <=> ObjectSound(scope, m, o)
  BY <1>2, <1>4 DEF ObjectSound
<1>9. SoundIn(now, vm)
  BY <1>2, <1>3, <1>4, <1>5, <1>6, <1>7, <1>8 DEF SoundIn
<1>10. InvIn(now)
  BY <1>3, <1>9 DEF InvIn
<1>11. InvIn(now)'
  BY <1>10, StepKeeps
<1> DEFINE n == vm'
<1>12. SoundIn(now, n)
  BY <1>11 DEF InvIn
<1>13. \A a \in Addressed(scope, n) \cap Addressed(scope, vm) : Permanent(n.heap[a]) = Permanent(vm.heap[a])
  BY <1>2, <1>5, <1>12 DEF SoundIn
<1>14. ASSUME NEW v, Live(scope, vm, v), Live(scope, n, v), KindOf(vm, v) = "env"
       PROVE  KindOf(n, v) = "env" /\ At(n, v).up = At(vm, v).up
  <2> DEFINE o == vm.heap[v[2]]
             p == n.heap[v[2]]
  <2>1. /\ v[2] \in Addressed(scope, vm) /\ IsRef(v) /\ At(vm, v) = o /\ o.kind = "env"
        /\ DOMAIN o = {"kind", "vars", "up"}
    BY <1>3, <1>14, EnvFields
  <2>2. v[2] \in Addressed(scope, n) /\ v[2] \in DOMAIN n.heap /\ At(n, v) = p /\ KindOf(n, v) = p.kind
    BY <1>14, <2>1 DEF Live, Addressed, At, KindOf
  <2>3. Permanent(p) = Permanent(o)
    BY <1>13, <2>1, <2>2
  <2>4. ObjectSound(now, n, p)
    BY <1>5, <1>12, <2>2 DEF SoundIn
  <2> HIDE DEF o, p
  <2>5. "kind" \in DOMAIN p
    BY <2>4 DEF ObjectSound
  <2>6. Permanent(p).kind = p.kind /\ Permanent(o).kind = o.kind /\ Permanent(o).up = o.up
    BY <2>1, <2>5 DEF Permanent
  <2>7. p.kind = "env"
    BY <2>1, <2>3, <2>6
  <2>8. DOMAIN p = {"kind", "vars", "up"}
    BY <2>4, <2>7 DEF ObjectSound, ObjectFields
  <2>9. Permanent(p).up = p.up
    BY <2>8 DEF Permanent
  <2> QED BY <2>1, <2>2, <2>3, <2>6, <2>7, <2>9
<1> QED BY <1>14 DEF SameEnvs

\* The program is where its code allows, with what the levels say.
FitIn(scope, level) ==
    /\ InvIn(scope) /\ ScopeFits(scope, level)
    /\ vm.running => /\ Controlled(scope, vm) /\ EnvsFit(scope, level, vm)
                     /\ \E height : Heights(level, vm, height)

LEMMA RoundFits ==
    ASSUME NEW scope, NEW level, FitIn(scope, level), [ExecutionNext]_execution, NEW op, Round(op), vm'.running = TRUE,
           InvIn(scope)'
    PROVE  FitIn(scope, level)'
<1> DEFINE n == vm'
<1>1. InvIn(scope) /\ ScopeFits(scope, level) /\ SoundIn(scope, vm) /\ SoundIn(scope, n)
  BY DEF FitIn, InvIn
<1>2. Controlled(scope, vm) /\ EnvsFit(scope, level, vm) /\ vm.running
  BY DEF FitIn, Round
<1>3. Len(vm.call_stack) > 0
  BY <1>1, Fetching DEF Round
<1>4. Current(vm).op = op /\ Does(Advance(vm, 1), n, op)
  BY DEF Round
<1>5. PICK height : Heights(level, vm, height)
  BY <1>2 DEF FitIn
<1>6. SameEnvs(scope, vm, n)
  BY <1>1, StepSameEnvs
<1>7. n.running = TRUE
  OBVIOUS
<1> HIDE DEF n
<1>8. /\ Moves(scope, vm, n, op)
      /\ op = Ops(scope, vm.call_stack[Len(vm.call_stack)])[vm.call_stack[Len(vm.call_stack)].ip].op
  BY <1>1, <1>2, <1>3, <1>4, <1>7, RoundMoves
<1>9. Controlled(scope, n)
  BY <1>1, <1>2, <1>3, <1>8, ControlKept
<1>10. EnvsFit(scope, level, n)
  BY <1>1, <1>2, <1>3, <1>6, <1>8, EnvsKept
<1>11. \E h : Heights(level, n, h)
  BY <1>1, <1>2, <1>3, <1>5, <1>8, HeightsKept
<1> QED BY <1>1, <1>9, <1>10, <1>11 DEF FitIn, n

\* A program that is finished is not run any more.
LEMMA FinishStops ==
    ASSUME NEW scope, InvIn(scope), Finish
    PROVE  vm'.running = FALSE
<1> DEFINE v == vm.stack[1]
           p == Return(vm, v)
<1>1. PICK shown : vm' = IF vm.error_count = 0 /\ vm.print_result THEN Prints(p, <<shown>>) ELSE p
  BY DEF Finish
<1>2. p.running = FALSE /\ DOMAIN p = MachineFields
  <2>1. SoundIn(scope, vm)
    BY DEF InvIn
  <2> HIDE DEF v
  <2>2. p.running = FALSE /\ SoundIn(scope, p)
    BY <2>1, ReturnIs
  <2> HIDE DEF p
  <2> QED BY <2>2, SoundIs
<1> HIDE DEF p
<1>3. Prints(p, <<shown>>).running = FALSE
  BY <1>2 DEF Prints, MachineFields
<1> QED BY <1>1, <1>2, <1>3

LEMMA StepFits ==
    ASSUME NEW scope, NEW level, FitIn(scope, level), [ExecutionNext]_execution
    PROVE  FitIn(scope, level)'
<1>1. InvIn(scope) /\ ScopeFits(scope, level)
  BY DEF FitIn
<1>2. InvIn(scope)'
  BY <1>1, StepKeeps
<1>3. ASSUME ~vm'.running PROVE FitIn(scope, level)'
  BY <1>1, <1>2, <1>3 DEF FitIn
<1>4. ASSUME UNCHANGED execution PROVE FitIn(scope, level)'
  <2>1. vm' = vm /\ output' = output
    BY <1>4 DEF execution
  <2> QED BY <1>1, <1>2, <2>1 DEF FitIn
<1>5. ASSUME Finish PROVE ~vm'.running
  BY <1>1, <1>5, FinishStops
<1>6. ASSUME Instructions, vm'.running PROVE FitIn(scope, level)'
  <2>1. PICK op \in OpNames : Round(op)
    BY <1>1, <1>6, InstructionKeeps
  <2>2. vm'.running = TRUE
    BY <1>6
  <2> QED BY <1>2, <2>1, <2>2, RoundFits
<1> QED BY <1>3, <1>4, <1>5, <1>6 DEF ExecutionNext

\* A program starts in one frame, with nothing on the stack.
LEMMA StartIs ==
    ASSUME ExecutionInit
    PROVE  vm.stack = <<>> /\ IsStack(output) /\ RootsBalanced /\ \E f : f.ip = 1 /\ vm.call_stack = <<f>>
<1>1. PICK m, env, compiled : Sound(m) /\ vm = Enter(m, env, compiled)
  BY DEF ExecutionInit
<1> DEFINE p == PushTemp(m, compiled)
           frame == Frame(At(m, compiled).bytecode, env, compiled)
<1>2. DOMAIN p = MachineFields
  <2>1. DOMAIN m = MachineFields
    BY <1>1, SoundIs DEF Sound
  <2> QED BY <2>1, PushTempIs DEF Changes
<1>3. vm = [p EXCEPT !.stack = <<>>, !.call_stack = <<frame>>, !.env = env, !.running = TRUE]
  BY <1>1 DEF Enter
<1>4. frame.ip = 1
  BY DEF Frame
<1> HIDE DEF p, frame
<1>5. vm.stack = <<>> /\ vm.call_stack = <<frame>>
  BY <1>2, <1>3 DEF MachineFields
<1>6. IsStack(output) /\ RootsBalanced
  BY EnterStarts DEF Inv, InvIn
<1> QED BY <1>4, <1>5, <1>6

\* What the compiler emits fits where the program starts.
LEMMA StartFits ==
    ASSUME ExecutionInit, CompiledFit
    PROVE  \E scope, level : FitIn(scope, level)
<1>1. PICK scope : scope = Verifying(vm)
  OBVIOUS
<1>2. SoundIn(scope, vm) /\ KindOf(vm, vm.env) = "env"
  BY <1>1 DEF CompiledFit, SoundIn
<1>3. InvIn(scope)
  BY <1>2, StartIs DEF InvIn
<1>4. PICK level : level = [b \in scope.runnable |-> Levels(scope.codes[b].ops)]
  OBVIOUS
<1>5. ScopeFits(scope, level)
  <2>1. scope.codes = vm.codes /\ \A b \in scope.runnable : Verified(scope.objects, vm.codes[b])
    BY <1>1 DEF Verifying
  <2> QED BY <1>4, <2>1 DEF ScopeFits, Verified
<1>6. PICK f : f.ip = 1 /\ vm.call_stack = <<f>> /\ vm.stack = <<>>
  BY StartIs
<1> DEFINE s == vm.call_stack
<1>7. Len(s) = 1 /\ s[1] = f /\ Len(vm.stack) = 0
  BY <1>6
<1> HIDE DEF s
<1>8. f.bytecode \in scope.runnable
  BY <1>2, <1>7, FrameIs DEF s
<1>9. 1 \in DOMAIN Ops(scope, f) /\ FrameLevel(level, f) = Level(0, 0)
  BY <1>5, <1>6, <1>8, CodeIs DEF Ops, FrameLevel
<1>10. Controlled(scope, vm)
  BY <1>6, <1>7, <1>9 DEF Controlled, Unconditional, s
<1>11. EnvsFit(scope, level, vm)
  <2>1. Live(scope, vm, vm.env)
    BY <1>2, SoundParts DEF Parts
  <2>2. EnvAbove(scope, vm, vm.env, 0)
    BY <1>2, <2>1, EnvAboveNone
  <2>3. Level(0, 0).envs = 0
    BY LevelIs
  <2> QED BY <1>7, <1>9, <2>2, <2>3 DEF EnvsFit, EnvOf, s
<1>12. \E height : Heights(level, vm, height)
  <2> DEFINE height == [k \in Nat |-> IF k = 1 THEN -1 ELSE 0]
  <2>1. height \in [Nat -> Int] /\ height[0] = 0 /\ height[1] = -1
    OBVIOUS
  <2> HIDE DEF height
  <2>2. Level(0, 0).values = 0
    BY LevelIs
  <2>3. Heights(level, vm, height)
    BY <1>7, <1>9, <2>1, <2>2 DEF Heights, s
  <2> QED BY <2>3
<1> QED BY <1>3, <1>5, <1>10, <1>11, <1>12 DEF FitIn

\* What the instruction that is next takes for granted is there.
LEMMA FitExecutable ==
    ASSUME NEW scope, NEW level, FitIn(scope, level)
    PROVE  Executable
<1> SUFFICES ASSUME vm.running, ~Finished(vm)
             PROVE  LET ip == CurrentFrame(vm).ip
                        ops == Code(vm).ops
                    IN  /\ ip \in DOMAIN ops
                        /\ Len(vm.stack) >= Operands(ops[ip].op)
                        /\ ConstantFits(vm.heap, Code(vm), ip)
                        /\ ops[ip].op = "JN" => JumpTarget(ops, ip) \in DOMAIN ops
                        /\ ops[ip].op = "POPENV" => /\ KindOf(vm, vm.env) = "env"
                                                   /\ KindOf(vm, At(vm, vm.env).up) = "env"
  BY DEF Executable
<1>1. InvIn(scope) /\ ScopeFits(scope, level) /\ SoundIn(scope, vm) /\ vm.codes = scope.codes
  BY SoundIs DEF FitIn, InvIn
<1>2. Controlled(scope, vm) /\ EnvsFit(scope, level, vm) /\ Len(vm.call_stack) > 0
  BY <1>1, Fetching DEF FitIn
<1>3. PICK height : Heights(level, vm, height)
  BY DEF FitIn
<1> DEFINE s == vm.call_stack
           i == Len(s)
           f == s[i]
           ip == f.ip
           ops == Ops(scope, f)
           op == ops[ip].op
           lv == FrameLevel(level, f)
<1>4. i \in Nat /\ i > 0 /\ i \in 1 .. i
  BY <1>1, <1>2, SoundIs DEF IsStack
<1>5. CurrentFrame(vm) = f /\ Code(vm) = scope.codes[f.bytecode] /\ Code(vm).ops = ops
  BY <1>1 DEF CurrentFrame, Last, Code, Ops
<1>6. f.bytecode \in scope.runnable /\ ip \in DOMAIN ops
  BY <1>1, <1>2, <1>4, FrameIs DEF Controlled
<1>7. /\ LevelFits(op, lv) /\ ConstantFits(scope.objects, scope.codes[f.bytecode], ip)
      /\ \A j \in Successors(ops, ip) : j \in DOMAIN ops
  BY <1>1, <1>6, CodeIs DEF Ops, FrameLevel
<1>8. op = "JN" => JumpTarget(ops, ip) \in DOMAIN ops
  BY <1>7, SuccessorsAre
<1>9. Len(vm.stack) >= Operands(op)
  <2>1. height[i - 1] \in Nat /\ height[i] = height[i - 1] + lv.values + (-1) /\ Len(vm.stack) = height[i] + 1
    BY <1>3, <1>4 DEF Heights
  <2>2. lv.values \in Nat /\ lv.values >= Operands(op) /\ Operands(op) \in Nat
    <3>1. Operands(op) \in Nat
      <4> HIDE DEF op
      <4> QED BY DEF Operands
    <3> HIDE DEF lv, op
    <3> QED BY <1>7, <3>1 DEF LevelFits
  <2> DEFINE values == lv.values
             below == height[i - 1]
             all == Len(vm.stack)
             needed == Operands(op)
  <2>3. below \in Nat /\ values \in Nat /\ needed \in Nat /\ values >= needed /\ all = below + values + (-1) + 1
    BY <2>1, <2>2
  <2> HIDE DEF values, below, all, needed
  <2>4. all >= needed
    BY <2>3
  <2> QED BY <2>4 DEF all, needed
<1>10. op = "POPENV" => KindOf(vm, vm.env) = "env" /\ KindOf(vm, At(vm, vm.env).up) = "env"
  <2> SUFFICES ASSUME op = "POPENV" PROVE KindOf(vm, vm.env) = "env" /\ KindOf(vm, At(vm, vm.env).up) = "env"
    OBVIOUS
  <2>1. lv.envs > 0
    <3>1. LevelFits("POPENV", lv)
      BY <1>7
    <3> HIDE DEF lv
    <3> QED BY <3>1 DEF LevelFits
  <2>2. EnvAbove(scope, vm, vm.env, lv.envs)
    BY <1>2, <1>4 DEF EnvsFit, EnvOf
  <2> HIDE DEF lv
  <2> QED BY <2>1, <2>2, EnvAbovePopped
<1>11. ConstantFits(vm.heap, Code(vm), ip)
  <2> DEFINE code == scope.codes[f.bytecode]
             k == code.ops[ip].arg
             v == code.constant_pool[k]
  <2>1. ConstantFits(scope.objects, code, ip) /\ Code(vm) = code
    BY <1>5, <1>7
  <2>2. \A w \in Range(code.constant_pool) : Live(scope, vm, w)
    <3>1. f \in Range(s)
      BY <1>1, <1>4, SoundIs DEF IsStack, Range
    <3>2. FrameSound(vm, f) /\ Live(scope, vm, f.func)
      BY <1>1, <3>1, SoundParts DEF Parts, FrameFits
    <3>3. Range(vm.codes[At(vm, f.func).bytecode].constant_pool) \subseteq References(vm, At(vm, f.func))
          /\ \A w \in References(vm, At(vm, f.func)) : Live(scope, vm, w)
      BY <1>1, <3>2, FuncFields DEF FrameSound
    <3> QED BY <1>1, <3>2, <3>3 DEF FrameSound
  <2>3. k \in DOMAIN code.constant_pool => Live(scope, vm, v)
    BY <2>2 DEF Range
  <2>4. ASSUME k \in DOMAIN code.constant_pool, IsRef(v), v[2] \in DOMAIN scope.objects, scope.objects[v[2]].kind = "func"
        PROVE  v[2] \in DOMAIN vm.heap /\ vm.heap[v[2]].kind = "func"
    <3> DEFINE a == v[2]
               o == vm.heap[a]
    <3>1. a \in Addressed(scope, vm) /\ a \in DOMAIN vm.heap
      BY <2>3, <2>4 DEF Live, Addressed
    <3>2. Permanent(o) = scope.objects[a] /\ ObjectSound(scope, vm, o)
      BY <1>1, <2>4, <3>1 DEF SoundIn
    <3> HIDE DEF o
    <3>3. Permanent(o).kind = o.kind
      BY <3>2 DEF ObjectSound, Permanent
    <3> QED BY <2>4, <3>1, <3>2, <3>3 DEF o
  <2> HIDE DEF v
  <2> QED BY <2>1, <2>4 DEF ConstantFits, v
<1> QED BY <1>5, <1>6, <1>8, <1>9, <1>10, <1>11

Fits == \E scope, level : FitIn(scope, level)

LEMMA FitsAlways == CompiledSpec => []Fits
<1>1. ExecutionInit /\ CompiledFit => Fits
  BY StartFits DEF Fits
<1>2. Fits /\ [ExecutionNext]_execution => Fits'
  BY StepFits DEF Fits
<1> QED BY <1>1, <1>2, PTL DEF CompiledSpec

\* The machine of such a program stays as a sound machine is, and none of its
\* frames runs off the end of its code.
THEOREM TypeOKAlways == CompiledSpec => []TypeOK
<1>1. ASSUME Inv, Fits PROVE TypeOK
  <2>1. PICK scope, level : FitIn(scope, level)
    BY <1>1 DEF Fits
  <2>2. Sound(vm) /\ IsStack(output)
    BY <1>1 DEF Inv, InvIn, Sound
  <2>3. SoundIn(scope, vm) /\ vm.codes = scope.codes /\ ScopeFits(scope, level)
        /\ (vm.running => Controlled(scope, vm))
    BY <2>1, SoundIs DEF FitIn, InvIn
  <2> DEFINE s == vm.call_stack
  <2>4. IsStack(s)
    BY <2>2 DEF Sound, SoundIn
  <2>5. PICK w : w = Whole(vm)
    OBVIOUS
  <2>6. SoundIn(w, vm) /\ w.runnable = DOMAIN vm.codes
    BY <2>2, <2>5 DEF Sound, Whole
  <2>7. ASSUME NEW f \in Range(s)
        PROVE  /\ f.bytecode \in DOMAIN vm.codes
               /\ vm.running => f.ip \in DOMAIN vm.codes[f.bytecode].ops
    <3>1. PICK i \in 1 .. Len(s) : f = s[i]
      BY <2>4, <2>7 DEF IsStack, Range
    <3>2. f.bytecode \in DOMAIN vm.codes
      BY <2>6, <3>1, FrameIs
    <3>3. ASSUME vm.running PROVE f.ip \in DOMAIN Ops(scope, f)
      BY <2>3, <3>1, <3>3 DEF Controlled
    <3> QED BY <2>3, <3>2, <3>3 DEF Ops
  <2> QED BY <2>2, <2>7 DEF TypeOK
<1>2. CompiledSpec => []Inv
  BY ExecutionInv, PTL DEF CompiledSpec, ExecutionSpec
<1> QED BY <1>1, <1>2, FitsAlways, PTL

\* A program whose bytecode fits together leaves one value: however it calls,
\* returns, jumps and marks its tail calls, END finds what its function has
\* computed and nothing besides, so "success:" of hll_interpret_bytecode_internal
\* takes the result of the program.
THEOREM OneValueLeftAlways == CompiledSpec => []OneValueLeft
<1>1. ASSUME NEW scope, NEW level, FitIn(scope, level), Finished(vm) PROVE Len(vm.stack) = 1
  <2>1. PICK height : Heights(level, vm, height)
    BY <1>1 DEF FitIn, Finished
  <2>2. vm.call_stack = <<>>
    BY <1>1 DEF Finished
  <2>3. Len(vm.call_stack) = 0
    BY <2>2
  <2> QED BY <2>1, <2>3 DEF Heights
<1>2. Fits => OneValueLeft
  BY <1>1 DEF Fits, OneValueLeft
<1> QED BY <1>2, FitsAlways, PTL

\* No instruction of such a program finds what it takes for granted missing,
\* whatever its functions call and whenever the collector runs: an operand, a
\* constant, the end of a jump, or the environment to go back to.
THEOREM ExecutableAlways == CompiledSpec => []Executable
<1>1. Fits => Executable
  BY FitExecutable DEF Fits
<1> QED BY <1>1, FitsAlways, PTL

-----------------------------------------------------------------------------
(* The optimiser. *)

\* What IsTail says of an instruction, if f has it for those behind.
TailBody(ops, f, i) ==
    \/ i = Len(ops) + 1
    \/ i < Len(ops) + 1 /\ ops[i].op \in {"END", "POPENV"} /\ f[i + 1]
    \/ /\ i < Len(ops) + 1 /\ ops[i].op = "NIL"
       /\ ops[i + 1].op = "JN"
       /\ f[JumpTarget(ops, i + 1)]

TailBuilt(f, ops, k) == f = [i \in k .. (Len(ops) + 1) |-> TailBody(ops, f, i)]

\* Code whose jumps go forward and whose nils are not its end.
Forward(ops) ==
    /\ Len(ops) \in Nat /\ DOMAIN ops = 1 .. Len(ops)
    /\ \A i \in DOMAIN ops :
          /\ ops[i].op \in {"NIL", "POPENV", "CALL"} => i + 1 \in DOMAIN ops
          /\ ops[i].op = "JN" => JumpTarget(ops, i) \in DOMAIN ops /\ JumpTarget(ops, i) > i

LEMMA VerifiedForward ==
    ASSUME NEW objects, NEW code, NEW level, VerifiedBy(objects, code, level)
    PROVE  Forward(code.ops)
<1> DEFINE ops == code.ops
<1>1. ops \in Seq(Range(ops))
  BY DEF VerifiedBy
<1>2. Len(ops) \in Nat /\ DOMAIN ops = 1 .. Len(ops)
  <2> HIDE DEF ops
  <2> QED BY <1>1
<1>3. ASSUME NEW i \in DOMAIN ops, ops[i].op \in {"NIL", "POPENV", "CALL"} PROVE i + 1 \in DOMAIN ops
  <2>1. i + 1 \in Successors(ops, i)
    BY <1>3, SuccessorsAre
  <2> QED BY <2>1 DEF VerifiedBy
<1>4. ASSUME NEW i \in DOMAIN ops, ops[i].op = "JN"
      PROVE  JumpTarget(ops, i) \in DOMAIN ops /\ JumpTarget(ops, i) > i
  <2>1. JumpTarget(ops, i) \in Successors(ops, i)
    BY <1>4, SuccessorsAre
  <2>2. JumpTarget(ops, i) \in DOMAIN ops /\ ops[i].arg \in Nat
    BY <1>4, <2>1 DEF VerifiedBy
  <2>3. JumpTarget(ops, i) = i + 1 + ops[i].arg
    BY DEF JumpTarget
  <2> HIDE DEF ops
  <2>4. i \in Nat
    BY <1>2
  <2> QED BY <2>2, <2>3, <2>4
<1> QED BY <1>2, <1>3, <1>4 DEF Forward

\* What is said of an instruction depends on those behind it only.
LEMMA TailReads ==
    ASSUME NEW ops, Forward(ops), NEW i \in 1 .. (Len(ops) + 1), NEW f, NEW g,
           \A j \in (i + 1) .. (Len(ops) + 1) : g[j] = f[j]
    PROVE  TailBody(ops, g, i) = TailBody(ops, f, i)
<1>1. Len(ops) \in Nat /\ DOMAIN ops = 1 .. Len(ops)
  BY DEF Forward
<1>2. CASE i = Len(ops) + 1
  BY <1>2 DEF TailBody
<1>3. CASE i # Len(ops) + 1
  <2>1. i \in DOMAIN ops /\ i + 1 \in (i + 1) .. (Len(ops) + 1)
    BY <1>1, <1>3
  <2>2. g[i + 1] = f[i + 1]
    BY <2>1
  <2>3. ASSUME ops[i].op = "NIL", ops[i + 1].op = "JN"
        PROVE  g[JumpTarget(ops, i + 1)] = f[JumpTarget(ops, i + 1)]
    <3> DEFINE t == JumpTarget(ops, i + 1)
    <3>1. i + 1 \in DOMAIN ops
      BY <2>1, <2>3 DEF Forward
    <3>2. t \in DOMAIN ops /\ t > i + 1
      BY <2>3, <3>1 DEF Forward
    <3> HIDE DEF t
    <3>3. t \in (i + 1) .. (Len(ops) + 1)
      BY <1>1, <3>2
    <3>4. g[t] = f[t]
      BY <3>3
    <3> QED BY <3>4 DEF t
  <2> QED BY <2>2, <2>3, Zenon DEF TailBody
<1> QED BY <1>2, <1>3

LEMMA TailExists ==
    ASSUME NEW ops, Forward(ops)
    PROVE  \E f : TailBuilt(f, ops, 1)
<1> DEFINE end == Len(ops) + 1
           S == {n \in Nat : \E f : TailBuilt(f, ops, end - n)}
<1>0. Len(ops) \in Nat
  BY DEF Forward
<1>1. 0 \in S
  <2> DEFINE f == [i \in end .. end |-> TRUE]
  <2>1. \A i \in end .. end : TailBody(ops, f, i) = TRUE
    BY <1>0 DEF TailBody
  <2>2. f = [i \in end .. end |-> TailBody(ops, f, i)]
    <3> HIDE DEF end
    <3> QED BY <2>1
  <2>3. end - 0 = end
    BY <1>0
  <2>4. TailBuilt(f, ops, end - 0)
    BY <2>2, <2>3 DEF TailBuilt
  <2> QED BY <2>4
<1>2. ASSUME NEW n \in 0 .. (Len(ops) - 1), n \in S PROVE n + 1 \in S
  <2> DEFINE k == end - n
  <2>1. PICK f : TailBuilt(f, ops, k)
    BY <1>2
  <2> DEFINE i0 == k - 1
             g == [i \in i0 .. end |-> IF i = i0 THEN TailBody(ops, f, i) ELSE f[i]]
  <2>2. k \in 2 .. end /\ i0 \in 1 .. Len(ops) /\ end - (n + 1) = i0
    BY <1>0
  <2>3. f = [i \in k .. end |-> TailBody(ops, f, i)]
    BY <2>1 DEF TailBuilt
  <2>4. \A i \in k .. end : g[i] = f[i] /\ f[i] = TailBody(ops, f, i)
    <3>1. \A i \in k .. end : i \in i0 .. end /\ i # i0
      BY <1>0, <2>2
    <3> HIDE DEF k, end, i0
    <3> QED BY <2>3, <3>1
  <2>5. g[i0] = TailBody(ops, f, i0)
    BY <1>0, <2>2
  <2> HIDE DEF g
  <2>6. ASSUME NEW i \in i0 .. end PROVE g[i] = TailBody(ops, g, i)
    <3>1. i \in 1 .. (Len(ops) + 1) /\ (i = i0 \/ i \in k .. end)
      BY <1>0, <2>2
    <3>2. \A j \in (i + 1) .. (Len(ops) + 1) : g[j] = f[j]
      <4>1. \A j \in (i + 1) .. (Len(ops) + 1) : j \in k .. end
        BY <1>0, <2>2
      <4> QED BY <2>4, <4>1
    <3>3. TailBody(ops, g, i) = TailBody(ops, f, i)
      BY <3>1, <3>2, TailReads
    <3>4. g[i] = TailBody(ops, f, i)
      BY <2>4, <2>5, <3>1, Zenon
    <3> QED BY <3>3, <3>4, Zenon
  <2>7. g = [i \in i0 .. end |-> TailBody(ops, g, i)]
    <3>1. g = [i \in i0 .. end |-> g[i]]
      <4> HIDE DEF k, end, i0
      <4> QED BY DEF g
    <3> HIDE DEF k, end, i0
    <3> QED BY <2>6, <3>1, Zenon
  <2>8. TailBuilt(g, ops, end - (n + 1))
    BY <2>2, <2>7 DEF TailBuilt
  <2>9. n + 1 \in Nat
    OBVIOUS
  <2> QED BY <2>8, <2>9
<1>3. \A n \in 0 .. Len(ops) : n \in S
  <2> HIDE DEF S
  <2> QED BY <1>0, <1>1, <1>2, UpTo
<1>4. Len(ops) \in S
  <2> HIDE DEF S
  <2> QED BY <1>0, <1>3
<1>5. end - Len(ops) = 1
  BY <1>0
<1> QED BY <1>4, <1>5

\* IsTail is what its loop says of the instruction after the call.
LEMMA TailIs ==
    ASSUME NEW ops, Forward(ops), NEW call
    PROVE  \E f : TailBuilt(f, ops, 1) /\ IsTail(ops, call) = f[call + 1]
<1> DEFINE Step(f) == [i \in 1 .. (Len(ops) + 1) |-> TailBody(ops, f, i)]
           tail == CHOOSE f : f = Step(f)
<1>1. IsTail(ops, call) = tail[call + 1]
  BY DEF IsTail, TailBody
<1>2. PICK f : TailBuilt(f, ops, 1)
  BY TailExists
<1>3. f = Step(f)
  BY <1>2 DEF TailBuilt
<1> HIDE DEF Step
<1>4. tail = Step(tail)
  BY <1>3, Zenon
<1>5. TailBuilt(tail, ops, 1)
  BY <1>4 DEF TailBuilt, Step
<1> HIDE DEF tail
<1> QED BY <1>1, <1>5

\* Where nothing is left to do but to jump, to leave scopes and to return, the
\* function has its result on the stack and nothing else.
LEMMA TailLevels ==
    ASSUME NEW objects, NEW code, NEW level, VerifiedBy(objects, code, level),
           NEW f, TailBuilt(f, code.ops, 1)
    PROVE  \A i \in DOMAIN code.ops : f[i] => level[i].values = 1
<1> DEFINE ops == code.ops
           last == Len(ops)
           S == {n \in Nat : \A i \in DOMAIN ops : i >= last - n /\ f[i] => level[i].values = 1}
<1>1. Forward(ops)
  BY VerifiedForward
<1>2. last \in Nat /\ DOMAIN ops = 1 .. last
  BY <1>1 DEF Forward
<1>3. \A i \in DOMAIN ops : /\ LevelFits(ops[i].op, level[i])
                            /\ \A j \in Successors(ops, i) : j \in DOMAIN ops /\ level[j] = After(ops[i].op, level[i])
  BY DEF VerifiedBy
<1>4. \A i \in 1 .. (last + 1) : f[i] = TailBody(ops, f, i)
  BY DEF TailBuilt
<1> HIDE DEF ops
<1>5. ASSUME NEW i \in DOMAIN ops, f[i],
             \A j \in DOMAIN ops : j > i /\ f[j] => level[j].values = 1
      PROVE  level[i].values = 1
  <2>1. TailBody(ops, f, i) /\ i # last + 1 /\ i \in Nat
    <3>1. i \in 1 .. (last + 1) /\ i # last + 1 /\ i \in Nat
      BY <1>2
    <3> HIDE DEF last
    <3>2. f[i] = TailBody(ops, f, i)
      BY <1>4, <3>1
    <3> QED BY <1>5, <3>1, <3>2, Zenon
  <2>2. level[i].values \in Nat
    BY <1>3 DEF LevelFits
  <2>3. CASE ops[i].op = "END"
    BY <1>3, <2>3 DEF LevelFits
  <2>4. CASE ops[i].op = "POPENV" /\ f[i + 1]
    <3>1. i + 1 \in Successors(ops, i)
      BY <2>4, SuccessorsAre
    <3>2. i + 1 \in DOMAIN ops /\ level[i + 1] = After("POPENV", level[i])
      BY <1>3, <2>4, <3>1
    <3>3. level[i + 1].values = 1
      BY <1>5, <2>1, <2>4, <3>2
    <3>4. Pushed("POPENV") = 0
      BY DEF Pushed
    <3> QED BY <2>2, <3>2, <3>3, <3>4, LevelIs DEF After
  <2>5. CASE ops[i].op = "NIL" /\ ops[i + 1].op = "JN" /\ f[JumpTarget(ops, i + 1)]
    <3> DEFINE t == JumpTarget(ops, i + 1)
    <3>1. i + 1 \in Successors(ops, i) /\ t \in Successors(ops, i + 1)
      BY <2>5, SuccessorsAre
    <3>2. i + 1 \in DOMAIN ops /\ level[i + 1] = After("NIL", level[i])
      BY <1>3, <2>5, <3>1
    <3>3. t \in DOMAIN ops /\ level[t] = After("JN", level[i + 1]) /\ t > i + 1
      BY <1>1, <1>3, <2>5, <3>1, <3>2 DEF Forward
    <3>4. t > i
      <4>1. t \in Nat
        BY <1>2, <3>3
      <4> HIDE DEF t
      <4> QED BY <2>1, <3>3, <4>1
    <3>5. level[t].values = 1
      BY <1>5, <2>5, <3>3, <3>4
    <3> HIDE DEF t
    <3>6. Pushed("NIL") = 1 /\ Pushed("JN") = -1
      BY DEF Pushed
    <3>7. level[i + 1].values = level[i].values + 1
      BY <3>2, <3>6, LevelIs DEF After
    <3>8. level[t].values = level[i + 1].values + (-1)
      BY <3>3, <3>6, LevelIs DEF After
    <3> QED BY <2>2, <3>5, <3>7, <3>8
  <2> QED BY <2>1, <2>3, <2>4, <2>5 DEF TailBody
<1>6. 0 \in S
  <2>1. ASSUME NEW i \in DOMAIN ops, i >= last - 0, f[i] PROVE level[i].values = 1
    <3>1. \A j \in DOMAIN ops : ~(j > i)
      BY <1>2, <2>1
    <3> QED BY <1>5, <2>1, <3>1
  <2> QED BY <2>1
<1>7. ASSUME NEW n \in 0 .. (last - 1), n \in S PROVE n + 1 \in S
  <2>1. ASSUME NEW i \in DOMAIN ops, i >= last - (n + 1), f[i] PROVE level[i].values = 1
    <3>1. ASSUME NEW j \in DOMAIN ops, j > i, f[j] PROVE level[j].values = 1
      <4>1. j >= last - n
        BY <1>2, <2>1, <3>1
      <4> QED BY <1>7, <3>1, <4>1
    <3> QED BY <1>5, <2>1, <3>1
  <2>2. n + 1 \in Nat
    BY <1>2
  <2> QED BY <2>1, <2>2
<1>8. \A n \in 0 .. last : n \in S
  <2> HIDE DEF S, last
  <2> QED BY <1>2, <1>6, <1>7, UpTo
<1>9. last \in S
  <2> HIDE DEF S
  <2> QED BY <1>2, <1>8
<1>10. \A i \in DOMAIN ops : i >= last - last
  BY <1>2
<1> QED BY <1>9, <1>10 DEF ops

\* A call that is marked is followed by nothing but the return.
LEMMA MarkedFits ==
    ASSUME NEW objects, NEW code, NEW level, VerifiedBy(objects, code, level),
           NEW i \in DOMAIN code.ops, code.ops[i].op = "CALL", IsTail(code.ops, i)
    PROVE  level[i].values = 2
<1> DEFINE ops == code.ops
<1>1. Forward(ops)
  BY VerifiedForward
<1>2. PICK f : TailBuilt(f, ops, 1) /\ IsTail(ops, i) = f[i + 1]
  BY <1>1, TailIs
<1>3. i + 1 \in Successors(ops, i)
  BY SuccessorsAre
<1>4. i + 1 \in DOMAIN ops /\ level[i + 1] = After("CALL", level[i]) /\ level[i].values \in Nat
  BY <1>3 DEF VerifiedBy, LevelFits
<1>5. level[i + 1].values = 1
  BY <1>2, <1>4, TailLevels
<1>6. Pushed("CALL") = -1
  BY DEF Pushed
<1> QED BY <1>4, <1>5, <1>6, LevelIs DEF After

\* The optimiser keeps what is verified, level by level: it marks a call only if
\* the function has nothing but its argument and its callee on the stack and the
\* code that follows, through the jumps of each arm of an if and out of each
\* scope, is nothing but the way to END.
THEOREM OptimizedVerified ==
    ASSUME NEW objects, NEW code, "ops" \in DOMAIN code, "constant_pool" \in DOMAIN code,
           NEW level, VerifiedBy(objects, code, level)
    PROVE  VerifiedBy(objects, Optimized(code), level)
<1> DEFINE ops == code.ops
           marked == mark_tail_calls(ops)
           n == [code EXCEPT !.ops = marked]
<1>1. ASSUME code.name = "" PROVE Optimized(code) = code
  BY <1>1 DEF Optimized
<1>2. ASSUME code.name # "" PROVE Optimized(code) = n
  BY <1>2 DEF Optimized
<1>3. n.ops = marked /\ n.constant_pool = code.constant_pool
  OBVIOUS
<1>4. Forward(ops)
  BY VerifiedForward
<1>5. Len(ops) \in Nat /\ DOMAIN ops = 1 .. Len(ops)
  BY <1>4 DEF Forward
<1>6. DOMAIN marked = DOMAIN ops
  BY DEF mark_tail_calls
<1>7. ASSUME NEW i \in DOMAIN ops
      PROVE  \/ marked[i] = ops[i]
             \/ /\ ops[i].op = "CALL" /\ IsTail(ops, i)
                /\ marked[i] = Instruction("MBTRCALL", 0)
  BY DEF mark_tail_calls
<1> HIDE DEF marked
<1>8. Instruction("MBTRCALL", 0).op = "MBTRCALL"
  BY DEF Instruction
<1>9. \A i \in DOMAIN ops :
         /\ marked[i].op = ops[i].op \/ (ops[i].op = "CALL" /\ marked[i].op = "MBTRCALL")
         /\ ops[i].op # "CALL" => marked[i] = ops[i]
         /\ marked[i].op \in {"JN", "NIL", "CONST", "MAKEFUN"} => marked[i] = ops[i]
  BY <1>7, <1>8
<1>10. \A i \in DOMAIN ops : i \in Nat
  BY <1>5
<1>11. \A i \in DOMAIN ops : After(marked[i].op, level[i]) = After(ops[i].op, level[i])
  <2>1. Pushed("CALL") = Pushed("MBTRCALL") /\ PushedEnvs("CALL") = PushedEnvs("MBTRCALL")
    BY DEF Pushed, PushedEnvs
  <2> QED BY <1>9, <2>1 DEF After
<1>12. \A i \in Jumps(ops) : JumpTarget(marked, i) = JumpTarget(ops, i)
  BY <1>9 DEF Jumps, JumpTarget
<1>13. Jumps(marked) = Jumps(ops)
  BY <1>6, <1>9 DEF Jumps
<1>14. ASSUME NEW i \in DOMAIN ops PROVE Unconditional(marked, i) <=> Unconditional(ops, i)
  <2>1. marked[i].op = "JN" <=> ops[i].op = "JN"
    BY <1>9
  <2>2. i > 1 => (marked[i - 1].op = "NIL" <=> ops[i - 1].op = "NIL")
    <3>1. i > 1 => i - 1 \in DOMAIN ops
      BY <1>5
    <3> QED BY <1>9, <3>1
  <2> QED BY <1>12, <1>13, <2>1, <2>2 DEF Unconditional
<1>15. ASSUME NEW i \in DOMAIN ops PROVE Successors(marked, i) = Successors(ops, i)
  <2>1. CASE ops[i].op = "JN"
    <3>1. marked[i].op = "JN" /\ JumpTarget(marked, i) = JumpTarget(ops, i)
      BY <1>9, <1>12, <2>1 DEF Jumps
    <3> QED BY <1>14, <2>1, <3>1, SuccessorsAre
  <2>2. CASE ops[i].op # "JN"
    <3>1. marked[i].op # "JN" /\ (marked[i].op = "END" <=> ops[i].op = "END")
      BY <1>9, <2>2
    <3> QED BY <2>2, <3>1, SuccessorsAre
  <2> QED BY <2>1, <2>2
<1>16. ASSUME NEW i \in DOMAIN ops PROVE LevelFits(marked[i].op, level[i])
  <2>1. LevelFits(ops[i].op, level[i])
    BY DEF VerifiedBy
  <2>2. CASE marked[i].op = ops[i].op
    BY <2>1, <2>2
  <2>3. CASE marked[i].op # ops[i].op
    <3>1. ops[i].op = "CALL" /\ IsTail(ops, i) /\ marked[i].op = "MBTRCALL"
      BY <1>7, <1>8, <2>3
    <3>2. level[i].values = 2
      BY <3>1, MarkedFits
    <3>3. Operands("MBTRCALL") = 2
      BY DEF Operands
    <3> QED BY <2>1, <3>1, <3>2, <3>3 DEF LevelFits
  <2> QED BY <2>2, <2>3
<1>17. marked \in Seq(Range(marked)) \ {<<>>}
  <2>1. ops # <<>> /\ ops \in Seq(Range(ops))
    BY DEF VerifiedBy
  <2> DEFINE k == Len(ops)
  <2>2. k \in Nat /\ k # 0
    <3> HIDE DEF ops
    <3> QED BY <2>1
  <2>3. marked = [i \in 1 .. k |-> marked[i]]
    BY <1>5, <1>6 DEF mark_tail_calls, marked
  <2> HIDE DEF k
  <2>4. DOMAIN marked = 1 .. k
    BY <2>3
  <2>5. \A i \in 1 .. k : marked[i] \in Range(marked)
    BY <2>4 DEF Range
  <2>6. marked \in Seq(Range(marked)) /\ Len(marked) = k
    <3> DEFINE V == Range(marked)
    <3> HIDE DEF V
    <3> QED BY <2>2, <2>3, <2>5 DEF V
  <2>7. marked # <<>>
    BY <2>2, <2>6
  <2> QED BY <2>6, <2>7
<1>18. VerifiedBy(objects, n, level)
  <2>1. level[1] = Level(0, 0)
    BY DEF VerifiedBy
  <2>2. ASSUME NEW i \in DOMAIN ops
        PROVE  /\ marked[i].op \in OpNames
               /\ marked[i].op = "JN" => marked[i].arg \in Nat
               /\ ConstantFits(objects, n, i)
    <3>1. /\ ops[i].op \in OpNames /\ (ops[i].op = "JN" => ops[i].arg \in Nat)
          /\ ConstantFits(objects, code, i)
      BY DEF VerifiedBy
    <3>2. CASE marked[i] = ops[i]
      BY <1>3, <3>1, <3>2 DEF ConstantFits
    <3>3. CASE marked[i] # ops[i]
      <4>1. marked[i].op = "MBTRCALL"
        BY <1>7, <1>8, <3>3
      <4> QED BY <1>3, <4>1 DEF OpNames, ConstantFits
    <3> QED BY <3>2, <3>3
  <2>3. \A i \in DOMAIN ops : \A j \in Successors(ops, i) :
           j \in DOMAIN ops /\ level[j] = After(ops[i].op, level[i])
    BY DEF VerifiedBy
  <2> HIDE DEF n, ops
  <2> QED BY <1>3, <1>6, <1>11, <1>15, <1>16, <1>17, <2>1, <2>2, <2>3 DEF VerifiedBy
<1> QED BY <1>1, <1>2, <1>18
=============================================================================
