-------------------------- MODULE Locations_proofs --------------------------
(***************************************************************************)
(* Two theorems about the locations of instructions: the search for the    *)
(* location of an instruction that can fail ends within the runs of the    *)
(* unit, and in a unit without functions it ends at a form next to the one *)
(* the instruction was made for.                                           *)
(*                                                                         *)
(* The runs are what makes the proofs long: a run says how many            *)
(* instructions it is for, and where it starts is the sum of those before  *)
(* it.  Reach gives those sums; the lemmas about it come first.            *)
(***************************************************************************)
EXTENDS Locations, SequenceTheorems, WellFoundedInduction, TLAPS

\* The order of the natural numbers, as a set of pairs.
Less == {pair \in Nat \X Nat : pair[1] < pair[2]}

\* Every nonempty set of natural numbers has a least element.
LEMMA NatLeast ==
    ASSUME NEW S \in SUBSET Nat, S # {}
    PROVE  \E n \in S : \A m \in S : n <= m
<1>1. IsWellFoundedOn(Less, Nat)
  BY NatLessThanWellFounded DEF OpToRel, Less
<1>2. PICK n \in S : \A m \in S : <<m, n>> \notin Less
  BY <1>1, WFMin, Zenon
<1>3. ASSUME NEW m \in S PROVE n <= m
  <2>1. m \in Nat /\ n \in Nat /\ <<m, n>> \notin Less
    BY <1>2
  <2> QED BY <2>1 DEF Less
<1> QED BY <1>3

RunSet == [length : Nat, loc : Nat]

\* What Reach(rle) is to be up to n.
Sums(f, rle, n) == /\ f \in [0 .. n -> Nat]
                   /\ f[0] = 0
                   /\ \A k \in 1 .. n : f[k] = f[k - 1] + rle[k].length

LEMMA LengthsNatural ==
    ASSUME NEW rle \in Seq(RunSet)
    PROVE  \A n \in 1 .. Len(rle) : rle[n].length \in Nat
<1>1. \A n \in 1 .. Len(rle) : rle[n] \in RunSet
  OBVIOUS
<1> QED BY <1>1 DEF RunSet

\* The sums of the runs exist, however many there are.
LEMMA SumsExist ==
    ASSUME NEW rle \in Seq(RunSet)
    PROVE  \E f : Sums(f, rle, Len(rle))
<1> DEFINE Missing == {n \in 0 .. Len(rle) : ~ \E f : Sums(f, rle, n)}
<1>1. ASSUME Missing # {} PROVE FALSE
  <2>0. Missing \in SUBSET Nat
    OBVIOUS
  <2>1. PICK n \in Missing : \A m \in Missing : n <= m
    BY <1>1, <2>0, NatLeast, Zenon
  <2>2. Sums([k \in 0 .. 0 |-> 0], rle, 0)
    BY DEF Sums
  <2>3. n # 0
    BY <2>2
  <2>4. n - 1 \in 0 .. Len(rle) /\ n - 1 \notin Missing
    BY <2>1, <2>3
  <2>5. PICK f : Sums(f, rle, n - 1)
    BY <2>4
  <2> DEFINE g == [k \in 0 .. n |-> IF k = n THEN f[n - 1] + rle[n].length ELSE f[k]]
  <2>6. rle[n].length \in Nat /\ n \in Nat \ {0} /\ n <= Len(rle)
    BY <2>3, LengthsNatural
  <2>7. Sums(g, rle, n)
    <3>1. g \in [0 .. n -> Nat]
      BY <2>5, <2>6 DEF Sums
    <3>2. g[0] = 0
      BY <2>5, <2>6 DEF Sums
    <3>3. \A k \in 1 .. n : g[k] = g[k - 1] + rle[k].length
      BY <2>5, <2>6 DEF Sums
    <3> QED BY <3>1, <3>2, <3>3 DEF Sums
  <2> QED BY <2>7
<1>2. Len(rle) \in 0 .. Len(rle)
  OBVIOUS
<1> QED BY <1>1, <1>2, Zenon

\* Two functions that sum up the same runs are the same.
LEMMA SumsAgree ==
    ASSUME NEW n \in Nat, NEW rle, NEW f, NEW other, NEW g, Sums(f, rle, n), g[0] = 0,
           \A k \in 1 .. n : g[k] = g[k - 1] + other[k].length,
           \A k \in 1 .. n : rle[k] = other[k]
    PROVE  \A k \in 0 .. n : f[k] = g[k]
<1> DEFINE Differ == {k \in 0 .. n : f[k] # g[k]}
<1>1. ASSUME Differ # {} PROVE FALSE
  <2>0. Differ \in SUBSET Nat
    OBVIOUS
  <2>1. PICK k \in Differ : \A m \in Differ : k <= m
    BY <1>1, <2>0, NatLeast, Zenon
  <2>2. k # 0
    BY DEF Sums
  <2>3. k - 1 \in 0 .. n /\ k \in 1 .. n /\ k - 1 \notin Differ
    BY <2>1, <2>2
  <2>4. f[k - 1] = g[k - 1]
    BY <2>3
  <2>5. f[k] = f[k - 1] + rle[k].length /\ g[k] = g[k - 1] + other[k].length
    BY <2>3 DEF Sums
  <2> QED BY <2>3, <2>4, <2>5
<1> QED BY <1>1

\* Reach is what it is defined to be.
LEMMA ReachSums ==
    ASSUME NEW rle \in Seq(RunSet)
    PROVE  Sums(Reach(rle), rle, Len(rle))
<1> DEFINE Step(f) == [n \in 0 .. Len(rle) |-> IF n = 0 THEN 0 ELSE f[n - 1] + rle[n].length]
<1>1. PICK f : Sums(f, rle, Len(rle))
  BY SumsExist
<1>2. Reach(rle) = CHOOSE g : g = Step(g)
  BY Zenon DEF Reach
<1>3. f = Step(f)
  <2>1. \A n \in 0 .. Len(rle) : f[n] = Step(f)[n]
    BY <1>1 DEF Sums
  <2> QED BY <1>1, <2>1 DEF Sums
<1> HIDE DEF Step
<1>4. Reach(rle) = Step(Reach(rle))
  BY <1>2, <1>3, Zenon
<1>5. Reach(rle)[0] = 0 /\ \A n \in 1 .. Len(rle) : Reach(rle)[n] = Reach(rle)[n - 1] + rle[n].length
  BY <1>4 DEF Step
<1>6. \A n \in 0 .. Len(rle) : f[n] = Reach(rle)[n]
  BY <1>1, <1>5, SumsAgree
<1>7. Reach(rle) = f
  BY <1>1, <1>4, <1>6 DEF Sums, Step
<1> QED BY <1>1, <1>7

\* A run more leaves what the others reach.
LEMMA ReachAppend ==
    ASSUME NEW rle \in Seq(RunSet), NEW run \in RunSet
    PROVE  /\ \A n \in 0 .. Len(rle) : Reach(Append(rle, run))[n] = Reach(rle)[n]
           /\ Reach(Append(rle, run))[Len(rle) + 1] = Reach(rle)[Len(rle)] + run.length
<1> DEFINE more == Append(rle, run)
<1>1. more \in Seq(RunSet) /\ Len(more) = Len(rle) + 1 /\ more[Len(rle) + 1] = run
  OBVIOUS
<1>2. \A n \in 1 .. Len(rle) : more[n] = rle[n]
  OBVIOUS
<1> HIDE DEF more
<1>3. Sums(Reach(rle), rle, Len(rle)) /\ Sums(Reach(more), more, Len(more))
  BY <1>1, ReachSums
<1>4. Reach(more)[0] = 0 /\ \A n \in 1 .. Len(more) : Reach(more)[n] = Reach(more)[n - 1] + more[n].length
  BY <1>3 DEF Sums
<1>5. \A n \in 0 .. Len(rle) : Reach(rle)[n] = Reach(more)[n]
  <2>1. \A n \in 1 .. Len(rle) : n \in 1 .. Len(more)
    BY <1>1
  <2>2. \A n \in 1 .. Len(rle) : Reach(more)[n] = Reach(more)[n - 1] + more[n].length
    BY <1>4, <2>1, Zenon
  <2>3. Reach(more)[0] = 0
    BY <1>4
  <2>4. Len(rle) \in Nat /\ \A n \in 1 .. Len(rle) : rle[n] = more[n]
    BY <1>2
  <2> QED BY <1>3, <2>2, <2>3, <2>4, SumsAgree
<1>6. Reach(more)[Len(rle) + 1] = Reach(more)[Len(rle)] + run.length
  <2>1. Len(rle) + 1 \in 1 .. Len(more) /\ (Len(rle) + 1) - 1 = Len(rle)
    BY <1>1
  <2>2. Reach(more)[Len(rle) + 1] = Reach(more)[(Len(rle) + 1) - 1] + more[Len(rle) + 1].length
    BY <1>4, <2>1, Zenon
  <2> QED BY <1>1, <2>1, <2>2, Zenon
<1> QED BY <1>5, <1>6 DEF more

\* The runs follow each other.
LEMMA ReachGrows ==
    ASSUME NEW rle \in Seq(RunSet)
    PROVE  \A n \in 0 .. Len(rle) : Reach(rle)[n] \in Nat /\ Reach(rle)[n] <= Reach(rle)[Len(rle)]
<1>1. Sums(Reach(rle), rle, Len(rle))
  BY ReachSums
<1> DEFINE Back == {d \in 0 .. Len(rle) : ~(Reach(rle)[Len(rle) - d] <= Reach(rle)[Len(rle)])}
<1>2. ASSUME Back # {} PROVE FALSE
  <2>0. Back \in SUBSET Nat
    OBVIOUS
  <2>1. PICK d \in Back : \A e \in Back : d <= e
    BY <1>2, <2>0, NatLeast, Zenon
  <2>2. d # 0
    BY <1>1 DEF Sums
  <2>3. d - 1 \in 0 .. Len(rle) /\ d - 1 \notin Back
    BY <2>1, <2>2
  <2>4. Reach(rle)[Len(rle) - (d - 1)] <= Reach(rle)[Len(rle)]
    BY <2>3
  <2> DEFINE n == Len(rle) - (d - 1)
  <2>5. n \in 1 .. Len(rle) /\ Len(rle) - d = n - 1
    BY <2>2, <2>3
  <2> HIDE DEF n
  <2>6. rle[n].length \in Nat
    BY <2>5, LengthsNatural
  <2>7. Reach(rle)[n] = Reach(rle)[n - 1] + rle[n].length /\ Reach(rle)[n - 1] \in Nat
    BY <1>1, <2>5 DEF Sums
  <2>8. Reach(rle)[n] <= Reach(rle)[Len(rle)] /\ Reach(rle)[Len(rle)] \in Nat
    BY <1>1, <2>4 DEF Sums, n
  <2>9. Reach(rle)[n - 1] <= Reach(rle)[Len(rle)]
    BY <2>6, <2>7, <2>8
  <2> QED BY <2>5, <2>9
<1>3. \A n \in 0 .. Len(rle) : Reach(rle)[n] <= Reach(rle)[Len(rle)]
  <2> TAKE n \in 0 .. Len(rle)
  <2>1. Len(rle) - n \in 0 .. Len(rle) /\ Len(rle) - (Len(rle) - n) = n
    OBVIOUS
  <2> QED BY <1>2, <2>1
<1> QED BY <1>1, <1>3 DEF Sums

\* The run of an instruction is the first that reaches beyond it.
FirstBeyond(rle, k, r) ==
    /\ r \in 1 .. Len(rle) /\ k < Reach(rle)[r]
    /\ \A m \in 1 .. Len(rle) : k < Reach(rle)[m] => r <= m

LEMMA RunOfFirst ==
    ASSUME NEW rle \in Seq(RunSet), NEW k \in Nat, NEW r, FirstBeyond(rle, k, r)
    PROVE  RunOf(rle, k) = r
<1> DEFINE runs == {n \in DOMAIN rle : k < Reach(rle)[n]}
<1>1. r \in runs /\ runs \subseteq Nat /\ \A m \in runs : r <= m
  BY DEF FirstBeyond
<1>2. RunOf(rle, k) = Min(runs)
  BY <1>1 DEF RunOf
<1> HIDE DEF runs
<1>3. Min(runs) \in runs /\ \A m \in runs : Min(runs) <= m
  BY <1>1, Zenon DEF Min
<1>4. Min(runs) = r
  <2> DEFINE least == Min(runs)
  <2>1. least \in runs /\ least <= r
    BY <1>1, <1>3
  <2> HIDE DEF least
  <2>2. least = r
    BY <1>1, <2>1
  <2> QED BY <2>2 DEF least
<1> QED BY <1>2, <1>4

\* There is one for every instruction before the end of the runs.
LEMMA RunExists ==
    ASSUME NEW rle \in Seq(RunSet), NEW k \in Nat, k < Reach(rle)[Len(rle)]
    PROVE  FirstBeyond(rle, k, RunOf(rle, k))
<1> DEFINE runs == {n \in 1 .. Len(rle) : k < Reach(rle)[n]}
<1>1. Reach(rle)[0] = 0
  BY ReachSums DEF Sums
<1>2. Len(rle) \in runs
  BY <1>1
<1>3. runs \in SUBSET Nat /\ runs # {}
  BY <1>2
<1> HIDE DEF runs
<1>4. PICK r \in runs : \A m \in runs : r <= m
  BY <1>3, NatLeast
<1>5. FirstBeyond(rle, k, r)
  BY <1>4 DEF FirstBeyond, runs
<1> QED BY <1>5, RunOfFirst

\* A run more is the run of the instructions it is for, and of no other.
LEMMA RunAppend ==
    ASSUME NEW rle \in Seq(RunSet), NEW run \in RunSet, NEW k \in Nat
    PROVE  LET total == Reach(rle)[Len(rle)]
               more == Append(rle, run)
           IN  /\ k < total => more[RunOf(more, k)] = rle[RunOf(rle, k)]
               /\ total <= k /\ k < total + run.length => more[RunOf(more, k)] = run
<1> DEFINE total == Reach(rle)[Len(rle)]
           more == Append(rle, run)
<1>1. more \in Seq(RunSet) /\ Len(more) = Len(rle) + 1 /\ more[Len(rle) + 1] = run
  OBVIOUS
<1>2. \A n \in 1 .. Len(rle) : more[n] = rle[n]
  OBVIOUS
<1>3. /\ \A n \in 0 .. Len(rle) : Reach(more)[n] = Reach(rle)[n]
      /\ Reach(more)[Len(rle) + 1] = total + run.length
  BY ReachAppend
<1>4. \A n \in 0 .. Len(rle) : Reach(rle)[n] \in Nat /\ Reach(rle)[n] <= total
  BY ReachGrows
<1>5. total \in Nat
  BY <1>4
<1> HIDE DEF total, more
<1>6. ASSUME k < total PROVE more[RunOf(more, k)] = rle[RunOf(rle, k)]
  <2>1. FirstBeyond(rle, k, RunOf(rle, k))
    BY <1>6, RunExists DEF total
  <2>2. FirstBeyond(more, k, RunOf(rle, k))
    BY <1>1, <1>3, <2>1 DEF FirstBeyond
  <2>3. RunOf(more, k) = RunOf(rle, k)
    BY <1>1, <2>2, RunOfFirst
  <2> QED BY <1>2, <2>1, <2>3 DEF FirstBeyond
<1>7. ASSUME total <= k, k < total + run.length PROVE more[RunOf(more, k)] = run
  <2>1. \A m \in 1 .. Len(rle) : ~(k < Reach(more)[m])
    BY <1>3, <1>4, <1>5, <1>7
  <2>2. FirstBeyond(more, k, Len(rle) + 1)
    BY <1>1, <1>3, <1>7, <2>1 DEF FirstBeyond
  <2>3. RunOf(more, k) = Len(rle) + 1
    BY <1>1, <2>2, RunOfFirst
  <2> QED BY <1>1, <2>3
<1> QED BY <1>6, <1>7 DEF total, more

-----------------------------------------------------------------------------
Kinds == {"ast", "expr", "form"}
EntrySet == [form : Nat, loc : Nat, kind : Kinds]
CompilerSet == [fn : Nat, loc_stack : Seq(EntrySet), loc_op_idx : Nat]

\* The instructions that have a run.
Total == Reach(loc_rle)[Len(loc_rle)]

Types ==
    /\ compilers \in Seq(CompilerSet)
    /\ ops \in Seq(Seq(Nat))
    /\ parent \in Seq(Nat)
    /\ recorded \in SUBSET Nat
    /\ loc_rle \in Seq(RunSet)

\* The compilers are of different functions; the last one to end is that of
\* the unit.
Nested ==
    /\ \A i \in DOMAIN compilers : compilers[i].fn \in DOMAIN ops
    /\ \A i, j \in DOMAIN compilers : compilers[i].fn = compilers[j].fn => i = j
    /\ compilers # <<>> => compilers[1].fn = 1

\* Only the first entry of a compiler's stack is that of a list of expressions.
StackShape(c) ==
    /\ c.loc_stack # <<>>
    /\ \A j \in DOMAIN c.loc_stack : c.loc_stack[j].kind = "ast" <=> j = 1

\* What a compiler has accounted for is in the runs of the unit.  Outside of
\* every form, what it has not accounted for cannot fail.
Accounted(c) ==
    /\ c.loc_op_idx <= Len(ops[c.fn])
    /\ c.loc_op_idx <= Total
    /\ Last(c.loc_stack).kind = "ast" => \A k \in Fallible(c.fn) : k <= c.loc_op_idx

RunsInv ==
    /\ Types
    /\ Nested
    /\ \A i \in DOMAIN compilers : StackShape(compilers[i]) /\ Accounted(compilers[i])
    /\ \A f \in Compiled : \A k \in Fallible(f) : k <= Total

-----------------------------------------------------------------------------
LEMMA FrontOf ==
    ASSUME NEW S, NEW s \in Seq(S), s # <<>>
    PROVE  /\ Front(s) \in Seq(S)
           /\ Len(Front(s)) = Len(s) - 1
           /\ \A i \in 1 .. Len(s) - 1 : Front(s)[i] = s[i]
           /\ Last(s) = s[Len(s)] /\ Last(s) \in S
<1> DEFINE n == Len(s) - 1
<1>1. n \in Nat /\ \A i \in 1 .. Len(s) : s[i] \in S
  OBVIOUS
<1>2. 1 \in Int /\ n \in Int /\ \A i \in 1 .. n : s[i] \in S
  BY <1>1
<1> HIDE DEF n
<1>3. /\ SubSeq(s, 1, n) \in Seq(S)
      /\ Len(SubSeq(s, 1, n)) = IF 1 <= n THEN n - 1 + 1 ELSE 0
      /\ \A i \in 1 .. n - 1 + 1 : SubSeq(s, 1, n)[i] = s[1 + i - 1]
  BY <1>2, SubSeqProperties
<1>4. Front(s) = SubSeq(s, 1, n)
  BY DEF Front, n
<1>5. Len(Front(s)) = n /\ \A i \in 1 .. n : Front(s)[i] = s[i]
  BY <1>1, <1>3, <1>4
<1>6. Last(s) = s[Len(s)] /\ Last(s) \in S
  BY <1>1 DEF Last, n
<1> QED BY <1>3, <1>4, <1>5, <1>6 DEF n

\* The sequence s with another last element.
LEMMA ReplaceLast ==
    ASSUME NEW S, NEW s \in Seq(S), s # <<>>, NEW e \in S
    PROVE  /\ Append(Front(s), e) \in Seq(S)
           /\ Len(Append(Front(s), e)) = Len(s)
           /\ \A i \in 1 .. Len(s) : Append(Front(s), e)[i] = IF i = Len(s) THEN e ELSE s[i]
<1>1. /\ Front(s) \in Seq(S) /\ Len(Front(s)) = Len(s) - 1
      /\ \A i \in 1 .. Len(s) - 1 : Front(s)[i] = s[i]
  BY FrontOf
<1> QED BY <1>1

LEMMA CompilersTyped ==
    ASSUME RunsInv
    PROVE  /\ compilers \in Seq(CompilerSet) /\ Len(compilers) \in Nat
           /\ DOMAIN compilers = 1 .. Len(compilers)
           /\ \A i \in 1 .. Len(compilers) :
                 /\ compilers[i] \in CompilerSet
                 /\ compilers[i].loc_stack \in Seq(EntrySet)
                 /\ compilers[i].loc_op_idx \in Nat
                 /\ compilers[i].fn \in DOMAIN ops
                 /\ StackShape(compilers[i]) /\ Accounted(compilers[i])
<1>1. compilers \in Seq(CompilerSet)
  BY DEF RunsInv, Types
<1>2. /\ Len(compilers) \in Nat /\ DOMAIN compilers = 1 .. Len(compilers)
      /\ \A i \in 1 .. Len(compilers) : compilers[i] \in CompilerSet
  BY <1>1
<1>3. ASSUME NEW i \in 1 .. Len(compilers)
      PROVE  /\ compilers[i].fn \in DOMAIN ops
             /\ StackShape(compilers[i]) /\ Accounted(compilers[i])
  BY <1>2, <1>3 DEF RunsInv, Nested
<1> QED BY <1>1, <1>2, <1>3 DEF CompilerSet

\* The compiler at work is the last one.
LEMMA CompilerAtWork ==
    ASSUME RunsInv, compilers # <<>>
    PROVE  /\ Len(compilers) \in DOMAIN compilers
           /\ Compiler = compilers[Len(compilers)]
           /\ Compiler \in CompilerSet
           /\ Compiler.fn \in DOMAIN ops
           /\ StackShape(Compiler) /\ Accounted(Compiler)
           /\ Ops \in Seq(Nat)
           /\ Top \in EntrySet
           /\ Pending \in Nat
<1>1. Len(compilers) \in DOMAIN compilers
  BY DEF RunsInv, Types
<1>2. Compiler = compilers[Len(compilers)] /\ Compiler \in CompilerSet
  BY FrontOf DEF RunsInv, Types, Compiler
<1>3. Compiler.fn \in DOMAIN ops /\ StackShape(Compiler) /\ Accounted(Compiler)
  BY <1>1, <1>2 DEF RunsInv, Nested
<1>4. Ops \in Seq(Nat)
  BY <1>3 DEF RunsInv, Types, Ops
<1>5. Compiler.loc_stack \in Seq(EntrySet) /\ Compiler.loc_stack # <<>> /\ Compiler.loc_op_idx \in Nat
  BY <1>2, <1>3 DEF CompilerSet, StackShape
<1>6. Top \in EntrySet
  BY <1>5, FrontOf DEF Top
<1>7. Pending \in Nat
  BY <1>3, <1>4, <1>5 DEF Accounted, Pending, Ops
<1> QED BY <1>1, <1>2, <1>3, <1>4, <1>6, <1>7

LEMMA FallibleNatural ==
    ASSUME Types
    PROVE  \A f \in Functions : /\ ops[f] \in Seq(Nat)
                               /\ Fallible(f) \subseteq 1 .. Len(ops[f])
                               /\ Fallible(f) \subseteq Nat
<1> TAKE f \in Functions
<1>1. ops[f] \in Seq(Nat)
  BY DEF Types, Functions
<1>2. DOMAIN ops[f] = 1 .. Len(ops[f]) /\ Len(ops[f]) \in Nat
  BY <1>1
<1> QED BY <1>1, <1>2 DEF Fallible

LEMMA TotalNatural ==
    ASSUME Types PROVE Total \in Nat
BY ReachGrows DEF Types, Total

\* What push_location and pop_location do to the runs.
AddsRun(loc) == loc_rle' = IF Pending > 0 THEN hll_bytecode_add_loc(loc) ELSE loc_rle

LEMMA AddsRunTotal ==
    ASSUME RunsInv, compilers # <<>>, NEW loc \in Nat, AddsRun(loc)
    PROVE  /\ loc_rle' \in Seq(RunSet)
           /\ Total' = Total + Pending
           /\ \A k \in 1 .. Total : hll_bytecode_get_loc(k - 1)' = hll_bytecode_get_loc(k - 1)
           /\ \A k \in (Total + 1) .. Total' : hll_bytecode_get_loc(k - 1)' = loc
<1>1. Pending \in Nat /\ loc_rle \in Seq(RunSet) /\ Total \in Nat
  BY CompilerAtWork, TotalNatural DEF RunsInv, Types
<1>2. CASE Pending > 0
  <2> DEFINE run == [length |-> Pending, loc |-> loc]
  <2>1. run \in RunSet /\ run.length = Pending /\ run.loc = loc
    BY <1>1 DEF RunSet
  <2>2. loc_rle' = Append(loc_rle, run)
    BY <1>2 DEF AddsRun, hll_bytecode_add_loc
  <2> HIDE DEF run
  <2>3. loc_rle' \in Seq(RunSet) /\ Len(loc_rle') = Len(loc_rle) + 1
    BY <1>1, <2>1, <2>2
  <2>4. Total' = Total + Pending
    BY <1>1, <2>1, <2>2, <2>3, ReachAppend DEF Total
  <2>5. ASSUME NEW k \in 1 .. Total
        PROVE  hll_bytecode_get_loc(k - 1)' = hll_bytecode_get_loc(k - 1)
    <3>1. k - 1 \in Nat /\ k - 1 < Total
      BY <1>1
    <3>2. loc_rle'[RunOf(loc_rle', k - 1)] = loc_rle[RunOf(loc_rle, k - 1)]
      BY <1>1, <2>1, <2>2, <3>1, RunAppend DEF Total
    <3> QED BY <3>2 DEF hll_bytecode_get_loc
  <2>6. ASSUME NEW k \in (Total + 1) .. Total'
        PROVE  hll_bytecode_get_loc(k - 1)' = loc
    <3>1. k - 1 \in Nat /\ Total <= k - 1 /\ k - 1 < Total + run.length
      BY <1>1, <2>1, <2>4
    <3>2. loc_rle'[RunOf(loc_rle', k - 1)] = run
      BY <1>1, <2>1, <2>2, <3>1, RunAppend DEF Total
    <3> QED BY <2>1, <3>2 DEF hll_bytecode_get_loc
  <2> QED BY <2>3, <2>4, <2>5, <2>6
<1>3. CASE Pending = 0
  <2>1. loc_rle' = loc_rle
    BY <1>3 DEF AddsRun
  <2>2. Total' = Total /\ \A k : hll_bytecode_get_loc(k)' = hll_bytecode_get_loc(k)
    BY <2>1 DEF Total, hll_bytecode_get_loc
  <2> QED BY <1>1, <1>3, <2>1, <2>2
<1> QED BY <1>1, <1>2, <1>3

\* Entering or leaving a form.
Turn(stack, loc) ==
    /\ compilers' = Append(Front(compilers),
                           [Compiler EXCEPT !.loc_stack = stack, !.loc_op_idx = Len(Ops)])
    /\ AddsRun(loc)
    /\ UNCHANGED ops

LEMMA TurnCompilers ==
    ASSUME RunsInv, compilers # <<>>, NEW stack \in Seq(EntrySet), NEW loc, Turn(stack, loc)
    PROVE  /\ compilers' \in Seq(CompilerSet)
           /\ Len(compilers') = Len(compilers)
           /\ \A i \in 1 .. Len(compilers) : compilers'[i].fn = compilers[i].fn
           /\ \A i \in 1 .. Len(compilers) : i # Len(compilers) => compilers'[i] = compilers[i]
           /\ compilers'[Len(compilers)].loc_stack = stack
           /\ compilers'[Len(compilers)].loc_op_idx = Len(Ops)
           /\ Compiled' = Compiled
<1> DEFINE c == [Compiler EXCEPT !.loc_stack = stack, !.loc_op_idx = Len(Ops)]
<1>1. /\ Compiler \in CompilerSet /\ Compiler = compilers[Len(compilers)] /\ Len(Ops) \in Nat
      /\ Len(compilers) \in Nat
  BY CompilerAtWork DEF RunsInv, Types
<1>2. c \in CompilerSet /\ c.fn = Compiler.fn /\ c.loc_stack = stack /\ c.loc_op_idx = Len(Ops)
  BY <1>1 DEF CompilerSet
<1>3. compilers' = Append(Front(compilers), c) /\ compilers \in Seq(CompilerSet)
  BY DEF Turn, RunsInv, Types
<1> HIDE DEF c
<1>4. /\ compilers' \in Seq(CompilerSet) /\ Len(compilers') = Len(compilers)
      /\ \A i \in 1 .. Len(compilers) : compilers'[i] = IF i = Len(compilers) THEN c ELSE compilers[i]
  BY <1>2, <1>3, ReplaceLast
<1>5. \A i \in 1 .. Len(compilers) : compilers'[i].fn = compilers[i].fn
  BY <1>1, <1>2, <1>4
<1>6. DOMAIN compilers = 1 .. Len(compilers) /\ DOMAIN compilers' = 1 .. Len(compilers)
  BY <1>3, <1>4
<1>7. {compilers'[i].fn : i \in DOMAIN compilers'} = {compilers[i].fn : i \in DOMAIN compilers}
  BY <1>5, <1>6
<1>8. Compiled' = Compiled
  BY <1>7 DEF Compiled, Functions, Turn
<1>9. Len(compilers) \in 1 .. Len(compilers)
  BY <1>6, CompilerAtWork
<1> QED BY <1>2, <1>4, <1>5, <1>8, <1>9

LEMMA TurnKeepsRuns ==
    ASSUME RunsInv, compilers # <<>>, NEW stack \in Seq(EntrySet), stack # <<>>,
           \A j \in DOMAIN stack : stack[j].kind = "ast" <=> j = 1,
           NEW loc \in Nat, Turn(stack, loc),
           parent' \in Seq(Nat), recorded' \in SUBSET Nat
    PROVE  RunsInv'
<1>1. /\ compilers' \in Seq(CompilerSet)
      /\ Len(compilers') = Len(compilers)
      /\ \A i \in 1 .. Len(compilers) : compilers'[i].fn = compilers[i].fn
      /\ \A i \in 1 .. Len(compilers) : i # Len(compilers) => compilers'[i] = compilers[i]
      /\ compilers'[Len(compilers)].loc_stack = stack
      /\ compilers'[Len(compilers)].loc_op_idx = Len(Ops)
      /\ Compiled' = Compiled
  BY TurnCompilers
<1>2. /\ compilers \in Seq(CompilerSet) /\ Len(compilers) \in Nat \ {0}
      /\ DOMAIN compilers = 1 .. Len(compilers) /\ DOMAIN compilers' = 1 .. Len(compilers)
  BY <1>1 DEF RunsInv, Types
<1>3. loc_rle' \in Seq(RunSet) /\ Total' = Total + Pending /\ Total \in Nat /\ Pending \in Nat
  BY AddsRunTotal, TotalNatural, CompilerAtWork DEF Turn, RunsInv
<1>4. ops' = ops /\ \A f : Fallible(f)' = Fallible(f)
  BY DEF Turn, Fallible
<1>5. Types'
  BY <1>1, <1>3, <1>4 DEF RunsInv, Types
<1>6. Nested'
  <2>1. /\ \A i \in 1 .. Len(compilers) : compilers[i].fn \in DOMAIN ops
        /\ \A i, j \in 1 .. Len(compilers) : compilers[i].fn = compilers[j].fn => i = j
        /\ compilers[1].fn = 1
    BY <1>2 DEF RunsInv, Nested
  <2>2. 1 \in 1 .. Len(compilers)
    BY <1>2
  <2> QED BY <1>1, <1>2, <1>4, <2>1, <2>2 DEF Nested
<1>7. ASSUME NEW i \in 1 .. Len(compilers)
      PROVE  (StackShape(compilers[i]) /\ Accounted(compilers[i]))'
  <2>1. /\ compilers[i] \in CompilerSet /\ compilers[i].loc_op_idx \in Nat
        /\ StackShape(compilers[i]) /\ Accounted(compilers[i])
    BY CompilersTyped
  <2>2. CASE i # Len(compilers)
    <3>1. compilers'[i] = compilers[i]
      BY <1>1, <2>2
    <3>2. compilers[i].loc_op_idx <= Total'
      BY <1>3, <2>1 DEF Accounted
    <3> QED BY <1>4, <2>1, <3>1, <3>2 DEF Accounted, StackShape
  <2>3. CASE i = Len(compilers)
    <3>1. StackShape(compilers[i])'
      BY <1>1, <2>3 DEF StackShape
    <3>2. /\ Compiler = compilers[i] /\ Accounted(Compiler) /\ Compiler.loc_op_idx \in Nat
          /\ Ops \in Seq(Nat) /\ Ops = ops[compilers'[i].fn]
      BY <1>1, <1>2, <2>1, <2>3, CompilerAtWork DEF Ops
    <3>3. Len(Ops) = Compiler.loc_op_idx + Pending
      BY <3>2 DEF Pending
    <3>4. Len(Ops) <= Total'
      BY <1>3, <3>2, <3>3 DEF Accounted
    <3>5. \A k \in Fallible(compilers'[i].fn) : k <= Len(Ops)
      BY <3>2 DEF Fallible
    <3>6. Accounted(compilers[i])'
      BY <1>1, <1>4, <2>3, <3>2, <3>4, <3>5 DEF Accounted
    <3> QED BY <3>1, <3>6
  <2> QED BY <2>2, <2>3
<1>8. \A f \in Compiled' : \A k \in Fallible(f)' : k <= Total'
  <2> SUFFICES ASSUME NEW f \in Compiled, NEW k \in Fallible(f) PROVE k <= Total'
    BY <1>1, <1>4
  <2>1. k <= Total /\ k \in Nat
    BY FallibleNatural DEF RunsInv, Compiled
  <2> QED BY <1>3, <2>1
<1> QED BY <1>2, <1>5, <1>6, <1>7, <1>8 DEF RunsInv, StackShape

LEMMA NewFormTyped ==
    ASSUME Types, NEW form \in NewForms, NEW outer \in Nat, NEW isRecorded \in BOOLEAN,
           NewForm(form, outer, isRecorded)
    PROVE  /\ form = Len(parent) + 1 /\ form \in Nat /\ Location(form, isRecorded) \in Nat
           /\ parent' \in Seq(Nat) /\ Len(parent') = Len(parent) + 1 /\ parent'[form] = outer
           /\ \A f \in 1 .. Len(parent) : parent'[f] = parent[f]
           /\ recorded' = recorded \cup {f \in {form} : isRecorded}
           /\ recorded' \in SUBSET Nat
<1>1. parent \in Seq(Nat) /\ recorded \in SUBSET Nat
  BY DEF Types
<1>2. form = Len(parent) + 1 /\ form \in Nat
  BY <1>1 DEF NewForms
<1>3. parent' = Append(parent, outer)
  BY DEF NewForm
<1>4. recorded' = recorded \cup {f \in {form} : isRecorded}
  BY DEF NewForm
<1>5. Location(form, isRecorded) \in Nat
  BY <1>2 DEF Location, FirstEntry
<1>6. /\ parent' \in Seq(Nat) /\ Len(parent') = Len(parent) + 1 /\ parent'[form] = outer
      /\ \A f \in 1 .. Len(parent) : parent'[f] = parent[f]
  BY <1>1, <1>2, <1>3
<1>7. recorded' \in SUBSET Nat
  BY <1>1, <1>2, <1>4
<1> QED BY <1>2, <1>4, <1>5, <1>6, <1>7

\* The stack with what is pushed on it.
LEMMA PushedStack ==
    ASSUME RunsInv, compilers # <<>>, NEW entries \in Seq(EntrySet), entries # <<>>,
           \A j \in DOMAIN entries : entries[j].kind # "ast"
    PROVE  LET stack == Compiler.loc_stack \o entries
           IN  /\ stack \in Seq(EntrySet) /\ stack # <<>>
               /\ Len(stack) = Len(Compiler.loc_stack) + Len(entries)
               /\ \A j \in DOMAIN stack :
                     stack[j] = IF j <= Len(Compiler.loc_stack) THEN Compiler.loc_stack[j]
                                ELSE entries[j - Len(Compiler.loc_stack)]
               /\ \A j \in DOMAIN stack : stack[j].kind = "ast" <=> j = 1
<1> DEFINE old == Compiler.loc_stack
           stack == old \o entries
<1>1. /\ old \in Seq(EntrySet) /\ old # <<>> /\ Len(old) \in Nat \ {0}
      /\ \A j \in 1 .. Len(old) : old[j].kind = "ast" <=> j = 1
  BY CompilerAtWork DEF CompilerSet, StackShape
<1>2. Len(entries) \in Nat \ {0} /\ DOMAIN entries = 1 .. Len(entries)
  OBVIOUS
<1> HIDE DEF old
<1>3. /\ stack \in Seq(EntrySet) /\ Len(stack) = Len(old) + Len(entries)
      /\ \A j \in 1 .. Len(old) + Len(entries) :
            stack[j] = IF j <= Len(old) THEN old[j] ELSE entries[j - Len(old)]
  BY <1>1, ConcatProperties
<1>4. DOMAIN stack = 1 .. Len(stack)
  BY <1>3
<1> HIDE DEF stack
<1>5. stack # <<>>
  BY <1>1, <1>2, <1>3
<1>6. ASSUME NEW j \in 1 .. Len(stack) PROVE stack[j].kind = "ast" <=> j = 1
  <2>1. CASE j <= Len(old)
    BY <1>1, <1>3, <2>1
  <2>2. CASE ~(j <= Len(old))
    <3>1. j - Len(old) \in DOMAIN entries /\ stack[j] = entries[j - Len(old)] /\ j # 1
      BY <1>1, <1>2, <1>3, <2>2
    <3> QED BY <3>1
  <2> QED BY <2>1, <2>2
<1> QED BY <1>3, <1>4, <1>5, <1>6 DEF old, stack

LEMMA PushIsTurn ==
    ASSUME RunsInv, compilers # <<>>, NEW entries \in Seq(EntrySet), entries # <<>>,
           push_location(entries), UNCHANGED ops
    PROVE  /\ Turn(Compiler.loc_stack \o entries, Head(entries).loc)
           /\ Head(entries).loc \in Nat
<1>1. Head(entries) \in EntrySet
  OBVIOUS
<1> QED BY <1>1 DEF push_location, Turn, AddsRun, EntrySet

LEMMA PushKeepsRuns ==
    ASSUME RunsInv, compilers # <<>>, NEW entries \in Seq(EntrySet), entries # <<>>,
           \A j \in DOMAIN entries : entries[j].kind # "ast",
           push_location(entries), UNCHANGED ops, parent' \in Seq(Nat), recorded' \in SUBSET Nat
    PROVE  RunsInv'
<1> DEFINE stack == Compiler.loc_stack \o entries
<1>1. stack \in Seq(EntrySet) /\ stack # <<>> /\ \A j \in DOMAIN stack : stack[j].kind = "ast" <=> j = 1
  BY PushedStack
<1>2. Turn(stack, Head(entries).loc) /\ Head(entries).loc \in Nat
  BY PushIsTurn
<1> HIDE DEF stack
<1> QED BY <1>1, <1>2, TurnKeepsRuns

\* The entries that the three ways to enter a form push.
NewEntries(form, loc) == { <<Entry(form, loc, "expr"), Entry(form, loc, "form")>>,
                           <<Entry(form, loc, "expr")>>,
                           <<Entry(form, loc, "form")>> }

LEMMA EntriesTyped ==
    ASSUME NEW form \in Nat, NEW loc \in Nat, NEW entries \in NewEntries(form, loc)
    PROVE  /\ entries \in Seq(EntrySet) /\ Len(entries) \in {1, 2} /\ entries # <<>>
           /\ \A j \in DOMAIN entries : /\ entries[j].form = form
                                        /\ entries[j].loc = loc
                                        /\ entries[j].kind # "ast"
           /\ Head(entries).loc = loc
<1>1. ASSUME NEW kind \in {"expr", "form"}
      PROVE  /\ Entry(form, loc, kind) \in EntrySet
             /\ Entry(form, loc, kind).form = form
             /\ Entry(form, loc, kind).loc = loc
             /\ Entry(form, loc, kind).kind # "ast"
  BY DEF Entry, EntrySet, Kinds
<1> DEFINE e == Entry(form, loc, "expr")
           f == Entry(form, loc, "form")
<1>2. \A x \in {e, f} : x \in EntrySet /\ x.form = form /\ x.loc = loc /\ x.kind # "ast"
  BY <1>1
<1>3. entries = <<e, f>> \/ entries = <<e>> \/ entries = <<f>>
  BY DEF NewEntries
<1> HIDE DEF e, f
<1>4. CASE entries = <<e, f>>
  BY <1>2, <1>4
<1>5. CASE entries = <<e>>
  BY <1>2, <1>5
<1>6. CASE entries = <<f>>
  BY <1>2, <1>6
<1> QED BY <1>3, <1>4, <1>5, <1>6

\* The ways to enter a form.
Open(form, isRecorded, entries) ==
    /\ NewForm(form, Top.form, isRecorded)
    /\ push_location(entries)
    /\ UNCHANGED ops

LEMMA OpenCases ==
    ASSUME OpenExpression \/ OpenSymbol \/ OpenForm
    PROVE  /\ compilers # <<>>
           /\ \E form \in NewForms, isRecorded \in BOOLEAN :
                 \E entries \in NewEntries(form, Location(form, isRecorded)) : Open(form, isRecorded, entries)
<1>1. CASE OpenExpression
  BY <1>1 DEF OpenExpression, Open, NewEntries
<1>2. CASE OpenSymbol
  BY <1>2 DEF OpenSymbol, Open, NewEntries
<1>3. CASE OpenForm
  BY <1>3 DEF OpenForm, Open, NewEntries
<1> QED BY <1>1, <1>2, <1>3

LEMMA OpenKeepsRuns ==
    ASSUME RunsInv, OpenExpression \/ OpenSymbol \/ OpenForm
    PROVE  RunsInv'
<1>1. compilers # <<>>
  BY OpenCases
<1>2. Types /\ Top.form \in Nat
  BY <1>1, CompilerAtWork DEF RunsInv, EntrySet
<1>3. PICK form \in NewForms, isRecorded \in BOOLEAN :
         \E entries \in NewEntries(form, Location(form, isRecorded)) : Open(form, isRecorded, entries)
  BY OpenCases
<1>4. PICK entries \in NewEntries(form, Location(form, isRecorded)) : Open(form, isRecorded, entries)
  BY <1>3
<1>5. form \in Nat /\ Location(form, isRecorded) \in Nat /\ parent' \in Seq(Nat) /\ recorded' \in SUBSET Nat
  BY <1>2, <1>4, NewFormTyped DEF Open
<1>6. entries \in Seq(EntrySet) /\ entries # <<>> /\ \A j \in DOMAIN entries : entries[j].kind # "ast"
  BY <1>5, EntriesTyped
<1> QED BY <1>1, <1>4, <1>5, <1>6, PushKeepsRuns DEF Open

\* What is left of the stack when a form is closed.
LEMMA PoppedStack ==
    ASSUME RunsInv, compilers # <<>>, Top.kind # "ast"
    PROVE  LET left == Front(Compiler.loc_stack)
           IN  /\ left \in Seq(EntrySet) /\ left # <<>> /\ Last(left).loc \in Nat
               /\ Len(left) = Len(Compiler.loc_stack) - 1
               /\ \A j \in 1 .. Len(left) : left[j] = Compiler.loc_stack[j]
               /\ \A j \in DOMAIN left : left[j].kind = "ast" <=> j = 1
               /\ Last(left) = Compiler.loc_stack[Len(Compiler.loc_stack) - 1]
<1> DEFINE stack == Compiler.loc_stack
           left == Front(stack)
<1>1. /\ stack \in Seq(EntrySet) /\ stack # <<>> /\ DOMAIN stack = 1 .. Len(stack)
      /\ \A j \in 1 .. Len(stack) : stack[j].kind = "ast" <=> j = 1
  BY CompilerAtWork DEF CompilerSet, StackShape
<1>2. Top = stack[Len(stack)]
  BY <1>1, FrontOf DEF Top
<1> HIDE DEF stack
<1>3. Len(stack) \in Nat /\ Len(stack) > 1
  BY <1>1, <1>2
<1>4. /\ left \in Seq(EntrySet) /\ Len(left) = Len(stack) - 1
      /\ \A j \in 1 .. Len(stack) - 1 : left[j] = stack[j]
  BY <1>1, FrontOf
<1> HIDE DEF left
<1>5. left # <<>> /\ DOMAIN left = 1 .. Len(left)
  BY <1>3, <1>4
<1>6. Last(left) = left[Len(left)] /\ Last(left) \in EntrySet
  BY <1>4, <1>5, FrontOf
<1>7. Last(left) = stack[Len(stack) - 1] /\ Last(left).loc \in Nat
  <2>1. Len(left) \in 1 .. Len(stack) - 1
    BY <1>3, <1>4
  <2>2. left[Len(left)] = stack[Len(left)]
    BY <1>4, <2>1
  <2>3. Last(left).loc \in Nat
    BY <1>6 DEF EntrySet
  <2> QED BY <1>4, <1>6, <2>2, <2>3
<1>8. \A j \in DOMAIN left : left[j].kind = "ast" <=> j = 1
  BY <1>1, <1>3, <1>4, <1>5
<1> QED BY <1>4, <1>5, <1>7, <1>8 DEF left, stack

LEMMA CloseIsTurn ==
    ASSUME RunsInv, Close
    PROVE  Turn(Front(Compiler.loc_stack), Last(Front(Compiler.loc_stack)).loc)
<1>1. Front(Compiler.loc_stack) # <<>>
  BY PoppedStack DEF Close
<1> QED BY <1>1 DEF Close, pop_location, Turn, AddsRun

LEMMA CloseKeepsRuns ==
    ASSUME RunsInv, Close PROVE RunsInv'
<1> DEFINE left == Front(Compiler.loc_stack)
<1>1. compilers # <<>> /\ parent' \in Seq(Nat) /\ recorded' \in SUBSET Nat
  BY DEF Close, RunsInv, Types
<1>2. /\ left \in Seq(EntrySet) /\ left # <<>> /\ Last(left).loc \in Nat
      /\ \A j \in DOMAIN left : left[j].kind = "ast" <=> j = 1
  BY PoppedStack DEF Close
<1>3. Turn(left, Last(left).loc)
  BY CloseIsTurn
<1> HIDE DEF left
<1> QED BY <1>1, <1>2, <1>3, TurnKeepsRuns

-----------------------------------------------------------------------------
\* An instruction more, for the function at work.
LEMMA EmittedOps ==
    ASSUME RunsInv, compilers # <<>>, NEW form \in Nat, ops' = Emitted(form)
    PROVE  /\ ops' \in Seq(Seq(Nat)) /\ DOMAIN ops' = DOMAIN ops /\ Len(ops') = Len(ops)
           /\ \A f \in DOMAIN ops : f # Compiler.fn => ops'[f] = ops[f]
           /\ ops'[Compiler.fn] = Append(ops[Compiler.fn], form)
           /\ Len(ops'[Compiler.fn]) = Len(ops[Compiler.fn]) + 1
           /\ \A k \in 1 .. Len(ops[Compiler.fn]) : ops'[Compiler.fn][k] = ops[Compiler.fn][k]
           /\ ops'[Compiler.fn][Len(ops[Compiler.fn]) + 1] = form
           /\ \A f \in DOMAIN ops : f # Compiler.fn \/ form = NoForm => Fallible(f)' = Fallible(f)
<1> DEFINE fn == Compiler.fn
<1>1. ops \in Seq(Seq(Nat)) /\ fn \in DOMAIN ops /\ ops[fn] \in Seq(Nat)
  BY CompilerAtWork DEF RunsInv, Types, Ops
<1>2. ops' = [ops EXCEPT ![fn] = Append(@, form)]
  BY DEF Emitted
<1> HIDE DEF fn
<1>3. Append(ops[fn], form) \in Seq(Nat)
  BY <1>1
<1>4. ops' \in Seq(Seq(Nat)) /\ DOMAIN ops' = DOMAIN ops /\ Len(ops') = Len(ops)
  BY <1>1, <1>2, <1>3, ExceptSeq
<1>5. (\A f \in DOMAIN ops : f # fn => ops'[f] = ops[f]) /\ ops'[fn] = Append(ops[fn], form)
  BY <1>1, <1>2
<1>6. /\ Len(ops'[fn]) = Len(ops[fn]) + 1
      /\ \A k \in 1 .. Len(ops[fn]) : ops'[fn][k] = ops[fn][k]
      /\ ops'[fn][Len(ops[fn]) + 1] = form
      /\ DOMAIN ops[fn] = 1 .. Len(ops[fn]) /\ Len(ops[fn]) \in Nat
      /\ DOMAIN ops'[fn] = 1 .. (Len(ops[fn]) + 1)
  BY <1>1, <1>5
<1>7. \A f \in DOMAIN ops : f # fn => Fallible(f)' = Fallible(f)
  BY <1>5 DEF Fallible
<1>8. ASSUME form = NoForm, NEW f \in DOMAIN ops, f = fn PROVE Fallible(f)' = Fallible(f)
  <2>1. \A k \in 1 .. (Len(ops[f]) + 1) : k \in 1 .. Len(ops[f]) \/ k = Len(ops[f]) + 1
    BY <1>6, <1>8
  <2>2. ASSUME NEW k \in Fallible(f) PROVE k \in Fallible(f)'
    BY <1>6, <1>8 DEF Fallible
  <2>3. ASSUME NEW k \in Fallible(f)' PROVE k \in Fallible(f)
    BY <1>6, <1>8, <2>1 DEF Fallible
  <2> QED BY <2>2, <2>3
<1> QED BY <1>4, <1>5, <1>6, <1>7, <1>8 DEF fn

LEMMA EmitKeepsRuns ==
    ASSUME RunsInv, Emit PROVE RunsInv'
<1> DEFINE form == IF Top.kind = "ast" THEN NoForm ELSE Top.form
<1>1. compilers # <<>> /\ ops' = Emitted(form) /\ UNCHANGED <<compilers, parent, recorded, loc_rle>>
  BY DEF Emit
<1>2. form \in Nat /\ Top = Last(Compiler.loc_stack) /\ Compiler = compilers[Len(compilers)]
  BY <1>1, CompilerAtWork DEF Top, NoForm, EntrySet
<1> HIDE DEF form
<1>3. /\ ops' \in Seq(Seq(Nat)) /\ DOMAIN ops' = DOMAIN ops
      /\ \A f \in DOMAIN ops : f # Compiler.fn => ops'[f] = ops[f]
      /\ Len(ops'[Compiler.fn]) = Len(ops[Compiler.fn]) + 1
      /\ \A f \in DOMAIN ops : f # Compiler.fn \/ form = NoForm => Fallible(f)' = Fallible(f)
  BY <1>1, <1>2, EmittedOps
<1>4. Types' /\ Nested'
  BY <1>1, <1>3 DEF RunsInv, Types, Nested
<1>5. Total' = Total /\ Total \in Nat
  BY <1>1, TotalNatural DEF Total, RunsInv
<1>6. ASSUME NEW i \in DOMAIN compilers
      PROVE  (StackShape(compilers[i]) /\ Accounted(compilers[i]))'
  <2>1. /\ StackShape(compilers[i]) /\ Accounted(compilers[i]) /\ compilers[i].fn \in DOMAIN ops
        /\ compilers[i].loc_op_idx \in Nat /\ ops[compilers[i].fn] \in Seq(Nat)
    BY CompilersTyped, FallibleNatural DEF RunsInv, Functions
  <2>2. compilers[i].fn # Compiler.fn \/ Compiler = compilers[i]
    BY <1>1, <1>2, CompilerAtWork DEF RunsInv, Nested
  <2>3. Last(compilers[i].loc_stack).kind = "ast" => Fallible(compilers[i].fn)' = Fallible(compilers[i].fn)
    <3>1. \A f \in DOMAIN ops : f # Compiler.fn \/ form = NoForm => Fallible(f)' = Fallible(f)
      BY <1>3
    <3>2. Last(compilers[i].loc_stack).kind = "ast" => compilers[i].fn # Compiler.fn \/ form = NoForm
      BY <1>2, <2>2 DEF form
    <3> QED BY <1>1, <2>1, <3>1, <3>2 DEF Fallible
  <2>4. Len(ops'[compilers[i].fn]) >= Len(ops[compilers[i].fn])
    BY <1>3, <2>1, <2>2
  <2>5. compilers[i].loc_op_idx <= Len(ops'[compilers[i].fn])
    BY <1>3, <2>1, <2>4 DEF Accounted
  <2> QED BY <1>1, <1>5, <2>1, <2>3, <2>5 DEF StackShape, Accounted
<1>7. ASSUME NEW f \in Compiled' PROVE \A k \in Fallible(f)' : k <= Total'
  <2>1. f \in Compiled /\ f \in DOMAIN ops
    BY <1>1, <1>3 DEF Compiled, Functions
  <2>2. f # Compiler.fn
    BY <1>1, <2>1, CompilerAtWork DEF Compiled
  <2>3. Fallible(f)' = Fallible(f)
    BY <1>3, <2>1, <2>2
  <2> QED BY <1>5, <2>1, <2>3 DEF RunsInv
<1> QED BY <1>1, <1>4, <1>6, <1>7 DEF RunsInv

LEMMA EndAstKeepsRuns ==
    ASSUME RunsInv, EndAst PROVE RunsInv'
<1>1. /\ compilers # <<>> /\ Top.kind = "ast" /\ ops' = Emitted(NoForm)
      /\ compilers' = Front(compilers) /\ UNCHANGED <<parent, recorded, loc_rle>>
  BY DEF EndAst
<1>2. /\ Compiler = compilers[Len(compilers)] /\ Accounted(Compiler) /\ Top = Last(Compiler.loc_stack)
      /\ Compiler.loc_op_idx \in Nat
  BY <1>1, CompilerAtWork DEF Top, CompilerSet
<1>3. /\ ops' \in Seq(Seq(Nat)) /\ DOMAIN ops' = DOMAIN ops
      /\ \A f \in DOMAIN ops : f # Compiler.fn => ops'[f] = ops[f]
      /\ \A f \in DOMAIN ops : Fallible(f)' = Fallible(f)
  BY <1>1, EmittedOps DEF NoForm
<1>4. /\ compilers' \in Seq(CompilerSet) /\ Len(compilers') = Len(compilers) - 1
      /\ \A i \in 1 .. Len(compilers) - 1 : compilers'[i] = compilers[i]
  BY <1>1, FrontOf DEF RunsInv, Types
<1>5. /\ Len(compilers) \in Nat \ {0}
      /\ DOMAIN compilers = 1 .. Len(compilers) /\ DOMAIN compilers' = 1 .. (Len(compilers) - 1)
  <2>1. DOMAIN compilers = 1 .. Len(compilers) /\ Len(compilers) \in Nat \ {0}
    BY <1>1, CompilersTyped, CompilerAtWork
  <2> QED BY <1>4, <2>1
<1>6. Types'
  BY <1>1, <1>3, <1>4 DEF RunsInv, Types
<1>7. Nested'
  <2>1. /\ \A i \in 1 .. Len(compilers) : compilers[i].fn \in DOMAIN ops
        /\ \A i, j \in 1 .. Len(compilers) : compilers[i].fn = compilers[j].fn => i = j
        /\ compilers[1].fn = 1
    BY <1>1, <1>5 DEF RunsInv, Nested
  <2>2. ASSUME NEW i \in DOMAIN compilers'
        PROVE  i \in 1 .. Len(compilers) /\ compilers'[i] = compilers[i]
    BY <1>4, <1>5
  <2>3. compilers' # <<>> => 1 \in DOMAIN compilers'
    BY <1>4, <1>5
  <2> QED BY <1>3, <2>1, <2>2, <2>3 DEF Nested
<1>8. Total' = Total /\ Total \in Nat
  BY <1>1, TotalNatural DEF Total, RunsInv
<1>9. ASSUME NEW i \in DOMAIN compilers'
      PROVE  (StackShape(compilers[i]) /\ Accounted(compilers[i]))'
  <2>1. i \in 1 .. Len(compilers) /\ i # Len(compilers) /\ compilers'[i] = compilers[i]
    BY <1>4, <1>5
  <2>2. StackShape(compilers[i]) /\ Accounted(compilers[i]) /\ compilers[i].fn \in DOMAIN ops
    BY <2>1, CompilersTyped
  <2>3. compilers[i].fn # Compiler.fn
    BY <1>1, <1>2, <1>5, <2>1, CompilerAtWork DEF RunsInv, Nested
  <2>4. ops'[compilers[i].fn] = ops[compilers[i].fn]
    BY <1>3, <2>2, <2>3
  <2> QED BY <1>8, <2>1, <2>2, <2>4 DEF StackShape, Accounted, Fallible
<1>10. ASSUME NEW f \in Compiled' PROVE \A k \in Fallible(f)' : k <= Total'
  <2>1. f \in DOMAIN ops /\ Fallible(f)' = Fallible(f)
    BY <1>3 DEF Compiled, Functions
  <2>2. CASE f = Compiler.fn
    <3>1. \A k \in Fallible(f) : k <= Compiler.loc_op_idx
      BY <1>1, <1>2, <2>2 DEF Accounted
    <3>2. Fallible(f) \subseteq Nat /\ Compiler.loc_op_idx <= Total
      BY <1>2, <2>1, FallibleNatural DEF RunsInv, Functions, Accounted
    <3> QED BY <1>2, <1>8, <2>1, <3>1, <3>2
  <2>3. CASE f # Compiler.fn
    <3>1. ASSUME NEW i \in DOMAIN compilers PROVE compilers[i].fn # f
      <4>1. CASE i = Len(compilers)
        BY <1>2, <2>3, <4>1
      <4>2. CASE i # Len(compilers)
        <5>1. i \in DOMAIN compilers' /\ compilers'[i] = compilers[i]
          BY <1>4, <1>5, <4>2
        <5> QED BY <5>1 DEF Compiled
      <4> QED BY <4>1, <4>2
    <3>2. f \in Compiled
      BY <2>1, <3>1 DEF Compiled, Functions
    <3> QED BY <1>8, <2>1, <3>2 DEF RunsInv
  <2> QED BY <2>2, <2>3
<1> QED BY <1>6, <1>7, <1>9, <1>10 DEF RunsInv

LEMMA BeginFunctionKeepsRuns ==
    ASSUME RunsInv, BeginFunction PROVE RunsInv'
<1>1. compilers # <<>> /\ ops' = Append(ops, <<>>) /\ loc_rle' = loc_rle
  BY DEF BeginFunction
<1>2. PICK form \in NewForms, isRecorded \in BOOLEAN :
         /\ NewForm(form, Top.form, isRecorded)
         /\ compilers' = Append(compilers, NewCompiler(Len(ops) + 1,
                                               Entry(form, Location(form, isRecorded), "ast")))
  BY DEF BeginFunction
<1> DEFINE new == NewCompiler(Len(ops) + 1, Entry(form, Location(form, isRecorded), "ast"))
<1>3. Types /\ ops \in Seq(Seq(Nat)) /\ Top.form \in Nat
  BY <1>1, CompilerAtWork DEF RunsInv, Types, EntrySet
<1>4. /\ form \in Nat /\ Location(form, isRecorded) \in Nat
      /\ parent' \in Seq(Nat) /\ recorded' \in SUBSET Nat
  BY <1>2, <1>3, NewFormTyped
<1>5. Entry(form, Location(form, isRecorded), "ast") \in EntrySet
  BY <1>4 DEF Entry, EntrySet, Kinds
<1>6. new \in CompilerSet /\ new.fn = Len(ops) + 1 /\ StackShape(new)
      /\ new.loc_op_idx = 0
  BY <1>3, <1>5 DEF NewCompiler, CompilerSet, StackShape, Entry
<1>7. compilers' = Append(compilers, new)
  BY <1>2
<1> HIDE DEF new
<1>8. /\ ops' \in Seq(Seq(Nat)) /\ Len(ops') = Len(ops) + 1 /\ DOMAIN ops' = 1 .. (Len(ops) + 1)
      /\ DOMAIN ops = 1 .. Len(ops) /\ Len(ops) \in Nat
      /\ \A f \in DOMAIN ops : ops'[f] = ops[f]
      /\ ops'[Len(ops) + 1] = <<>>
  BY <1>1, <1>3
<1>9. /\ compilers \in Seq(CompilerSet) /\ Len(compilers) \in Nat \ {0}
      /\ DOMAIN compilers = 1 .. Len(compilers)
  BY <1>1, CompilersTyped, CompilerAtWork
<1>10. /\ compilers' \in Seq(CompilerSet) /\ Len(compilers') = Len(compilers) + 1
       /\ DOMAIN compilers' = 1 .. (Len(compilers) + 1)
       /\ \A i \in 1 .. Len(compilers) : compilers'[i] = compilers[i]
       /\ compilers'[Len(compilers) + 1] = new
  BY <1>6, <1>7, <1>9
<1>11. Types'
  BY <1>1, <1>4, <1>8, <1>10 DEF RunsInv, Types
<1>12. \A i \in 1 .. Len(compilers) + 1 : i \in 1 .. Len(compilers) \/ i = Len(compilers) + 1
  BY <1>9
<1>13. \A i \in 1 .. Len(compilers) : compilers[i].fn \in DOMAIN ops /\ compilers[i].fn # Len(ops) + 1
  BY <1>8, CompilersTyped
<1>14. Nested'
  <2>1. \A i \in DOMAIN compilers' : compilers'[i].fn \in DOMAIN ops'
    <3> TAKE i \in DOMAIN compilers'
    <3>1. CASE i \in 1 .. Len(compilers)
      <4>1. compilers'[i] = compilers[i] /\ compilers[i].fn \in DOMAIN ops
        BY <1>10, <1>13, <3>1
      <4>2. DOMAIN ops \subseteq DOMAIN ops'
        BY <1>8
      <4> QED BY <4>1, <4>2
    <3>2. CASE i = Len(compilers) + 1
      BY <1>6, <1>8, <1>10, <3>2
    <3> QED BY <1>10, <1>12, <3>1, <3>2
  <2>2. ASSUME NEW i \in DOMAIN compilers', NEW j \in DOMAIN compilers', compilers'[i].fn = compilers'[j].fn
        PROVE  i = j
    <3>1. \A a, b \in 1 .. Len(compilers) : compilers[a].fn = compilers[b].fn => a = b
      BY <1>9 DEF RunsInv, Nested
    <3> QED BY <1>6, <1>10, <1>12, <1>13, <2>2, <3>1
  <2>3. compilers'[1].fn = 1
    BY <1>1, <1>9, <1>10 DEF RunsInv, Nested
  <2> QED BY <2>1, <2>2, <2>3 DEF Nested
<1>15. Total' = Total /\ Total \in Nat
  BY <1>1, <1>3, TotalNatural DEF Total
<1>16. ASSUME NEW i \in DOMAIN compilers'
       PROVE  (StackShape(compilers[i]) /\ Accounted(compilers[i]))'
  <2>1. CASE i \in 1 .. Len(compilers)
    <3>1. StackShape(compilers[i]) /\ Accounted(compilers[i]) /\ compilers[i].fn \in DOMAIN ops
      BY <2>1, CompilersTyped
    <3>2. compilers'[i] = compilers[i] /\ ops'[compilers[i].fn] = ops[compilers[i].fn]
      BY <1>8, <1>10, <2>1, <3>1
    <3> QED BY <1>15, <3>1, <3>2 DEF StackShape, Accounted, Fallible
  <2>2. CASE i = Len(compilers) + 1
    <3>1. compilers'[i] = new
      BY <1>10, <2>2
    <3>2. ops'[new.fn] = <<>>
      BY <1>6, <1>8
    <3>3. Accounted(compilers[i])'
      BY <1>6, <1>15, <3>1, <3>2 DEF Accounted, Fallible
    <3> QED BY <1>6, <3>1, <3>3 DEF StackShape
  <2> QED BY <1>10, <1>12, <2>1, <2>2
<1>17. ASSUME NEW f \in Compiled' PROVE \A k \in Fallible(f)' : k <= Total'
  <2>1. f \in DOMAIN ops' /\ \A i \in DOMAIN compilers' : compilers'[i].fn # f
    BY DEF Compiled, Functions
  <2>2. f # Len(ops) + 1
    BY <1>6, <1>9, <1>10, <2>1
  <2>3. f \in DOMAIN ops
    BY <1>8, <2>1, <2>2
  <2>4. f \in Compiled
    BY <1>9, <1>10, <2>1, <2>3 DEF Compiled, Functions
  <2>5. Fallible(f)' = Fallible(f)
    BY <1>8, <2>3 DEF Fallible
  <2> QED BY <1>15, <2>4, <2>5 DEF RunsInv
<1> QED BY <1>11, <1>14, <1>16, <1>17 DEF RunsInv

LEMMA InitRuns ==
    ASSUME Init PROVE RunsInv
<1> DEFINE first == Entry(1, 1, "ast")
<1>1. first \in EntrySet /\ first.kind = "ast"
  BY DEF Entry, EntrySet, Kinds
<1>2. compilers = <<NewCompiler(1, first)>>
  BY DEF Init
<1> HIDE DEF first
<1>3. NewCompiler(1, first) \in CompilerSet
  BY <1>1 DEF NewCompiler, CompilerSet
<1>4. compilers = <<[fn |-> 1, loc_stack |-> <<first>>, loc_op_idx |-> 0]>>
  BY <1>2 DEF NewCompiler
<1>5. Types
  BY <1>2, <1>3 DEF Init, Types, RunSet
<1>6. Total \in Nat
  BY <1>5, TotalNatural
<1>7. ops = <<<<>>>> /\ \A f \in Functions : Fallible(f) = {}
  BY DEF Init, Functions, Fallible
<1>8. Nested
  BY <1>4, <1>7 DEF Nested
<1>9. ASSUME NEW i \in DOMAIN compilers PROVE StackShape(compilers[i]) /\ Accounted(compilers[i])
  <2>1. compilers[i] = [fn |-> 1, loc_stack |-> <<first>>, loc_op_idx |-> 0]
    BY <1>4
  <2> QED BY <1>1, <1>6, <1>7, <2>1 DEF StackShape, Accounted, Fallible
<1> QED BY <1>5, <1>7, <1>8, <1>9 DEF RunsInv, Compiled

LEMMA StepKeepsRuns ==
    ASSUME RunsInv, [Next]_vars PROVE RunsInv'
<1>1. CASE OpenExpression \/ OpenSymbol \/ OpenForm
  BY <1>1, OpenKeepsRuns
<1>2. CASE Close
  BY <1>2, CloseKeepsRuns
<1>3. CASE Emit
  BY <1>3, EmitKeepsRuns
<1>4. CASE BeginFunction
  BY <1>4, BeginFunctionKeepsRuns
<1>5. CASE EndAst
  BY <1>5, EndAstKeepsRuns
<1>6. CASE UNCHANGED vars
  BY <1>6 DEF vars, RunsInv, Types, Nested, StackShape, Accounted, Total, Compiled, Functions, Fallible
<1> QED BY <1>1, <1>2, <1>3, <1>4, <1>5, <1>6 DEF Next

\* Spec keeps the account of the runs.
THEOREM RunsInvariance == Spec => []RunsInv
<1>1. Init => RunsInv
  BY InitRuns
<1>2. RunsInv /\ [Next]_vars => RunsInv'
  BY StepKeepsRuns
<1> QED BY <1>1, <1>2, PTL DEF Spec

LEMMA RunsInvFinds ==
    ASSUME RunsInv PROVE LocationFound
<1> SUFFICES ASSUME NEW f \in Compiled, NEW k \in Fallible(f)
             PROVE  RunOf(loc_rle, k - 1) # 0
  BY DEF LocationFound
<1>1. k <= Total /\ Total \in Nat /\ k \in 1 .. Len(ops[f]) /\ loc_rle \in Seq(RunSet)
  BY FallibleNatural, TotalNatural DEF RunsInv, Types, Compiled
<1>2. k - 1 \in Nat /\ k - 1 < Reach(loc_rle)[Len(loc_rle)]
  BY <1>1 DEF Total
<1>3. RunOf(loc_rle, k - 1) \in 1 .. Len(loc_rle)
  BY <1>1, <1>2, RunExists DEF FirstBeyond
<1> QED BY <1>3

(***************************************************************************)
(* Whatever instruction of a compiled function fails, the search for its   *)
(* location ends within the runs of the unit: the assertion of             *)
(* hll_bytecode_get_loc holds in every program.                            *)
(***************************************************************************)
THEOREM LocationFoundAlways == Spec => []LocationFound
BY RunsInvariance, RunsInvFinds, PTL

-----------------------------------------------------------------------------
LocationOf(form) == Location(form, form \in recorded)
NearLocations(form) == {LocationOf(near) : near \in Near(form)}

\* A form comes after the one it is in; only forms are recorded.
FormsNested == /\ \A form \in Forms : parent[form] < form
               /\ recorded \subseteq Forms

\* An entry of the stack has the location of its form, which is in the form of
\* the entry below, or the same.
StackNear(c) ==
    /\ \A j \in 1 .. Len(c.loc_stack) :
          /\ c.loc_stack[j].form \in Forms
          /\ c.loc_stack[j].loc = LocationOf(c.loc_stack[j].form)
    /\ \A j \in 2 .. Len(c.loc_stack) :
          \/ c.loc_stack[j].form = c.loc_stack[j - 1].form
          \/ parent[c.loc_stack[j].form] = c.loc_stack[j - 1].form

\* What a compiler has not accounted for was made for the form it is in.
PendingNear(c) ==
    \A k \in (c.loc_op_idx + 1) .. Len(ops[c.fn]) :
        ops[c.fn][k] = IF Last(c.loc_stack).kind = "ast" THEN NoForm ELSE Last(c.loc_stack).form

\* In a unit without functions the runs are those of its one function: what
\* the compiler has accounted for is all they have, and what they say is near.
NearInv ==
    Len(ops) = 1 =>
        /\ FormsNested
        /\ \A i \in DOMAIN compilers :
              /\ compilers[i].loc_op_idx = Total
              /\ StackNear(compilers[i])
              /\ PendingNear(compilers[i])
        /\ \A k \in Fallible(1) :
              /\ ops[1][k] \in Forms
              /\ k <= Total => hll_bytecode_get_loc(k - 1) \in NearLocations(ops[1][k])

\* The one compiler of such a unit.
LEMMA OneCompiler ==
    ASSUME RunsInv, Len(ops) = 1, compilers # <<>>
    PROVE  /\ Len(compilers) = 1 /\ DOMAIN compilers = {1} /\ DOMAIN ops = {1}
           /\ Compiler = compilers[1] /\ Compiler.fn = 1 /\ Ops = ops[1] /\ ops[1] \in Seq(Nat)
           /\ Compiler.loc_op_idx \in Nat /\ Compiler.loc_op_idx <= Len(ops[1])
<1>1. DOMAIN ops = {1} /\ ops[1] \in Seq(Nat)
  <2>1. ops \in Seq(Seq(Nat))
    BY DEF RunsInv, Types
  <2>2. DOMAIN ops = 1 .. 1
    BY <2>1
  <2> QED BY <2>1, <2>2
<1>2. /\ Len(compilers) \in Nat \ {0} /\ DOMAIN compilers = 1 .. Len(compilers)
      /\ Compiler = compilers[Len(compilers)]
  BY CompilersTyped, CompilerAtWork
<1>3. \A i \in 1 .. Len(compilers) : compilers[i].fn = 1
  BY <1>1, CompilersTyped
<1>4. \A i, j \in 1 .. Len(compilers) : i = j
  BY <1>2, <1>3 DEF RunsInv, Nested
<1>5. 1 \in 1 .. Len(compilers) /\ Len(compilers) \in 1 .. Len(compilers)
  BY <1>2
<1>6. Len(compilers) = 1
  BY <1>4, <1>5
<1>7. DOMAIN compilers = {1}
  BY <1>2, <1>6
<1>8. Compiler = compilers[1] /\ Compiler.fn = 1 /\ Ops = ops[1]
  BY <1>2, <1>3, <1>5, <1>6 DEF Ops
<1>9. Compiler.loc_op_idx \in Nat /\ Compiler.loc_op_idx <= Len(ops[1])
  BY <1>8, CompilerAtWork DEF CompilerSet, Accounted
<1> QED BY <1>1, <1>6, <1>7, <1>8, <1>9

\* A new form changes no location of those there are, and is near no other
\* than before.
LEMMA NewFormKeepsNear ==
    ASSUME Types, FormsNested, NEW form \in NewForms, NEW outer \in Forms, NEW isRecorded \in BOOLEAN,
           NewForm(form, outer, isRecorded)
    PROVE  /\ FormsNested' /\ Forms \subseteq Forms' /\ form \in Forms'
           /\ \A f \in Forms : LocationOf(f)' = LocationOf(f) /\ parent'[f] = parent[f]
           /\ \A f \in Forms : NearLocations(f) \subseteq NearLocations(f)'
           /\ \A f : f = form => LocationOf(f)' = Location(form, isRecorded)
           /\ \A f : f = outer => Location(form, isRecorded) \in NearLocations(f)'
           /\ parent'[form] = outer
<1>1. parent \in Seq(Nat) /\ Forms = 1 .. Len(parent) /\ Len(parent) \in Nat /\ outer \in Nat
  BY DEF Types, Forms
<1>2. /\ form = Len(parent) + 1 /\ form \in Nat
      /\ parent' \in Seq(Nat) /\ Len(parent') = Len(parent) + 1 /\ parent'[form] = outer
      /\ \A f \in 1 .. Len(parent) : parent'[f] = parent[f]
      /\ recorded' = recorded \cup {f \in {form} : isRecorded}
  BY <1>1, NewFormTyped
<1>3. /\ Forms' = 1 .. (Len(parent) + 1) /\ Forms \subseteq Forms' /\ form \in Forms'
      /\ \A f \in Forms' : f \in Forms \/ f = form
  BY <1>1, <1>2 DEF Forms
<1>4. \A f \in Forms' : parent'[f] < f
  <2>1. outer < form
    BY <1>1, <1>2
  <2> QED BY <1>1, <1>2, <1>3, <2>1 DEF FormsNested
<1>5. FormsNested'
  BY <1>2, <1>3, <1>4 DEF FormsNested
<1>6. \A f \in Forms \cup {0} : LocationOf(f)' = LocationOf(f)
  <2> TAKE f \in Forms \cup {0}
  <2>1. f # form
    BY <1>1, <1>2
  <2>2. f \in recorded' <=> f \in recorded
    BY <1>2, <2>1
  <2> QED BY <2>2 DEF LocationOf, Location, FirstEntry
<1>7. ASSUME NEW f \in Forms, NEW g \in Near(f)
      PROVE  g \in Forms \cup {0} /\ g \in Near(f)'
  <2>1. parent[f] \in Nat /\ parent[f] < f /\ f \in Nat /\ f <= Len(parent)
    BY <1>1 DEF FormsNested
  <2>2. parent[f] \in Forms \cup {0}
    BY <1>1, <2>1 DEF FormsNested
  <2>5. parent'[f] = parent[f]
    BY <1>1, <1>2, <2>1
  <2>3. g = f \/ g = parent[f] \/ (g \in Forms /\ parent[g] = f)
    BY DEF Near
  <2>4. g \in Forms => g \in Forms' /\ parent'[g] = parent[g]
    BY <1>1, <1>2, <1>3
  <2> QED BY <2>2, <2>3, <2>4, <2>5 DEF Near
<1>8. ASSUME NEW f \in Forms PROVE NearLocations(f) \subseteq NearLocations(f)'
  <2> SUFFICES ASSUME NEW g \in Near(f) PROVE LocationOf(g) \in NearLocations(f)'
    BY DEF NearLocations
  <2>1. LocationOf(g)' = LocationOf(g) /\ g \in Near(f)'
    BY <1>6, <1>7
  <2>2. \A near \in Near(f)' : LocationOf(near)' \in NearLocations(f)'
    BY DEF NearLocations
  <2> QED BY <2>1, <2>2
<1>9. ASSUME NEW f, f = form PROVE LocationOf(f)' = Location(form, isRecorded)
  <2>1. f \notin recorded
    BY <1>1, <1>2, <1>9 DEF FormsNested
  <2>2. f \in recorded' <=> isRecorded
    BY <1>2, <1>9, <2>1
  <2> QED BY <1>9, <2>2 DEF LocationOf, Location, FirstEntry
<1>10. ASSUME NEW f, f = outer PROVE Location(form, isRecorded) \in NearLocations(f)'
  <2>1. form \in Near(f)'
    BY <1>2, <1>3, <1>10 DEF Near
  <2>2. \A near \in Near(f)' : LocationOf(near)' \in NearLocations(f)'
    BY DEF NearLocations
  <2>3. \A near : near = form => LocationOf(near)' = Location(form, isRecorded)
    BY <1>9
  <2> QED BY <2>1, <2>2, <2>3
<1>11. \A f \in Forms : parent'[f] = parent[f]
  BY <1>1, <1>2
<1> QED BY <1>2, <1>3, <1>5, <1>6, <1>8, <1>9, <1>10, <1>11

\* What is left to show of a step that accounts for what is pending.
LEMMA TurnKeepsNear ==
    ASSUME RunsInv, NearInv, Len(ops) = 1, compilers # <<>>,
           NEW stack \in Seq(EntrySet), NEW loc \in Nat, Turn(stack, loc),
           FormsNested', Forms \subseteq Forms',
           \A f \in Forms : NearLocations(f) \subseteq NearLocations(f)',
           \A c : c.loc_stack = stack => StackNear(c)',
           Top.kind # "ast" => \A f : f = Top.form => loc \in NearLocations(f)'
    PROVE  NearInv'
<1>1. /\ Len(compilers) = 1 /\ DOMAIN compilers = {1}
      /\ Compiler = compilers[1] /\ Compiler.fn = 1 /\ Ops = ops[1] /\ ops[1] \in Seq(Nat)
      /\ Compiler.loc_op_idx \in Nat /\ Compiler.loc_op_idx <= Len(ops[1])
  BY OneCompiler
<1>2. /\ Compiler.loc_op_idx = Total /\ PendingNear(Compiler)
      /\ \A k \in Fallible(1) :
            /\ ops[1][k] \in Forms
            /\ k <= Total => hll_bytecode_get_loc(k - 1) \in NearLocations(ops[1][k])
  BY <1>1 DEF NearInv
<1>3. /\ Len(compilers') = Len(compilers) /\ compilers' \in Seq(CompilerSet)
      /\ compilers'[1].fn = 1
      /\ compilers'[1].loc_stack = stack
      /\ compilers'[1].loc_op_idx = Len(Ops)
  BY <1>1, TurnCompilers
<1>4. DOMAIN compilers' = {1} /\ ops' = ops
  BY <1>1, <1>3 DEF Turn
<1>5. /\ Total' = Total + Pending
      /\ \A k \in 1 .. Total : hll_bytecode_get_loc(k - 1)' = hll_bytecode_get_loc(k - 1)
      /\ \A k \in (Total + 1) .. Total' : hll_bytecode_get_loc(k - 1)' = loc
      /\ Total \in Nat
  BY AddsRunTotal, TotalNatural DEF Turn, RunsInv
<1>6. Total' = Len(ops[1])
  BY <1>1, <1>2, <1>5 DEF Pending
<1>7. ASSUME NEW i \in DOMAIN compilers'
      PROVE  (compilers[i].loc_op_idx = Total /\ StackNear(compilers[i]) /\ PendingNear(compilers[i]))'
  <2>1. i = 1 /\ compilers'[i].loc_op_idx = Total'
    BY <1>1, <1>3, <1>4, <1>6
  <2>2. StackNear(compilers[i])'
    BY <1>3, <2>1
  <2>3. PendingNear(compilers[i])'
    <3>1. compilers'[i].loc_op_idx = Len(ops[1]) /\ ops'[compilers'[i].fn] = ops[1]
      BY <1>1, <1>3, <1>4, <2>1
    <3>2. Len(ops[1]) \in Nat
      BY <1>1
    <3>3. (Len(ops[1]) + 1) .. Len(ops[1]) = {}
      BY <3>2
    <3> QED BY <3>1, <3>3 DEF PendingNear
  <2> QED BY <2>1, <2>2, <2>3
<1>8. ASSUME NEW k \in Fallible(1)'
      PROVE  /\ ops'[1][k] \in Forms'
             /\ hll_bytecode_get_loc(k - 1)' \in NearLocations(ops[1][k])'
  <2>1. k \in Fallible(1) /\ k \in 1 .. Len(ops[1]) /\ ops[1][k] # NoForm /\ ops[1][k] \in Forms
    BY <1>1, <1>2, <1>4 DEF Fallible
  <2>2. CASE k <= Total
    <3>1. hll_bytecode_get_loc(k - 1) \in NearLocations(ops[1][k])
      BY <1>2, <2>1, <2>2
    <3>2. hll_bytecode_get_loc(k - 1)' = hll_bytecode_get_loc(k - 1)
      BY <1>5, <2>1, <2>2
    <3>3. \A f \in Forms : NearLocations(f) \subseteq NearLocations(f)'
      OBVIOUS
    <3>4. \A f \in Forms : f = ops'[1][k] => (hll_bytecode_get_loc(k - 1)' \in NearLocations(f) =>
                                              hll_bytecode_get_loc(k - 1)' \in NearLocations(ops[1][k])')
      BY <3>3
    <3> QED BY <1>4, <2>1, <3>1, <3>2, <3>4
  <2>3. CASE ~(k <= Total)
    <3>1. k \in (Compiler.loc_op_idx + 1) .. Len(ops[Compiler.fn])
      BY <1>1, <1>2, <1>5, <2>1, <2>3
    <3>2. Top.kind # "ast" /\ ops[1][k] = Top.form
      BY <1>1, <1>2, <2>1, <3>1 DEF PendingNear, Top
    <3>3. hll_bytecode_get_loc(k - 1)' = loc
      BY <1>5, <1>6, <2>1, <2>3
    <3>4. \A f : f = Top.form => loc \in NearLocations(f)'
      BY <3>2
    <3>5. \A f : f = ops'[1][k] => (loc \in NearLocations(f)' => loc \in NearLocations(ops[1][k])')
      OBVIOUS
    <3> QED BY <1>4, <2>1, <3>2, <3>3, <3>4, <3>5
  <2> QED BY <2>2, <2>3
<1> QED BY <1>7, <1>8 DEF NearInv

LEMMA OpenKeepsNear ==
    ASSUME RunsInv, NearInv, Len(ops) = 1, OpenExpression \/ OpenSymbol \/ OpenForm
    PROVE  NearInv'
<1>1. compilers # <<>>
  BY OpenCases
<1>2. PICK form \in NewForms, isRecorded \in BOOLEAN :
         \E entries \in NewEntries(form, Location(form, isRecorded)) : Open(form, isRecorded, entries)
  BY OpenCases
<1>3. PICK entries \in NewEntries(form, Location(form, isRecorded)) : Open(form, isRecorded, entries)
  BY <1>2
<1> DEFINE loc == Location(form, isRecorded)
           old == Compiler.loc_stack
           stack == old \o entries
<1>4. Types /\ FormsNested /\ StackNear(Compiler)
  BY <1>1, OneCompiler DEF RunsInv, NearInv
<1>5. old \in Seq(EntrySet) /\ Len(old) \in Nat \ {0} /\ Top = old[Len(old)] /\ Top.form \in Forms /\ Top.form \in Nat
  <2>1. old \in Seq(EntrySet) /\ old # <<>> /\ Top \in EntrySet
    BY <1>1, CompilerAtWork DEF CompilerSet, StackShape
  <2>2. Len(old) \in Nat \ {0} /\ Top = old[Len(old)]
    BY <2>1, FrontOf DEF Top
  <2> QED BY <1>4, <2>1, <2>2 DEF StackNear, EntrySet
<1>6. form \in Nat /\ loc \in Nat
  BY <1>3, <1>4, <1>5, NewFormTyped DEF Open
<1>7. /\ entries \in Seq(EntrySet) /\ Len(entries) \in {1, 2} /\ entries # <<>>
      /\ \A j \in DOMAIN entries : entries[j].form = form /\ entries[j].loc = loc /\ entries[j].kind # "ast"
      /\ Head(entries).loc = loc
  BY <1>6, EntriesTyped
<1>8. /\ stack \in Seq(EntrySet) /\ Len(stack) = Len(old) + Len(entries)
      /\ \A j \in DOMAIN stack : stack[j] = IF j <= Len(old) THEN old[j] ELSE entries[j - Len(old)]
  BY <1>1, <1>7, PushedStack
<1>9. Turn(stack, loc)
  BY <1>1, <1>3, <1>7, PushIsTurn DEF Open
<1>10. /\ FormsNested' /\ Forms \subseteq Forms' /\ form \in Forms'
       /\ \A f \in Forms : LocationOf(f)' = LocationOf(f) /\ parent'[f] = parent[f]
       /\ \A f \in Forms : NearLocations(f) \subseteq NearLocations(f)'
       /\ \A f : f = form => LocationOf(f)' = loc
       /\ \A f : f = Top.form => loc \in NearLocations(f)'
       /\ parent'[form] = Top.form
  BY <1>3, <1>4, <1>5, NewFormKeepsNear DEF Open
<1> HIDE DEF loc, old, stack
<1>11. ASSUME NEW c, c.loc_stack = stack PROVE StackNear(c)'
  <2>1. /\ \A j \in 1 .. Len(old) : old[j].form \in Forms /\ old[j].loc = LocationOf(old[j].form)
        /\ \A j \in 2 .. Len(old) : old[j].form = old[j - 1].form \/ parent[old[j].form] = old[j - 1].form
    BY <1>4 DEF StackNear, old
  <2>2. DOMAIN stack = 1 .. Len(stack) /\ DOMAIN entries = 1 .. Len(entries)
    BY <1>7, <1>8
  <2>3. \A j \in 1 .. Len(stack) : /\ j <= Len(old) => stack[j] = old[j]
                                   /\ j > Len(old) => stack[j].form = form /\ stack[j].loc = loc
    <3> TAKE j \in 1 .. Len(stack)
    <3>1. CASE j <= Len(old)
      BY <1>5, <1>8, <2>2, <3>1
    <3>2. CASE j > Len(old)
      <4>1. j - Len(old) \in DOMAIN entries /\ ~(j <= Len(old))
        BY <1>5, <1>7, <1>8, <2>2, <3>2
      <4>2. stack[j] = entries[j - Len(old)]
        BY <1>8, <2>2, <4>1
      <4> QED BY <1>7, <3>2, <4>1, <4>2
    <3> QED BY <1>5, <3>1, <3>2
  <2>4. ASSUME NEW j \in 1 .. Len(stack), NEW f, f = stack[j].form
        PROVE  f \in Forms' /\ stack[j].loc = LocationOf(f)'
    <3>1. CASE j <= Len(old)
      <4>1. stack[j] = old[j] /\ j \in 1 .. Len(old)
        BY <1>5, <2>3, <3>1
      <4>2. f \in Forms /\ old[j].loc = LocationOf(f)
        BY <2>1, <2>4, <4>1
      <4> QED BY <1>10, <4>1, <4>2
    <3>2. CASE j > Len(old)
      BY <1>10, <2>3, <2>4, <3>2
    <3> QED BY <1>5, <3>1, <3>2
  <2>5. ASSUME NEW j \in 2 .. Len(stack)
        PROVE  stack[j].form = stack[j - 1].form \/ parent'[stack[j].form] = stack[j - 1].form
    <3>1. j \in 1 .. Len(stack) /\ j - 1 \in 1 .. Len(stack)
      BY <1>8
    <3>2. CASE j <= Len(old)
      <4>1. stack[j] = old[j] /\ stack[j - 1] = old[j - 1] /\ j \in 2 .. Len(old)
        BY <1>5, <2>3, <3>1, <3>2
      <4>2. old[j].form \in Forms
        BY <2>1, <4>1
      <4> QED BY <1>10, <2>1, <4>1, <4>2
    <3>3. CASE j = Len(old) + 1
      <4>1. stack[j].form = form /\ stack[j - 1] = Top
        BY <1>5, <2>3, <3>1, <3>3
      <4> QED BY <1>10, <4>1
    <3>4. CASE j > Len(old) + 1
      BY <1>5, <2>3, <3>1, <3>4
    <3> QED BY <1>5, <3>2, <3>3, <3>4
  <2>6. \A j \in 1 .. Len(c.loc_stack) :
           c.loc_stack[j].form \in Forms' /\ c.loc_stack[j].loc = LocationOf(c.loc_stack[j].form)'
    BY <1>11, <2>4
  <2> QED BY <1>11, <2>5, <2>6 DEF StackNear
<1> QED BY <1>1, <1>6, <1>8, <1>9, <1>10, <1>11, TurnKeepsNear

LEMMA CloseKeepsNear ==
    ASSUME RunsInv, NearInv, Len(ops) = 1, Close
    PROVE  NearInv'
<1> DEFINE old == Compiler.loc_stack
           left == Front(old)
           loc == Last(left).loc
<1>1. compilers # <<>> /\ Top.kind # "ast" /\ ops' = ops /\ parent' = parent /\ recorded' = recorded
  BY DEF Close
<1>2. FormsNested /\ StackNear(Compiler)
  BY <1>1, OneCompiler DEF NearInv
<1>3. /\ left \in Seq(EntrySet) /\ loc \in Nat /\ Len(left) = Len(old) - 1 /\ Len(left) \in Nat \ {0}
      /\ \A j \in 1 .. Len(left) : left[j] = old[j]
      /\ Last(left) = old[Len(old) - 1]
  BY <1>1, PoppedStack
<1>4. old \in Seq(EntrySet) /\ old # <<>> /\ Top = old[Len(old)]
  BY <1>1, CompilerAtWork, FrontOf DEF CompilerSet, StackShape, Top
<1>5. Turn(left, loc)
  BY CloseIsTurn
<1>6. /\ Forms' = Forms /\ FormsNested'
      /\ \A f : LocationOf(f)' = LocationOf(f)
      /\ \A f : NearLocations(f)' = NearLocations(f)
  BY <1>1, <1>2 DEF Forms, FormsNested, LocationOf, NearLocations, Near
<1> HIDE DEF old, left, loc
<1>7. /\ \A j \in 1 .. Len(old) : old[j].form \in Forms /\ old[j].loc = LocationOf(old[j].form)
      /\ \A j \in 2 .. Len(old) : old[j].form = old[j - 1].form \/ parent[old[j].form] = old[j - 1].form
  BY <1>2 DEF StackNear, old
<1>8. ASSUME NEW c, c.loc_stack = left PROVE StackNear(c)'
  <2>1. \A j \in 1 .. Len(left) : left[j].form \in Forms /\ left[j].loc = LocationOf(left[j].form)
    BY <1>3, <1>4, <1>7
  <2>2. ASSUME NEW j \in 2 .. Len(left)
        PROVE  left[j].form = left[j - 1].form \/ parent[left[j].form] = left[j - 1].form
    <3>1. j \in 2 .. Len(old) /\ left[j] = old[j] /\ left[j - 1] = old[j - 1]
      BY <1>3, <1>4
    <3> QED BY <1>7, <3>1
  <2>3. StackNear(c)
    BY <1>8, <2>1, <2>2 DEF StackNear
  <2> QED BY <1>1, <1>6, <2>3 DEF StackNear
<1>9. loc \in NearLocations(Top.form)
  <2>1. Len(old) \in 2 .. Len(old) /\ Len(old) - 1 \in 1 .. Len(old)
    BY <1>3, <1>4
  <2> DEFINE outer == old[Len(old) - 1]
  <2>2. outer.form \in Forms /\ loc = LocationOf(outer.form)
    BY <1>3, <1>7, <2>1 DEF loc
  <2>3. Top.form = outer.form \/ parent[Top.form] = outer.form
    BY <1>4, <1>7, <2>1
  <2>4. 0 \notin Forms
    BY <1>1 DEF RunsInv, Types, Forms
  <2>5. outer.form \in Near(Top.form)
    BY <2>2, <2>3, <2>4 DEF Near, NoForm
  <2> QED BY <2>2, <2>5 DEF NearLocations
<1>10. \A f : f = Top.form => loc \in NearLocations(f)'
  BY <1>6, <1>9
<1>11. \A f \in Forms : NearLocations(f) \subseteq NearLocations(f)'
  BY <1>6
<1> QED BY <1>1, <1>3, <1>5, <1>6, <1>8, <1>10, <1>11, TurnKeepsNear

LEMMA EmitKeepsNear ==
    ASSUME RunsInv, NearInv, Len(ops) = 1, Emit
    PROVE  NearInv'
<1> DEFINE form == IF Top.kind = "ast" THEN NoForm ELSE Top.form
<1>1. compilers # <<>> /\ ops' = Emitted(form) /\ UNCHANGED <<compilers, parent, recorded, loc_rle>>
  BY DEF Emit
<1>2. /\ DOMAIN compilers = {1} /\ DOMAIN ops = {1}
      /\ Compiler = compilers[1] /\ Compiler.fn = 1 /\ ops[1] \in Seq(Nat)
      /\ Compiler.loc_op_idx \in Nat /\ Compiler.loc_op_idx <= Len(ops[1])
  BY <1>1, OneCompiler
<1>3. /\ FormsNested /\ Compiler.loc_op_idx = Total /\ StackNear(Compiler) /\ PendingNear(Compiler)
      /\ \A k \in Fallible(1) :
            /\ ops[1][k] \in Forms
            /\ k <= Total => hll_bytecode_get_loc(k - 1) \in NearLocations(ops[1][k])
  BY <1>2 DEF NearInv
<1>4. Top \in EntrySet /\ Top = Last(Compiler.loc_stack) /\ form \in Nat
  BY <1>1, CompilerAtWork DEF Top, EntrySet, NoForm
<1>5. Top.form \in Forms
  <2>1. Compiler.loc_stack \in Seq(EntrySet) /\ Compiler.loc_stack # <<>>
    BY <1>1, CompilerAtWork DEF CompilerSet, StackShape
  <2>2. Top = Compiler.loc_stack[Len(Compiler.loc_stack)] /\ Len(Compiler.loc_stack) \in 1 .. Len(Compiler.loc_stack)
    BY <1>4, <2>1, FrontOf
  <2> QED BY <1>3, <2>2 DEF StackNear
<1> HIDE DEF form
<1>6. /\ ops' \in Seq(Seq(Nat)) /\ Len(ops') = 1
      /\ Len(ops'[1]) = Len(ops[1]) + 1
      /\ \A k \in 1 .. Len(ops[1]) : ops'[1][k] = ops[1][k]
      /\ ops'[1][Len(ops[1]) + 1] = form
  BY <1>1, <1>2, <1>4, EmittedOps
<1>7. DOMAIN ops[1] = 1 .. Len(ops[1]) /\ Len(ops[1]) \in Nat /\ DOMAIN ops'[1] = 1 .. (Len(ops[1]) + 1)
  <2>1. ops'[1] \in Seq(Nat)
    BY <1>6, 1 \in 1 .. 1, ElementOfSeq
  <2> QED BY <1>2, <1>6, <2>1
<1>8. /\ Total' = Total /\ Forms' = Forms /\ FormsNested'
      /\ \A f : NearLocations(f)' = NearLocations(f)
      /\ \A k : hll_bytecode_get_loc(k)' = hll_bytecode_get_loc(k)
  BY <1>1, <1>3 DEF Total, Forms, FormsNested, NearLocations, LocationOf, Near, hll_bytecode_get_loc
<1>9. ASSUME NEW i \in DOMAIN compilers'
      PROVE  (compilers[i].loc_op_idx = Total /\ StackNear(compilers[i]) /\ PendingNear(compilers[i]))'
  <2>1. i = 1 /\ compilers'[i] = Compiler
    BY <1>1, <1>2
  <2>2. StackNear(compilers[i])'
    BY <1>1, <1>3, <2>1 DEF StackNear, Forms, LocationOf
  <2>3. ASSUME NEW k \in (Compiler.loc_op_idx + 1) .. (Len(ops[1]) + 1)
        PROVE  ops'[1][k] = form
    <3>1. CASE k = Len(ops[1]) + 1
      BY <1>6, <3>1
    <3>2. CASE k # Len(ops[1]) + 1
      <4>1. k \in (Compiler.loc_op_idx + 1) .. Len(ops[1]) /\ k \in 1 .. Len(ops[1])
        BY <1>2, <1>7, <3>2
      <4>2. ops[1][k] = form
        BY <1>2, <1>3, <1>4, <4>1 DEF PendingNear, form
      <4> QED BY <1>6, <4>1, <4>2
    <3> QED BY <3>1, <3>2
  <2>4. Compiler.fn = 1 /\ (i \in DOMAIN compilers)'
    BY <1>2, <1>9
  <2>5. \A c : c = Compiler /\ c.fn = 1 =>
          \A k \in (c.loc_op_idx + 1) .. (Len(ops[1]) + 1) : ops'[c.fn][k] = form
    BY <2>3
  <2>6. PendingNear(compilers[i])'
    BY <1>4, <1>7, <2>1, <2>4, <2>5 DEF PendingNear, form
  <2> QED BY <1>3, <1>8, <2>1, <2>2, <2>6
<1>10. ASSUME NEW k \in Fallible(1)'
       PROVE  /\ ops'[1][k] \in Forms'
              /\ k <= Total' => hll_bytecode_get_loc(k - 1)' \in NearLocations(ops[1][k])'
  <2>1. k \in 1 .. (Len(ops[1]) + 1) /\ ops'[1][k] # NoForm
    BY <1>7 DEF Fallible
  <2>2. CASE k = Len(ops[1]) + 1
    <3>1. ops'[1][k] = Top.form
      BY <1>6, <2>1, <2>2 DEF form
    <3>2. ~(k <= Total')
      BY <1>2, <1>3, <1>7, <1>8, <2>2
    <3> QED BY <1>5, <1>8, <3>1, <3>2
  <2>3. CASE k # Len(ops[1]) + 1
    <3>1. k \in 1 .. Len(ops[1]) /\ ops'[1][k] = ops[1][k]
      BY <1>6, <1>7, <2>1, <2>3
    <3>2. k \in Fallible(1)
      BY <1>7, <2>1, <3>1 DEF Fallible
    <3> QED BY <1>3, <1>8, <3>1, <3>2
  <2> QED BY <2>2, <2>3
<1> QED BY <1>8, <1>9, <1>10 DEF NearInv

LEMMA EndAstKeepsNear ==
    ASSUME RunsInv, NearInv, Len(ops) = 1, EndAst
    PROVE  NearInv'
<1>1. /\ compilers # <<>> /\ ops' = Emitted(NoForm)
      /\ compilers' = Front(compilers) /\ UNCHANGED <<parent, recorded, loc_rle>>
  BY DEF EndAst
<1>2. Len(compilers) = 1 /\ DOMAIN ops = {1} /\ Compiler.fn = 1
  BY <1>1, OneCompiler
<1>3. DOMAIN compilers' = {}
  <2>1. compilers \in Seq(CompilerSet)
    BY DEF RunsInv, Types
  <2>2. compilers' \in Seq(CompilerSet) /\ Len(compilers') = 0
    BY <1>1, <1>2, <2>1, FrontOf
  <2> QED BY <2>2
<1>4. /\ \A k \in 1 .. Len(ops[1]) : ops'[1][k] = ops[1][k]
      /\ Fallible(1)' = Fallible(1) /\ Fallible(1) \subseteq 1 .. Len(ops[1])
  BY <1>1, <1>2, EmittedOps, FallibleNatural DEF NoForm, RunsInv, Functions
<1>5. /\ Total' = Total /\ Forms' = Forms /\ FormsNested'
      /\ \A f : NearLocations(f)' = NearLocations(f)
      /\ \A k : hll_bytecode_get_loc(k)' = hll_bytecode_get_loc(k)
  BY <1>1 DEF NearInv, Total, Forms, FormsNested, NearLocations, LocationOf, Near, hll_bytecode_get_loc
<1>6. ASSUME NEW k \in Fallible(1)'
      PROVE  /\ ops'[1][k] \in Forms'
             /\ k <= Total' => hll_bytecode_get_loc(k - 1)' \in NearLocations(ops[1][k])'
  <2>1. k \in Fallible(1) /\ ops'[1][k] = ops[1][k]
    BY <1>4
  <2> QED BY <1>5, <2>1 DEF NearInv
<1> QED BY <1>3, <1>5, <1>6 DEF NearInv

LEMMA InitNear ==
    ASSUME Init PROVE NearInv
<1>1. RunsInv
  BY InitRuns
<1>2. /\ compilers = <<[fn |-> 1, loc_stack |-> <<Entry(1, 1, "ast")>>, loc_op_idx |-> 0]>>
      /\ ops = <<<<>>>> /\ parent = <<0>> /\ recorded = {1} /\ loc_rle = <<>>
  BY DEF Init, NewCompiler
<1>3. Forms = {1} /\ FormsNested
  BY <1>2 DEF Forms, FormsNested
<1>4. Total = 0
  <2>1. loc_rle \in Seq(RunSet) /\ Len(loc_rle) = 0
    BY <1>2
  <2> QED BY <2>1, ReachSums DEF Sums, Total
<1>5. LocationOf(1) = 1
  BY <1>2 DEF LocationOf, Location
<1>6. ASSUME NEW i \in DOMAIN compilers
      PROVE  compilers[i].loc_op_idx = Total /\ StackNear(compilers[i]) /\ PendingNear(compilers[i])
  <2>1. compilers[i] = [fn |-> 1, loc_stack |-> <<Entry(1, 1, "ast")>>, loc_op_idx |-> 0]
    BY <1>2
  <2> DEFINE c == compilers[i]
  <2>2. c.fn = 1 /\ c.loc_stack = <<Entry(1, 1, "ast")>> /\ c.loc_op_idx = 0
    BY <2>1
  <2> HIDE DEF c
  <2>3. Len(c.loc_stack) = 1 /\ c.loc_stack[1].form = 1 /\ c.loc_stack[1].loc = 1
    BY <2>2 DEF Entry
  <2>4. StackNear(c)
    BY <1>3, <1>5, <2>3 DEF StackNear
  <2>5. PendingNear(c)
    BY <1>2, <2>2 DEF PendingNear
  <2> QED BY <1>4, <2>2, <2>4, <2>5 DEF c
<1>7. Fallible(1) = {}
  BY <1>2 DEF Fallible
<1> QED BY <1>3, <1>6, <1>7 DEF NearInv

\* A unit has as many functions as were begun.
LEMMA FunctionsStay ==
    ASSUME RunsInv, Next
    PROVE  IF BeginFunction THEN Len(ops') # 1 ELSE Len(ops') = Len(ops)
<1>1. ASSUME OpenExpression \/ OpenSymbol \/ OpenForm \/ Close PROVE Len(ops') = Len(ops)
  <2>1. ops' = ops
    BY <1>1 DEF OpenExpression, OpenSymbol, OpenForm, Close
  <2> QED BY <2>1
<1>2. ASSUME Emit \/ EndAst PROVE Len(ops') = Len(ops)
  <2>1. compilers # <<>>
    BY <1>2 DEF Emit, EndAst
  <2>2. PICK form \in {NoForm, Top.form} : ops' = Emitted(form)
    BY <1>2 DEF Emit, EndAst
  <2>3. form \in Nat
    BY <2>1, CompilerAtWork DEF EntrySet, NoForm
  <2> QED BY <2>1, <2>2, <2>3, EmittedOps
<1>3. ASSUME BeginFunction PROVE Len(ops') # 1
  <2>1. ops' = Append(ops, <<>>) /\ compilers # <<>>
    BY <1>3 DEF BeginFunction
  <2>2. ops \in Seq(Seq(Nat)) /\ Compiler.fn \in DOMAIN ops
    BY <2>1, CompilerAtWork DEF RunsInv, Types
  <2>3. Len(ops) \in Nat \ {0} /\ Len(ops') = Len(ops) + 1
    BY <2>1, <2>2
  <2> QED BY <2>3
<1> QED BY <1>1, <1>2, <1>3 DEF Next

LEMMA StepKeepsNear ==
    ASSUME RunsInv, NearInv, [Next]_vars PROVE NearInv'
<1>1. CASE UNCHANGED vars
  <2>1. /\ ops' = ops /\ compilers' = compilers /\ parent' = parent
        /\ recorded' = recorded /\ loc_rle' = loc_rle
    BY <1>1 DEF vars
  <2> QED BY <2>1 DEF NearInv, Total, Forms, FormsNested, NearLocations, LocationOf, Near,
                      hll_bytecode_get_loc, StackNear, PendingNear, Fallible
<1>2. CASE Next
  <2> SUFFICES ASSUME Len(ops') = 1 PROVE NearInv'
    BY DEF NearInv
  <2>1. Len(ops) = 1 /\ ~BeginFunction
    BY <1>2, FunctionsStay
  <2> QED BY <1>2, <2>1, OpenKeepsNear, CloseKeepsNear, EmitKeepsNear, EndAstKeepsNear DEF Next
<1> QED BY <1>1, <1>2

\* Spec keeps what the runs of a unit without functions say near.
THEOREM NearInvariance == Spec => []NearInv
<1>1. Init => NearInv
  BY InitNear
<1>2. RunsInv /\ NearInv /\ [Next]_vars => NearInv'
  BY StepKeepsNear
<1> QED BY <1>1, <1>2, RunsInvariance, PTL DEF Spec

LEMMA NearInvReports ==
    ASSUME RunsInv, NearInv PROVE ReportsNearby
<1> SUFFICES ASSUME Compiled = {1}, NEW k \in Fallible(1)
             PROVE  hll_bytecode_get_loc(k - 1) \in NearLocations(ops[1][k])
  BY DEF ReportsNearby, NearLocations, LocationOf
<1>1. compilers = <<>>
  <2> SUFFICES ASSUME compilers # <<>> PROVE FALSE
    OBVIOUS
  <2>1. 1 \in DOMAIN compilers /\ compilers[1].fn = 1
    BY CompilersTyped, CompilerAtWork DEF RunsInv, Nested
  <2> QED BY <2>1 DEF Compiled
<1>2. DOMAIN ops = {1}
  BY <1>1 DEF Compiled, Functions
<1>3. Len(ops) = 1
  <2>1. Len(ops) \in Nat /\ DOMAIN ops = 1 .. Len(ops)
    BY DEF RunsInv, Types
  <2>2. 1 \in 1 .. Len(ops) /\ (Len(ops) > 1 => 2 \in 1 .. Len(ops))
    BY <1>2, <2>1
  <2> QED BY <1>2, <2>1, <2>2
<1>4. k <= Total
  BY DEF RunsInv
<1> QED BY <1>3, <1>4 DEF NearInv

(***************************************************************************)
(* In a unit without functions, of any size, what is reported for an       *)
(* instruction is the form it was made for, the form around that, or one   *)
(* directly within it.                                                     *)
(***************************************************************************)
THEOREM ReportsNearbyAlways == Spec => []ReportsNearby
BY RunsInvariance, NearInvariance, NearInvReports, PTL
=============================================================================
