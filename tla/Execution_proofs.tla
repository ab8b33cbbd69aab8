-------------------------- MODULE Execution_proofs --------------------------
(***************************************************************************)
(* Whatever its bytecode, a program frees nothing it can still reach, and  *)
(* leaves the temp roots as it found them.                                 *)
(*                                                                         *)
(* Sound is the invariant.  An allocation may take away every object that  *)
(* is not rooted, so that for each operation that allocates the lemmas say *)
(* what is rooted (Held) and that it is so afterwards (Keeps); for a       *)
(* builtin, which no collection interrupts, that the machine is sound and  *)
(* has its roots (Tame); for an instruction, how it may end (Handles).     *)
(***************************************************************************)
EXTENDS Execution, SequenceTheorems, FiniteSetTheorems, WellFoundedInduction, TLAPS

-----------------------------------------------------------------------------
(* Stacks. *)

\* A sequence of some set is a stack of elements of it.
LEMMA StackIntro ==
    ASSUME NEW S, NEW s \in Seq(S)
    PROVE  IsStack(s) /\ Range(s) \subseteq S
<1>1. DOMAIN s = 1 .. Len(s) /\ Len(s) \in Nat /\ s \in [1 .. Len(s) -> S]
  OBVIOUS
<1>2. \A i \in 1 .. Len(s) : s[i] \in Range(s)
  BY <1>1 DEF Range
<1>3. s \in [1 .. Len(s) -> Range(s)]
  BY <1>1, <1>2
<1>4. s \in Seq(Range(s))
  BY <1>1, <1>3
<1> QED BY <1>1, <1>4 DEF IsStack, Range

LEMMA EmptyStack == IsStack(<<>>) /\ Range(<<>>) = {}
<1>1. DOMAIN <<>> = {}
  OBVIOUS
<1>2. Range(<<>>) = {}
  BY <1>1 DEF Range
<1> QED BY <1>2 DEF IsStack

\* A value more on a stack.
LEMMA StackPush ==
    ASSUME NEW s, IsStack(s), NEW v
    PROVE  /\ IsStack(Append(s, v)) /\ Range(Append(s, v)) = Range(s) \cup {v}
           /\ Len(Append(s, v)) = Len(s) + 1
           /\ Front(Append(s, v)) = s /\ Last(Append(s, v)) = v
<1> DEFINE S == Range(s) \cup {v}
           t == Append(s, v)
<1>1. s \in Seq(S) /\ v \in S
  BY SeqMonotonic DEF IsStack
<1> HIDE DEF S
<1>2. /\ t \in Seq(S) /\ Len(t) = Len(s) + 1 /\ Len(s) \in Nat
      /\ DOMAIN t = 1 .. Len(s) + 1 /\ DOMAIN s = 1 .. Len(s)
      /\ t[Len(s) + 1] = v
      /\ \A i \in 1 .. Len(s) : t[i] = s[i]
  BY <1>1
<1> HIDE DEF t
<1>3. Range(t) = Range(s) \cup {v}
  BY <1>2 DEF Range
<1>4. Front(t) = s
  <2>1. Front(t) = SubSeq(t, 1, Len(s))
    BY <1>2 DEF Front
  <2>2. /\ SubSeq(t, 1, Len(s)) \in Seq(S) /\ Len(SubSeq(t, 1, Len(s))) = Len(s)
        /\ \A i \in 1 .. Len(s) : SubSeq(t, 1, Len(s))[i] = t[i]
    <3>1. \A i \in 1 .. Len(s) : t[i] \in S
      BY <1>2
    <3> QED BY <1>2, <3>1, SubSeqProperties
  <2> QED BY <2>1, <2>2, <1>1, <1>2, SeqEqual
<1>5. Last(t) = v
  BY <1>2 DEF Last
<1>6. IsStack(t)
  BY <1>2, StackIntro
<1> QED BY <1>2, <1>3, <1>4, <1>5, <1>6 DEF t

\* A value less.
LEMMA StackPop ==
    ASSUME NEW s, IsStack(s)
    PROVE  /\ IsStack(Front(s)) /\ Range(Front(s)) \subseteq Range(s)
           /\ Len(s) > 0 => Last(s) \in Range(s) /\ Len(Front(s)) = Len(s) - 1
<1>1. Len(s) \in Nat /\ \A i \in 1 .. Len(s) : s[i] \in Range(s)
  BY DEF IsStack
<1>2. \A i \in 1 .. (Len(s) - 1) : s[i] \in Range(s)
  BY <1>1
<1>3. Front(s) \in Seq(Range(s)) /\ Len(Front(s)) = IF 1 <= Len(s) - 1 THEN Len(s) - 1 ELSE 0
  BY <1>1, <1>2, SubSeqProperties DEF Front
<1>4. IsStack(Front(s)) /\ Range(Front(s)) \subseteq Range(s)
  BY <1>3, StackIntro
<1>5. Len(s) > 0 => Last(s) \in Range(s)
  BY <1>1 DEF Last
<1>6. Len(s) > 0 => Len(Front(s)) = Len(s) - 1
  <2> DEFINE n == Len(s)
             k == Len(Front(s))
  <2>1. n \in Nat /\ k = IF 1 <= n - 1 THEN n - 1 ELSE 0
    BY <1>1, <1>3, Zenon
  <2> HIDE DEF n, k
  <2>2. n > 0 => k = n - 1
    BY <2>1
  <2> QED BY <2>2 DEF n, k
<1> QED BY <1>4, <1>5, <1>6

\* A value in the place of another.
LEMMA StackPut ==
    ASSUME NEW s, IsStack(s), NEW i, NEW v
    PROVE  /\ IsStack([s EXCEPT ![i] = v]) /\ Len([s EXCEPT ![i] = v]) = Len(s)
           /\ Range([s EXCEPT ![i] = v]) \subseteq Range(s) \cup {v}
<1> DEFINE S == Range(s) \cup {v}
           t == [s EXCEPT ![i] = v]
<1>1. s \in Seq(S) /\ v \in S
  BY SeqMonotonic DEF IsStack
<1>2. t \in Seq(S) /\ Len(t) = Len(s)
  <2>1. CASE i \in 1 .. Len(s)
    BY <2>1, <1>1, ExceptSeq
  <2>2. CASE i \notin 1 .. Len(s)
    <3>1. t = s
      BY <1>1, <2>2
    <3> QED BY <1>1, <3>1
  <2> QED BY <2>1, <2>2
<1> QED BY <1>2, StackIntro

-----------------------------------------------------------------------------
(* Induction, and the functions that are defined by recursion. *)

\* The order of the natural numbers, as a set of pairs.
Less == {pair \in Nat \X Nat : pair[1] < pair[2]}

\* Every nonempty set of natural numbers has a least element.
LEMMA NatLeast ==
    ASSUME NEW S \in SUBSET Nat, S # {}
    PROVE  \E n \in S : \A k \in S : n <= k
<1>1. IsWellFoundedOn(Less, Nat)
  BY NatLessThanWellFounded DEF OpToRel, Less
<1>2. PICK n \in S : \A k \in S : <<k, n>> \notin Less
  BY <1>1, WFMin, Zenon
<1>3. ASSUME NEW k \in S PROVE n <= k
  <2>1. k \in Nat /\ n \in Nat /\ <<k, n>> \notin Less
    BY <1>2
  <2> QED BY <2>1 DEF Less
<1> QED BY <1>3

\* Induction up to a number, for the elements of a set.
LEMMA UpTo ==
    ASSUME NEW k \in Nat, NEW S, 0 \in S,
           \A n \in 0 .. (k - 1) : n \in S => n + 1 \in S
    PROVE  \A n \in 0 .. k : n \in S
<1> DEFINE Bad == {n \in 0 .. k : n \notin S}
<1>1. Bad \in SUBSET Nat
  OBVIOUS
<1>2. ASSUME Bad # {} PROVE FALSE
  <2>1. PICK n \in Bad : \A i \in Bad : n <= i
    BY <1>1, <1>2, NatLeast, Zenon
  <2>2. n \in 0 .. k /\ n \notin S /\ n # 0
    BY <2>1
  <2>3. n - 1 \in 0 .. (k - 1) /\ n - 1 \in S
    BY <2>1, <2>2
  <2>4. (n - 1) + 1 \in S
    BY <2>3
  <2> QED BY <2>2, <2>4
<1> QED BY <1>2

\* The lists Along makes, of n objects at most.
NoneAlong(m) == [a \in DOMAIN m.heap |-> <<>>]

AlongBuilt(from, m, kind, field, k) ==
    from = [n \in 0 .. k |-> IF n = 0 THEN NoneAlong(m)
                             ELSE Longer(m, kind, field, from[n - 1])]

\* They are there for any length.
LEMMA AlongExists ==
    ASSUME NEW m, NEW kind, NEW field, NEW k \in Nat
    PROVE  \E f : AlongBuilt(f, m, kind, field, k)
<1> DEFINE S == {n \in Nat : \E f : AlongBuilt(f, m, kind, field, n)}
<1>1. 0 \in S
  <2> DEFINE f == [n \in 0 .. 0 |-> NoneAlong(m)]
  <2>1. AlongBuilt(f, m, kind, field, 0)
    BY DEF AlongBuilt
  <2> QED BY <2>1
<1>2. ASSUME NEW n \in 0 .. (k - 1), n \in S PROVE n + 1 \in S
  <2>1. PICK f : AlongBuilt(f, m, kind, field, n)
    BY <1>2
  <2> DEFINE g == [i \in 0 .. (n + 1) |-> IF i = n + 1 THEN Longer(m, kind, field, f[n]) ELSE f[i]]
  <2>2. AlongBuilt(g, m, kind, field, n + 1)
    BY <2>1 DEF AlongBuilt
  <2> QED BY <2>2
<1>3. \A n \in 0 .. k : n \in S
  <2> HIDE DEF S
  <2> QED BY <1>1, <1>2, UpTo
<1> QED BY <1>3

\* Along is the longest of them.
LEMMA AlongIs ==
    ASSUME NEW m, m.next \in Nat, NEW v, NEW kind, NEW field
    PROVE  \E f : /\ AlongBuilt(f, m, kind, field, m.next)
                  /\ Along(m, v, kind, field) = IF IsRef(v) THEN f[m.next][v[2]] ELSE <<>>
<1> DEFINE Step(f) == [n \in 0 .. m.next |-> IF n = 0 THEN NoneAlong(m)
                             ELSE Longer(m, kind, field, f[n - 1])]
           from == CHOOSE f : f = Step(f)
<1>1. Along(m, v, kind, field) = IF IsRef(v) THEN from[m.next][v[2]] ELSE <<>>
  BY DEF Along, NoneAlong
<1>2. PICK f : AlongBuilt(f, m, kind, field, m.next)
  BY AlongExists
<1>a. f = Step(f)
  BY <1>2 DEF AlongBuilt
<1> HIDE DEF Step
<1>3. from = Step(from)
  BY <1>a, Zenon
<1>4. AlongBuilt(from, m, kind, field, m.next)
  BY <1>3 DEF AlongBuilt, Step
<1> HIDE DEF from
<1> QED BY <1>1, <1>4

-----------------------------------------------------------------------------
(* What can be reached. *)

\* A set of objects that refer to no other.
Closed(m, C) == \A a \in C : Pointees(m, a) \subseteq C

\* No reference, or one to an object of the set.
Within(v, C) == IsRef(v) => v[2] \in C

\* The sets of marks there may be.
MarkSets(m, objects) == SUBSET (objects \cup UNION {Pointees(m, a) : a \in DOMAIN m.heap})

Unmarked(m, objects) == [marked \in MarkSets(m, objects) |-> marked]

MarkingBuilt(marking, m, objects, k) ==
    marking = [n \in 0 .. k |-> IF n = 0 THEN Unmarked(m, objects)
                                ELSE Marking(m, MarkSets(m, objects), marking[n - 1])]

\* The loop is there for any number of generations.
LEMMA MarkingExists ==
    ASSUME NEW m, NEW objects, NEW k \in Nat
    PROVE  \E f : MarkingBuilt(f, m, objects, k)
<1> DEFINE S == {n \in Nat : \E f : MarkingBuilt(f, m, objects, n)}
           sets == MarkSets(m, objects)
<1>1. 0 \in S
  <2> DEFINE f == [n \in 0 .. 0 |-> Unmarked(m, objects)]
  <2>1. MarkingBuilt(f, m, objects, 0)
    BY DEF MarkingBuilt
  <2> QED BY <2>1
<1>2. ASSUME NEW n \in 0 .. (k - 1), n \in S PROVE n + 1 \in S
  <2>1. PICK f : MarkingBuilt(f, m, objects, n)
    BY <1>2
  <2> DEFINE g == [i \in 0 .. (n + 1) |-> IF i = n + 1 THEN Marking(m, sets, f[n]) ELSE f[i]]
  <2>2. MarkingBuilt(g, m, objects, n + 1)
    BY <2>1 DEF MarkingBuilt
  <2> QED BY <2>2
<1>3. \A n \in 0 .. k : n \in S
  <2> HIDE DEF S
  <2> QED BY <1>1, <1>2, UpTo
<1> QED BY <1>3

\* What is reached is what the longest loop marks.
LEMMA MarkingIs ==
    ASSUME NEW m, m.next \in Nat, NEW objects
    PROVE  \E f : MarkingBuilt(f, m, objects, m.next) /\ Reached(m, objects) = f[m.next][objects]
<1> DEFINE Step(f) == [n \in 0 .. m.next |-> IF n = 0 THEN Unmarked(m, objects)
                          ELSE Marking(m, MarkSets(m, objects), f[n - 1])]
           marking == CHOOSE f : f = Step(f)
<1>1. Reached(m, objects) = marking[m.next][objects]
  BY DEF Reached, Unmarked, MarkSets
<1>2. PICK f : MarkingBuilt(f, m, objects, m.next)
  BY MarkingExists
<1>3. f = Step(f)
  BY <1>2 DEF MarkingBuilt
<1> HIDE DEF Step
<1>4. marking = Step(marking)
  BY <1>3, Zenon
<1>5. MarkingBuilt(marking, m, objects, m.next)
  BY <1>4 DEF MarkingBuilt, Step
<1> HIDE DEF marking
<1> QED BY <1>1, <1>5

\* What a loop of some generations ends with: what it is given, or what is
\* left for a generation less.
Ends(f, m, objects, n, marked) ==
    IF n = 0 \/ Blackened(m, marked) = marked THEN f[n][marked] = marked
    ELSE f[n][marked] = f[n - 1][Blackened(m, marked)]

LEMMA MarkingSteps ==
    ASSUME NEW m, NEW objects, NEW k \in Nat, NEW f, MarkingBuilt(f, m, objects, k)
    PROVE  \A n \in 0 .. k, marked \in MarkSets(m, objects) :
              Ends(f, m, objects, n, marked) /\ Blackened(m, marked) \in MarkSets(m, objects)
<1> SUFFICES ASSUME NEW n \in 0 .. k, NEW marked \in MarkSets(m, objects)
             PROVE  Ends(f, m, objects, n, marked) /\ Blackened(m, marked) \in MarkSets(m, objects)
  OBVIOUS
<1>1. Blackened(m, marked) \in MarkSets(m, objects)
  <2>1. \A a : Pointees(m, a) \subseteq UNION {Pointees(m, b) : b \in DOMAIN m.heap}
    BY DEF Pointees
  <2> QED BY <2>1 DEF Blackened, MarkSets
<1>2. Ends(f, m, objects, n, marked)
  <2>1. CASE n = 0
    <3>1. f[n] = Unmarked(m, objects)
      BY <2>1 DEF MarkingBuilt
    <3> QED BY <2>1, <3>1 DEF Ends, Unmarked
  <2>2. CASE n # 0
    <3>1. f[n] = Marking(m, MarkSets(m, objects), f[n - 1])
      BY <2>2 DEF MarkingBuilt
    <3> QED BY <2>2, <3>1 DEF Ends, Marking
  <2> QED BY <2>1, <2>2
<1> QED BY <1>1, <1>2

LEMMA ReachedTrace ==
    ASSUME NEW m, m.next \in Nat, NEW objects
    PROVE  \E f : /\ Reached(m, objects) = f[m.next][objects]
                  /\ \A n \in 0 .. m.next, marked \in MarkSets(m, objects) :
                        /\ Ends(f, m, objects, n, marked)
                        /\ Blackened(m, marked) \in MarkSets(m, objects)
<1>1. PICK f : MarkingBuilt(f, m, objects, m.next) /\ Reached(m, objects) = f[m.next][objects]
  BY MarkingIs
<1> QED BY <1>1, MarkingSteps

\* The objects themselves are reached, and a closed set around them has all
\* that can be.
LEMMA ReachedBetween ==
    ASSUME NEW m, m.next \in Nat, NEW objects, NEW C, objects \subseteq C, Closed(m, C)
    PROVE  objects \subseteq Reached(m, objects) /\ Reached(m, objects) \subseteq C
<1> DEFINE sets == MarkSets(m, objects)
<1>1. PICK f : /\ Reached(m, objects) = f[m.next][objects]
               /\ \A n \in 0 .. m.next, marked \in sets :
                     Ends(f, m, objects, n, marked) /\ Blackened(m, marked) \in sets
  BY ReachedTrace
<1> DEFINE Good(n) == \A marked \in sets :
                          marked \subseteq C => marked \subseteq f[n][marked] /\ f[n][marked] \subseteq C
           S == {n \in Nat : Good(n)}
<1> HIDE DEF sets
<1>2. 0 \in S
  <2>1. \A marked \in sets : f[0][marked] = marked
    BY <1>1 DEF Ends
  <2> QED BY <2>1
<1>3. ASSUME NEW n \in 0 .. (m.next - 1), n \in S PROVE n + 1 \in S
  <2> SUFFICES ASSUME NEW marked \in sets, marked \subseteq C
               PROVE  marked \subseteq f[n + 1][marked] /\ f[n + 1][marked] \subseteq C
    OBVIOUS
  <2>1. /\ n + 1 \in 0 .. m.next /\ n + 1 # 0 /\ (n + 1) - 1 = n
        /\ Ends(f, m, objects, n + 1, marked) /\ Blackened(m, marked) \in sets
    BY <1>1
  <2>2. marked \subseteq Blackened(m, marked) /\ Blackened(m, marked) \subseteq C
    BY DEF Blackened, Closed
  <2>3. CASE Blackened(m, marked) = marked
    BY <2>1, <2>3 DEF Ends
  <2>4. CASE Blackened(m, marked) # marked
    <3>1. f[n + 1][marked] = f[n][Blackened(m, marked)]
      BY <2>1, <2>4 DEF Ends
    <3> QED BY <1>3, <2>1, <2>2, <3>1
  <2> QED BY <2>3, <2>4
<1>4. m.next \in S
  <2> HIDE DEF S
  <2>1. \A n \in 0 .. m.next : n \in S
    BY <1>2, <1>3, UpTo
  <2> QED BY <2>1
<1>5. objects \in sets
  BY DEF sets, MarkSets
<1> QED BY <1>1, <1>4, <1>5

LEMMA ReachedRoots ==
    ASSUME NEW m, m.next \in Nat, NEW objects
    PROVE  objects \subseteq Reached(m, objects)
<1> DEFINE C == objects \cup UNION {Pointees(m, a) : a \in DOMAIN m.heap}
<1>1. Closed(m, C)
  BY DEF Closed, Pointees
<1> HIDE DEF C
<1>2. objects \subseteq C
  BY DEF C
<1> QED BY <1>1, <1>2, ReachedBetween

LEMMA ReachedLeast ==
    ASSUME NEW m, m.next \in Nat, NEW objects, NEW C, objects \subseteq C, Closed(m, C)
    PROVE  Reached(m, objects) \subseteq C
BY ReachedBetween

\* What can be reached is closed: there are generations enough for the heap.
LEMMA ReachedClosed ==
    ASSUME NEW m, m.next \in Nat, DOMAIN m.heap \subseteq 1 .. (m.next - 1), NEW objects
    PROVE  Closed(m, Reached(m, objects))
<1> DEFINE H == DOMAIN m.heap
           sets == MarkSets(m, objects)
           Left(marked) == Cardinality(H \ marked)
           Stable(marked) == Blackened(m, marked) = marked
<1>1. PICK f : /\ Reached(m, objects) = f[m.next][objects]
               /\ \A n \in 0 .. m.next, marked \in sets :
                     Ends(f, m, objects, n, marked) /\ Blackened(m, marked) \in sets
  BY ReachedTrace
<1> HIDE DEF sets
<1>2. IsFiniteSet(H) /\ Cardinality(H) \in Nat /\ (m.next > 0 => Cardinality(H) < m.next)
  <2>1. /\ IsFiniteSet(1 .. (m.next - 1))
        /\ m.next > 0 => Cardinality(1 .. (m.next - 1)) < m.next
    <3> DEFINE k == m.next - 1
    <3>1. k \in Int /\ k + 1 = m.next /\ 1 \in Int
      OBVIOUS
    <3> HIDE DEF k
    <3>2. IsFiniteSet(1 .. k) /\ Cardinality(1 .. k) = IF 1 > k THEN 0 ELSE k - 1 + 1
      BY <3>1, FS_Interval
    <3>3. IsFiniteSet(1 .. k) /\ (k + 1 > 0 => Cardinality(1 .. k) < k + 1)
      BY <3>1, <3>2
    <3> QED BY <3>1, <3>3 DEF k
  <2>2. Cardinality(H) <= Cardinality(1 .. (m.next - 1)) /\ IsFiniteSet(H)
    BY <2>1, FS_Subset
  <2>3. Cardinality(H) \in Nat /\ Cardinality(1 .. (m.next - 1)) \in Nat
    BY <2>1, <2>2, FS_CardinalityType
  <2> QED BY <2>1, <2>2, <2>3
<1>3. \A X : X \subseteq H => IsFiniteSet(X) /\ Cardinality(X) \in Nat /\ Cardinality(X) <= Cardinality(H)
  BY <1>2, FS_Subset, FS_CardinalityType
<1>4. \A a : a \notin H => Pointees(m, a) = {}
  BY DEF Pointees
<1> DEFINE Enough(n) == \A marked \in sets : Left(marked) < n => Stable(f[n][marked])
           S == {n \in Nat : Enough(n)}
<1>5. 0 \in S
  <2>1. \A marked \in sets : Left(marked) \in Nat
    BY <1>3
  <2> HIDE DEF Left
  <2> QED BY <2>1
<1>6. ASSUME NEW n \in 0 .. (m.next - 1), n \in S PROVE n + 1 \in S
  <2> SUFFICES ASSUME NEW marked \in sets, Left(marked) < n + 1
               PROVE  Stable(f[n + 1][marked])
    OBVIOUS
  <2> DEFINE more == Blackened(m, marked)
  <2>1. /\ n + 1 \in 0 .. m.next /\ n + 1 # 0 /\ (n + 1) - 1 = n /\ n \in 0 .. m.next
        /\ Ends(f, m, objects, n + 1, marked) /\ more \in sets
    BY <1>1
  <2>2. CASE Stable(marked)
    BY <2>1, <2>2 DEF Ends
  <2>3. ASSUME ~Stable(marked) PROVE Stable(f[n + 1][marked])
    <3>1. f[n + 1][marked] = f[n][more]
      BY <2>1, <2>3 DEF Ends
    <3>2. marked \subseteq more
      BY DEF Blackened
    <3>3. CASE more \cap H \subseteq marked
      <4>1. Stable(more)
        BY <1>4, <3>3 DEF Blackened
      <4>2. Ends(f, m, objects, n, more)
        BY <1>1, <2>1
      <4>3. f[n][more] = more
        BY <4>1, <4>2 DEF Ends
      <4> QED BY <3>1, <4>1, <4>3
    <3>4. ASSUME NEW b \in more \cap H, b \notin marked PROVE Stable(f[n][more])
      <4> HIDE DEF more
      <4> DEFINE X == H \ more
                 Y == H \ marked
      <4>1. b \notin X /\ b \in Y /\ X \cup {b} \subseteq Y
        BY <3>2, <3>4
      <4>2. IsFiniteSet(X) /\ IsFiniteSet(Y) /\ Cardinality(X) \in Nat /\ Cardinality(Y) \in Nat
        BY <1>3
      <4>3. Cardinality(X \cup {b}) = Cardinality(X) + 1 /\ Cardinality(X \cup {b}) <= Cardinality(Y)
        <5> HIDE DEF X, Y
        <5> QED BY <4>1, <4>2, FS_AddElement, FS_Subset
      <4>4. Left(more) < n
        <5>1. Cardinality(Y) < n + 1
          OBVIOUS
        <5>2. Cardinality(X) < n
          <6> DEFINE x == Cardinality(X)
                     y == Cardinality(Y)
          <6>1. x \in Nat /\ y \in Nat /\ x + 1 <= y /\ y < n + 1
            BY <4>2, <4>3, <5>1
          <6> HIDE DEF x, y
          <6>2. x < n
            BY <6>1
          <6> QED BY <6>2 DEF x
        <5> QED BY <5>2
      <4> HIDE DEF Left, Stable
      <4> QED BY <1>6, <2>1, <4>4
    <3> HIDE DEF Stable
    <3> QED BY <3>1, <3>3, <3>4
  <2> HIDE DEF Stable
  <2> QED BY <2>2, <2>3
<1>7. Enough(m.next)
  <2> HIDE DEF Enough
  <2>1. \A n \in 0 .. m.next : n \in S
    <3> HIDE DEF S
    <3> QED BY <1>5, <1>6, UpTo
  <2> QED BY <2>1
<1>8. objects \in sets
  BY DEF sets, MarkSets
<1>9. Stable(f[m.next][objects])
  <2>1. CASE m.next > 0
    <3>1. Left(objects) < m.next
      <4> DEFINE l == Left(objects)
                 h == Cardinality(H)
      <4>1. l \in Nat /\ h \in Nat /\ l <= h /\ h < m.next
        BY <1>2, <1>3, <2>1
      <4> HIDE DEF l, h
      <4>2. l < m.next
        BY <4>1
      <4> QED BY <4>2 DEF l
    <3> HIDE DEF Left, Stable
    <3> QED BY <1>7, <1>8, <3>1
  <2>2. CASE m.next = 0
    <3>1. H = {}
      BY <2>2
    <3>2. \A marked : Stable(marked)
      BY <1>4, <3>1 DEF Blackened
    <3> QED BY <3>2
  <2> QED BY <2>1, <2>2
<1> QED BY <1>1, <1>9 DEF Blackened, Closed

-----------------------------------------------------------------------------
(* Sound machines, part by part. *)

\* A frame whose values are there, and whose function has its bytecode.
FrameFits(scope, m, f) == FrameSound(m, f) /\ Live(scope, m, f.env) /\ Live(scope, m, f.func)

Parts(scope, m) ==
    /\ DOMAIN m = MachineFields
    /\ m.next \in Nat /\ DOMAIN m.heap \subseteq 1 .. (m.next - 1)
    /\ m.codes = scope.codes
    /\ scope.garbage \cup DOMAIN scope.objects \subseteq 1 .. (m.next - 1)
    /\ IsStack(m.stack) /\ IsStack(m.temp_roots) /\ IsStack(m.call_stack)
    /\ m.forbid \in Nat /\ m.error_count \in Nat
    /\ \A a \in Addressed(scope, m) : ObjectSound(scope, m, m.heap[a])
    /\ \A a \in Addressed(scope, m) \cap DOMAIN scope.objects :
          Permanent(m.heap[a]) = scope.objects[a]
    /\ Live(scope, m, GlobalEnv) /\ Live(scope, m, MacroEnv)
    /\ Live(scope, m, m.env) /\ KindOf(m, m.env) = "env"
    /\ \A v \in Range(m.stack) : Live(scope, m, v)
    /\ \A v \in Range(m.temp_roots) : Live(scope, m, v)
    /\ \A f \in Range(m.call_stack) : FrameFits(scope, m, f)

\* Sound, with the roots one by one.
LEMMA SoundParts == \A scope, m : SoundIn(scope, m) <=> Parts(scope, m)
<1> TAKE scope, m
<1>1. (\A v \in RootValues(m) : Live(scope, m, v)) <=>
        /\ Live(scope, m, GlobalEnv) /\ Live(scope, m, MacroEnv) /\ Live(scope, m, m.env)
        /\ \A v \in Range(m.stack) : Live(scope, m, v)
        /\ \A v \in Range(m.temp_roots) : Live(scope, m, v)
        /\ \A f \in Range(m.call_stack) : Live(scope, m, f.env) /\ Live(scope, m, f.func)
  BY DEF RootValues
<1> QED BY <1>1 DEF SoundIn, Parts, FrameFits

\* What does not depend on the heap.
LEMMA SoundIs ==
    \A scope, m : SoundIn(scope, m) =>
        /\ DOMAIN m = MachineFields /\ m.next \in Nat /\ m.codes = scope.codes
        /\ IsStack(m.stack) /\ IsStack(m.temp_roots) /\ IsStack(m.call_stack)
        /\ m.forbid \in Nat /\ m.error_count \in Nat
BY DEF SoundIn

LEMMA Atoms == \A scope, m, x : /\ Live(scope, m, Nil) /\ Live(scope, m, T) /\ Live(scope, m, Num(x))
                         /\ ~IsRef(Nil) /\ ~IsRef(T) /\ ~IsRef(Num(x))
BY DEF Live, Nil, T, Num, IsRef

LEMMA Refs == \A a : IsRef(Ref(a)) /\ Ref(a)[2] = a
BY DEF IsRef, Ref

\* A value of a kind that only objects have.
LEMMA ObjectKind ==
    ASSUME NEW scope, NEW m, NEW v, Live(scope, m, v), KindOf(m, v) \in {"cons", "symb", "bind", "env", "func"}
    PROVE  /\ IsRef(v) /\ v[2] \in DOMAIN m.heap /\ v[2] \in Addressed(scope, m)
           /\ KindOf(m, v) = m.heap[v[2]].kind /\ At(m, v) = m.heap[v[2]]
BY DEF Live, KindOf, At, Addressed

\* The machines differ in the fields F only.
Changes(m, n, F) == DOMAIN n = MachineFields /\ \A f \in MachineFields \ F : n[f] = m[f]

LEMMA ChangesThen ==
    ASSUME NEW m, NEW n, NEW p, NEW F, NEW G, Changes(m, n, F), Changes(n, p, G)
    PROVE  Changes(m, p, F \cup G)
BY DEF Changes

LEMMA PushTempIs ==
    ASSUME NEW m, DOMAIN m = MachineFields, NEW v
    PROVE  Changes(m, PushTemp(m, v), {"temp_roots"}) /\ PushTemp(m, v).temp_roots = Append(m.temp_roots, v)
BY DEF Changes, PushTemp, MachineFields

LEMMA PopTempIs ==
    ASSUME NEW m, DOMAIN m = MachineFields
    PROVE  Changes(m, PopTemp(m), {"temp_roots"}) /\ PopTemp(m).temp_roots = Front(m.temp_roots)
BY DEF Changes, PopTemp, MachineFields

LEMMA AbortIs ==
    ASSUME NEW m, DOMAIN m = MachineFields
    PROVE  /\ Changes(m, Abort(m), {"aborted", "running"})
           /\ Abort(m).aborted = TRUE /\ Abort(m).running = FALSE
BY DEF Changes, Abort, MachineFields

LEMMA PlaceIs ==
    ASSUME NEW m, DOMAIN m = MachineFields, NEW o
    PROVE  /\ Changes(m, Place(m, o), {"heap", "next"})
           /\ Place(m, o).heap = With(m.heap, [a \in {m.next} |-> o]) /\ Place(m, o).next = m.next + 1
BY DEF Changes, Place, MachineFields

LEMMA CollectedIs ==
    ASSUME NEW m, DOMAIN m = MachineFields
    PROVE  /\ Changes(m, Collected(m), {"heap"})
           /\ Collected(m).heap = Restrict(m.heap, Rooted(m) \cap DOMAIN m.heap)
BY DEF Changes, Collected, MachineFields

-----------------------------------------------------------------------------
(* What the roots hold. *)

\* No object that is there refers to one that is not.
LEMMA SoundClosed ==
    ASSUME NEW scope, NEW m, SoundIn(scope, m)
    PROVE  Closed(m, Addressed(scope, m))
<1> SUFFICES ASSUME NEW a \in Addressed(scope, m), NEW b \in Pointees(m, a) PROVE b \in Addressed(scope, m)
  BY DEF Closed
<1>1. PICK v \in References(m, m.heap[a]) : IsRef(v) /\ b = v[2]
  BY DEF Pointees, Addresses
<1>2. Live(scope, m, v)
  BY <1>1 DEF SoundIn, ObjectSound
<1> QED BY <1>1, <1>2 DEF Live, Addressed

\* In a sound machine nothing that is rooted dangles.
LEMMA RootedIs ==
    ASSUME NEW scope, NEW m, SoundIn(scope, m)
    PROVE  /\ Roots(m) \subseteq Rooted(m) /\ Closed(m, Rooted(m))
           /\ Rooted(m) \subseteq Addressed(scope, m) /\ Rooted(m) \subseteq DOMAIN m.heap
<1>1. m.next \in Nat /\ DOMAIN m.heap \subseteq 1 .. (m.next - 1)
  BY DEF SoundIn
<1>2. Roots(m) \subseteq Addressed(scope, m) /\ Addressed(scope, m) \subseteq DOMAIN m.heap
  BY DEF SoundIn, Roots, Addresses, Live, Addressed
<1>3. Roots(m) \subseteq Rooted(m)
  BY <1>1, ReachedRoots DEF Rooted
<1>4. Closed(m, Rooted(m))
  BY <1>1, ReachedClosed DEF Rooted
<1>5. Rooted(m) \subseteq Addressed(scope, m)
  <2> DEFINE C == Addressed(scope, m)
  <2>1. Roots(m) \subseteq C /\ Closed(m, C) /\ C \subseteq 1 .. (m.next - 1)
    BY <1>1, <1>2, SoundClosed
  <2> HIDE DEF C
  <2>2. Rooted(m) \subseteq C
    BY <1>1, <2>1, ReachedLeast DEF Rooted
  <2> QED BY <2>2 DEF C
<1> QED BY <1>2, <1>3, <1>4, <1>5

\* What is rooted lies in every closed set around the roots.
LEMMA RootedWithin ==
    ASSUME NEW m, m.next \in Nat, NEW C, Roots(m) \subseteq C, Closed(m, C)
    PROVE  Rooted(m) \subseteq C
BY ReachedLeast DEF Rooted

\* A value that no collection frees.
Held(scope, m, v) == Live(scope, m, v) /\ Within(v, Rooted(m))

LEMMA HeldAtoms == \A scope, m, x : Held(scope, m, Nil) /\ Held(scope, m, T) /\ Held(scope, m, Num(x))
BY Atoms DEF Held, Within

\* A root is held.
LEMMA HeldRoots ==
    ASSUME NEW scope, NEW m, SoundIn(scope, m), NEW v \in RootValues(m)
    PROVE  Held(scope, m, v)
<1>1. Live(scope, m, v) /\ Roots(m) \subseteq Rooted(m)
  BY RootedIs DEF SoundIn
<1> QED BY <1>1 DEF Held, Within, Roots, Addresses

\* What is held holds what it refers to.
LEMMA HeldField ==
    ASSUME NEW scope, NEW m, SoundIn(scope, m), NEW v, Held(scope, m, v), IsRef(v), NEW w \in References(m, At(m, v))
    PROVE  Held(scope, m, w)
<1>1. v[2] \in Rooted(m) /\ v[2] \in DOMAIN m.heap /\ v[2] \in Addressed(scope, m) /\ At(m, v) = m.heap[v[2]]
  BY DEF Held, Within, Live, At, Addressed
<1>2. Live(scope, m, w)
  BY <1>1 DEF SoundIn, ObjectSound
<1>3. Pointees(m, v[2]) \subseteq Rooted(m)
  BY <1>1, RootedIs DEF Closed
<1>4. IsRef(w) => w[2] \in Pointees(m, v[2])
  BY <1>1 DEF Pointees, Addresses
<1> QED BY <1>2, <1>3, <1>4 DEF Held, Within

\* The fields of a cons.
LEMMA ConsFields ==
    ASSUME NEW scope, NEW m, SoundIn(scope, m), NEW v, Live(scope, m, v), IsCons(m, v)
    PROVE  /\ IsRef(v) /\ v[2] \in DOMAIN m.heap /\ v[2] \in Addressed(scope, m)
           /\ At(m, v) = m.heap[v[2]] /\ m.heap[v[2]].kind = "cons"
           /\ DOMAIN m.heap[v[2]] = {"kind", "car", "cdr"}
           /\ References(m, At(m, v)) = {At(m, v).car, At(m, v).cdr}
           /\ Live(scope, m, At(m, v).car) /\ Live(scope, m, At(m, v).cdr)
           /\ Held(scope, m, v) => Held(scope, m, At(m, v).car) /\ Held(scope, m, At(m, v).cdr)
<1>1. /\ IsRef(v) /\ v[2] \in DOMAIN m.heap /\ v[2] \in Addressed(scope, m)
      /\ At(m, v) = m.heap[v[2]] /\ m.heap[v[2]].kind = "cons"
  BY ObjectKind DEF IsCons
<1>2. References(m, At(m, v)) = {At(m, v).car, At(m, v).cdr}
  BY <1>1 DEF References
<1>3. ObjectSound(scope, m, m.heap[v[2]])
  BY <1>1 DEF SoundIn
<1>4. DOMAIN m.heap[v[2]] = {"kind"} \cup ObjectFields.cons
  BY <1>1, <1>3 DEF ObjectSound
<1>5. DOMAIN m.heap[v[2]] = {"kind", "car", "cdr"}
  BY <1>4 DEF ObjectFields
<1>6. Live(scope, m, At(m, v).car) /\ Live(scope, m, At(m, v).cdr)
  BY <1>1, <1>2, <1>3 DEF ObjectSound
<1>7. Held(scope, m, v) => Held(scope, m, At(m, v).car) /\ Held(scope, m, At(m, v).cdr)
  BY <1>1, <1>2, HeldField
<1> QED BY <1>1, <1>2, <1>5, <1>6, <1>7

LEMMA EnvFields ==
    ASSUME NEW scope, NEW m, SoundIn(scope, m), NEW v, Live(scope, m, v), KindOf(m, v) = "env"
    PROVE  /\ IsRef(v) /\ v[2] \in DOMAIN m.heap /\ v[2] \in Addressed(scope, m)
           /\ At(m, v) = m.heap[v[2]] /\ m.heap[v[2]].kind = "env"
           /\ DOMAIN m.heap[v[2]] = {"kind", "vars", "up"}
           /\ References(m, At(m, v)) = {At(m, v).vars, At(m, v).up}
           /\ Live(scope, m, At(m, v).vars) /\ Live(scope, m, At(m, v).up)
           /\ Held(scope, m, v) => Held(scope, m, At(m, v).vars) /\ Held(scope, m, At(m, v).up)
<1>1. /\ IsRef(v) /\ v[2] \in DOMAIN m.heap /\ v[2] \in Addressed(scope, m)
      /\ At(m, v) = m.heap[v[2]] /\ m.heap[v[2]].kind = "env"
  BY ObjectKind
<1>2. References(m, At(m, v)) = {At(m, v).vars, At(m, v).up}
  BY <1>1 DEF References
<1>3. ObjectSound(scope, m, m.heap[v[2]])
  BY <1>1 DEF SoundIn
<1>4. DOMAIN m.heap[v[2]] = {"kind"} \cup ObjectFields.env
  BY <1>1, <1>3 DEF ObjectSound
<1>5. DOMAIN m.heap[v[2]] = {"kind", "vars", "up"}
  BY <1>4 DEF ObjectFields
<1>6. Live(scope, m, At(m, v).vars) /\ Live(scope, m, At(m, v).up)
  BY <1>1, <1>2, <1>3 DEF ObjectSound
<1>7. Held(scope, m, v) => Held(scope, m, At(m, v).vars) /\ Held(scope, m, At(m, v).up)
  BY <1>1, <1>2, HeldField
<1> QED BY <1>1, <1>2, <1>5, <1>6, <1>7

LEMMA FuncFields ==
    ASSUME NEW scope, NEW m, SoundIn(scope, m), NEW v, Live(scope, m, v), KindOf(m, v) = "func"
    PROVE  /\ IsRef(v) /\ v[2] \in DOMAIN m.heap /\ v[2] \in Addressed(scope, m)
           /\ At(m, v) = m.heap[v[2]] /\ m.heap[v[2]].kind = "func"
           /\ DOMAIN m.heap[v[2]] = {"kind", "param_names", "bytecode", "env"}
           /\ References(m, At(m, v)) = {At(m, v).param_names, At(m, v).env}
                                        \cup Range(m.codes[At(m, v).bytecode].constant_pool)
           /\ \A w \in References(m, At(m, v)) : Live(scope, m, w)
           /\ At(m, v).bytecode \in scope.runnable
           /\ Held(scope, m, v) => \A w \in References(m, At(m, v)) : Held(scope, m, w)
<1>1. /\ IsRef(v) /\ v[2] \in DOMAIN m.heap /\ v[2] \in Addressed(scope, m)
      /\ At(m, v) = m.heap[v[2]] /\ m.heap[v[2]].kind = "func"
  BY ObjectKind
<1>2. References(m, At(m, v)) = {At(m, v).param_names, At(m, v).env}
                                \cup Range(m.codes[At(m, v).bytecode].constant_pool)
  BY <1>1 DEF References
<1>3. ObjectSound(scope, m, m.heap[v[2]])
  BY <1>1 DEF SoundIn
<1>4. DOMAIN m.heap[v[2]] = {"kind"} \cup ObjectFields.func
  BY <1>1, <1>3 DEF ObjectSound
<1>5. DOMAIN m.heap[v[2]] = {"kind", "param_names", "bytecode", "env"}
  BY <1>4 DEF ObjectFields
<1>6. At(m, v).bytecode \in scope.runnable /\ \A w \in References(m, At(m, v)) : Live(scope, m, w)
  BY <1>1, <1>3 DEF ObjectSound
<1>7. Held(scope, m, v) => \A w \in References(m, At(m, v)) : Held(scope, m, w)
  BY <1>1, HeldField
<1> QED BY <1>1, <1>2, <1>5, <1>6, <1>7

-----------------------------------------------------------------------------
(* Allocation. *)

\* An object is what it was, but for the variables of an environment.
SameObject(o, p) == p.kind = o.kind /\ (o.kind # "env" => p = o)

\* Of m, nothing that can be reached is lost in n, nor is what is popped.
Keeps(m, n) ==
    /\ Changes(m, n, {"heap", "next", "aborted", "running"})
    /\ \/ n.aborted = m.aborted /\ n.running = m.running
       \/ n.aborted = TRUE /\ n.running = FALSE
    /\ n.next \in Nat /\ m.next <= n.next
    /\ \A a \in Rooted(m) : a \in Rooted(n) /\ SameObject(m.heap[a], n.heap[a])

LEMMA KeepsSelf ==
    ASSUME NEW scope, NEW m, SoundIn(scope, m)
    PROVE  Keeps(m, m)
BY DEF Keeps, Changes, SoundIn, SameObject

LEMMA KeepsThen ==
    ASSUME NEW m, NEW n, NEW p, m.next \in Nat, Keeps(m, n), Keeps(n, p)
    PROVE  Keeps(m, p)
<1>1. Changes(m, p, {"heap", "next", "aborted", "running"})
  BY DEF Keeps, Changes
<1>2. p.next \in Nat /\ m.next <= p.next
  BY DEF Keeps
<1>3. \/ p.aborted = m.aborted /\ p.running = m.running
      \/ p.aborted = TRUE /\ p.running = FALSE
  BY DEF Keeps
<1>4. ASSUME NEW a \in Rooted(m) PROVE a \in Rooted(p) /\ SameObject(m.heap[a], p.heap[a])
  <2>1. a \in Rooted(n) /\ SameObject(m.heap[a], n.heap[a])
    BY DEF Keeps
  <2>2. a \in Rooted(p) /\ SameObject(n.heap[a], p.heap[a])
    BY <2>1 DEF Keeps
  <2> QED BY <2>1, <2>2 DEF SameObject
<1> QED BY <1>1, <1>2, <1>3, <1>4 DEF Keeps

\* What is held stays so.
LEMMA HeldKept ==
    ASSUME NEW scope, NEW m, NEW n, SoundIn(scope, m), SoundIn(scope, n), Keeps(m, n), NEW v, Held(scope, m, v)
    PROVE  /\ Held(scope, n, v) /\ KindOf(n, v) = KindOf(m, v)
           /\ IsRef(v) /\ KindOf(m, v) # "env" => At(n, v) = At(m, v)
<1>1. CASE IsRef(v)
  <2>1. v[2] \in Rooted(m)
    BY <1>1 DEF Held, Within
  <2>2. v[2] \in Rooted(n) /\ SameObject(m.heap[v[2]], n.heap[v[2]])
    BY <2>1 DEF Keeps
  <2>3. v[2] \in DOMAIN n.heap
    BY <2>2, RootedIs
  <2> QED BY <1>1, <2>2, <2>3 DEF Held, Within, Live, KindOf, At, SameObject
<1>2. CASE ~IsRef(v)
  BY <1>2 DEF Held, Within, Live, KindOf
<1> QED BY <1>1, <1>2

\* An object as it is allocated, of values that are held.
ObjectHeld(scope, m, o) ==
    /\ o.kind \in DOMAIN ObjectFields
    /\ DOMAIN o = {"kind"} \cup ObjectFields[o.kind]
    /\ o.kind = "func" => o.bytecode \in scope.runnable
    /\ \A v \in References(m, o) : Held(scope, m, v)

\* The machine n is m with an object more and, it may be, fewer others.
Allocated(scope, m, o, n) ==
    /\ Changes(m, n, {"heap", "next"}) /\ n.next = m.next + 1
    /\ \E H \in SUBSET DOMAIN m.heap :
          /\ Rooted(m) \subseteq H /\ Closed(m, H \ scope.garbage)
          /\ n.heap = [a \in H \cup {m.next} |-> IF a = m.next THEN o ELSE m.heap[a]]

\* hll_gc_alloc, with a collection or without.
LEMMA NewAllocates ==
    ASSUME NEW scope, NEW m, SoundIn(scope, m), NEW o, NEW n \in New(m, o)
    PROVE  Allocated(scope, m, o, n)
<1>0. DOMAIN m = MachineFields /\ m.next \notin DOMAIN m.heap
  BY DEF SoundIn
<1>1. CASE n = Place(m, o)
  <2>1. n.heap = With(m.heap, [a \in {m.next} |-> o])
    BY <1>0, <1>1, PlaceIs
  <2>2. n.heap = [a \in DOMAIN m.heap \cup {m.next} |-> IF a = m.next THEN o ELSE m.heap[a]]
    BY <1>0, <2>1 DEF With
  <2>3. Closed(m, DOMAIN m.heap \ scope.garbage) /\ Rooted(m) \subseteq DOMAIN m.heap
    BY SoundClosed, RootedIs DEF Addressed
  <2> QED BY <1>0, <1>1, <2>2, <2>3, PlaceIs DEF Allocated
<1>2. CASE n = Place(Collected(m), o)
  <2> DEFINE c == Collected(m)
  <2>1. Changes(m, c, {"heap"}) /\ c.heap = Restrict(m.heap, Rooted(m) \cap DOMAIN m.heap)
    BY <1>0, CollectedIs
  <2> HIDE DEF c
  <2>2. c.next = m.next /\ DOMAIN c = MachineFields
    BY <2>1 DEF Changes, MachineFields
  <2>3. n.heap = With(c.heap, [a \in {m.next} |-> o]) /\ n.next = m.next + 1 /\ Changes(c, n, {"heap", "next"})
    <3>1. n = Place(c, o)
      BY <1>2 DEF c
    <3>2. /\ Changes(c, Place(c, o), {"heap", "next"})
          /\ Place(c, o).heap = With(c.heap, [a \in {c.next} |-> o]) /\ Place(c, o).next = c.next + 1
      BY <2>2, PlaceIs
    <3> QED BY <2>2, <3>1, <3>2
  <2>4. Rooted(m) \subseteq DOMAIN m.heap /\ Closed(m, Rooted(m)) /\ Rooted(m) \ scope.garbage = Rooted(m)
    BY RootedIs DEF Addressed
  <2>5. c.heap = [a \in Rooted(m) |-> m.heap[a]]
    BY <2>1, <2>4 DEF Restrict
  <2>6. n.heap = [a \in Rooted(m) \cup {m.next} |-> IF a = m.next THEN o ELSE m.heap[a]]
    BY <1>0, <2>3, <2>4, <2>5 DEF With
  <2>7. Changes(m, n, {"heap", "next"})
    BY <2>1, <2>3 DEF Changes
  <2> QED BY <2>3, <2>4, <2>6, <2>7 DEF Allocated
<1> QED BY <1>1, <1>2 DEF New

\* An object made of values that are held leaves the machine sound and what is held held.
LEMMA AllocatedIs ==
    ASSUME NEW scope, NEW m, SoundIn(scope, m), NEW o, ObjectHeld(scope, m, o), NEW n, Allocated(scope, m, o, n)
    PROVE  /\ SoundIn(scope, n) /\ Keeps(m, n)
           /\ m.next \in DOMAIN n.heap /\ n.heap[m.next] = o /\ m.next \notin Rooted(m)
           /\ \A a \in Rooted(m) : n.heap[a] = m.heap[a]
           /\ n.aborted = m.aborted /\ n.running = m.running
           /\ Live(scope, n, Fresh(m)) /\ Changes(m, n, {"heap", "next"})
<1>1. PICK H \in SUBSET DOMAIN m.heap :
          /\ Rooted(m) \subseteq H /\ Closed(m, H \ scope.garbage)
          /\ n.heap = [a \in H \cup {m.next} |-> IF a = m.next THEN o ELSE m.heap[a]]
  BY DEF Allocated
<1>2. /\ DOMAIN n = MachineFields /\ n.next = m.next + 1 /\ n.codes = m.codes
      /\ n.stack = m.stack /\ n.temp_roots = m.temp_roots /\ n.call_stack = m.call_stack
      /\ n.forbid = m.forbid /\ n.error_count = m.error_count /\ n.env = m.env
      /\ n.aborted = m.aborted /\ n.running = m.running
  BY DEF Allocated, Changes, MachineFields
<1>3. Parts(scope, m)
  BY SoundParts
<1>4. /\ m.next \in Nat /\ m.next \notin H /\ m.next \notin DOMAIN m.heap
      /\ m.next \notin scope.garbage /\ m.next \notin DOMAIN scope.objects
  BY <1>3 DEF Parts
<1>5. DOMAIN n.heap = H \cup {m.next} /\ \A a \in H : n.heap[a] = m.heap[a]
  BY <1>1, <1>4
<1>6. n.heap[m.next] = o
  BY <1>1
<1>7. ASSUME NEW v, Live(scope, m, v), Within(v, H)
      PROVE  Live(scope, n, v) /\ KindOf(n, v) = KindOf(m, v) /\ (IsRef(v) => At(n, v) = At(m, v))
  BY <1>5, <1>7 DEF Live, Within, KindOf, At
<1>8. \A v : Held(scope, m, v) => Live(scope, n, v) /\ KindOf(n, v) = KindOf(m, v) /\ (IsRef(v) => At(n, v) = At(m, v))
  BY <1>1, <1>7 DEF Held, Within
<1>9. \A x : References(n, x) = References(m, x)
  BY <1>2 DEF References
<1>10. ASSUME NEW a \in Addressed(scope, n) PROVE ObjectSound(scope, n, n.heap[a])
  <2>1. CASE a = m.next
    BY <1>6, <1>8, <1>9, <2>1 DEF ObjectHeld, ObjectSound
  <2>2. CASE a \in H
    <3>1. ObjectSound(scope, m, m.heap[a]) /\ Pointees(m, a) \subseteq H
      <4>1. a \in Addressed(scope, m) /\ a \in H \ scope.garbage
        BY <1>1, <2>2 DEF Addressed
      <4> QED BY <1>1, <1>3, <4>1 DEF Parts, Closed
    <3>2. ASSUME NEW v \in References(m, m.heap[a]) PROVE Live(scope, n, v)
      <4>1. Live(scope, m, v)
        BY <3>1 DEF ObjectSound
      <4>2. Within(v, H)
        BY <1>1, <2>2, <3>1 DEF Pointees, Addresses, Within
      <4> QED BY <1>7, <4>1, <4>2
    <3> QED BY <1>5, <1>9, <2>2, <3>1, <3>2 DEF ObjectSound
  <2> QED BY <1>5, <2>1, <2>2 DEF Addressed
<1>11. \A v \in RootValues(m) : Held(scope, m, v)
  BY HeldRoots
<1>12. \A f \in Range(m.call_stack) : FrameFits(scope, n, f)
  <2> SUFFICES ASSUME NEW f \in Range(m.call_stack) PROVE FrameFits(scope, n, f)
    OBVIOUS
  <2>1. Held(scope, m, f.env) /\ Held(scope, m, f.func) /\ FrameFits(scope, m, f)
    BY <1>3, <1>11 DEF RootValues, Parts
  <2>2. IsRef(f.func) /\ IsRef(f.env)
    BY <2>1, ObjectKind DEF FrameFits, FrameSound
  <2> QED BY <1>8, <2>1, <2>2 DEF FrameFits, FrameSound
<1>13. Parts(scope, n)
  <2>1. /\ Live(scope, n, GlobalEnv) /\ Live(scope, n, MacroEnv)
        /\ Live(scope, n, n.env) /\ KindOf(n, n.env) = "env"
    <3>1. KindOf(m, m.env) = "env" /\ n.env = m.env /\ Held(scope, m, m.env)
      BY <1>2, <1>3, <1>11 DEF RootValues, Parts
    <3>2. IsRef(m.env)
      BY <3>1, ObjectKind DEF Held
    <3> QED BY <1>2, <1>8, <1>11, <3>1, <3>2 DEF RootValues
  <2>2. \A v \in Range(n.stack) \cup Range(n.temp_roots) : Live(scope, n, v)
    BY <1>2, <1>8, <1>11 DEF RootValues
  <2>3. /\ n.next \in Nat /\ DOMAIN n.heap \subseteq 1 .. (n.next - 1)
        /\ scope.garbage \cup DOMAIN scope.objects \subseteq 1 .. (n.next - 1)
    <3>1. m.next \in 1 .. m.next
      <4>1. GlobalEnv[2] \in DOMAIN m.heap
        BY <1>3 DEF Parts, Live, IsRef, GlobalEnv
      <4> QED BY <1>3, <4>1 DEF Parts
    <3> QED BY <1>1, <1>2, <1>3, <1>5, <3>1 DEF Parts
  <2>4. \A a \in Addressed(scope, n) \cap DOMAIN scope.objects : Permanent(n.heap[a]) = scope.objects[a]
    BY <1>3, <1>4, <1>5 DEF Parts, Addressed
  <2> QED BY <1>2, <1>3, <1>10, <1>12, <2>1, <2>2, <2>3, <2>4 DEF Parts
<1>14. SoundIn(scope, n)
  BY <1>13, SoundParts
<1>15. Rooted(m) \subseteq Rooted(n)
  <2> DEFINE C == Rooted(m) \cap Rooted(n)
  <2>1. Roots(m) = Roots(n)
    BY <1>2 DEF Roots, RootValues
  <2>2. Roots(m) \subseteq C
    BY <1>14, <2>1, RootedIs
  <2>3. ASSUME NEW a \in C PROVE Pointees(m, a) \subseteq C
    <3>1. Pointees(m, a) \subseteq Rooted(m) /\ Pointees(n, a) \subseteq Rooted(n)
      BY <1>14, RootedIs DEF Closed
    <3>2. a \in H /\ a \in DOMAIN m.heap
      BY <1>1, RootedIs
    <3>3. Pointees(n, a) = Pointees(m, a)
      BY <1>5, <1>9, <3>2 DEF Pointees
    <3> QED BY <3>1, <3>3
  <2> HIDE DEF C
  <2>4. Rooted(m) \subseteq C
    BY <1>4, <2>2, <2>3, RootedWithin DEF Closed
  <2> QED BY <2>4 DEF C
<1>16. \A a \in Rooted(m) : n.heap[a] = m.heap[a]
  BY <1>1, <1>5
<1>17. Keeps(m, n)
  <2>1. Changes(m, n, {"heap", "next", "aborted", "running"})
    BY DEF Allocated, Changes
  <2> QED BY <1>2, <1>4, <1>15, <1>16, <2>1 DEF Keeps, SameObject
<1>18. m.next \notin Rooted(m)
  BY <1>1, <1>4
<1>19. Live(scope, n, Fresh(m))
  BY <1>4, <1>5, Refs DEF Live, Fresh
<1>20. Changes(m, n, {"heap", "next"})
  BY DEF Allocated
<1> QED BY <1>2, <1>5, <1>6, <1>14, <1>16, <1>17, <1>18, <1>19, <1>20

-----------------------------------------------------------------------------
(* Lists and chains of environments. *)

\* The values of a sequence are within the set.
AllWithin(scope, m, C, s) == IsStack(s) /\ \A w \in Range(s) : Live(scope, m, w) /\ Within(w, C)

\* A walk from a closed set stays in it.
LEMMA AlongWithin ==
    ASSUME NEW scope, NEW m, SoundIn(scope, m), NEW C, C \subseteq Addressed(scope, m), Closed(m, C),
           NEW v, Live(scope, m, v), Within(v, C), NEW kind, NEW field,
           kind \in {"cons", "env"},
           \A w : Live(scope, m, w) /\ KindOf(m, w) = kind => At(m, w)[field] \in References(m, At(m, w))
    PROVE  /\ AllWithin(scope, m, C, Along(m, v, kind, field))
           /\ \A w \in Range(Along(m, v, kind, field)) : KindOf(m, w) = kind
<1>0. C \subseteq DOMAIN m.heap /\ C \cap scope.garbage = {}
  BY DEF Addressed
<1>1. m.next \in Nat
  BY DEF SoundIn
<1>2. PICK f : /\ AlongBuilt(f, m, kind, field, m.next)
               /\ Along(m, v, kind, field) = IF IsRef(v) THEN f[m.next][v[2]] ELSE <<>>
  BY <1>1, AlongIs
<1> DEFINE G == {w \in {Ref(a) : a \in C} : KindOf(m, w) = kind}
           Good(from) == \A a \in C : from[a] \in Seq(G)
           S == {n \in Nat : Good(f[n])}
<1>3. ASSUME NEW w, Live(scope, m, w), Within(w, C), KindOf(m, w) = kind
      PROVE  Live(scope, m, At(m, w)[field]) /\ Within(At(m, w)[field], C)
  <2>1. IsRef(w) /\ w[2] \in C /\ w[2] \in DOMAIN m.heap /\ At(m, w) = m.heap[w[2]]
    BY <1>3, ObjectKind DEF Within
  <2>2. ObjectSound(scope, m, At(m, w)) /\ At(m, w)[field] \in References(m, At(m, w))
    BY <1>3, <2>1 DEF SoundIn
  <2>3. Pointees(m, w[2]) \subseteq C
    BY <2>1 DEF Closed
  <2> QED BY <2>1, <2>2, <2>3 DEF ObjectSound, Pointees, Addresses, Within
<1>4. ASSUME NEW from, Good(from) PROVE Good(Longer(m, kind, field, from))
  <2> SUFFICES ASSUME NEW a \in C PROVE Longer(m, kind, field, from)[a] \in Seq(G)
    OBVIOUS
  <2>1. CASE m.heap[a].kind # kind
    <3>1. Longer(m, kind, field, from)[a] = <<>>
      BY <1>0, <2>1 DEF Longer
    <3> HIDE DEF G
    <3> QED BY <3>1
  <2>2. CASE m.heap[a].kind = kind
    <3> DEFINE w == m.heap[a][field]
               rest == IF IsRef(w) THEN from[w[2]] ELSE <<>>
    <3>1. IsRef(Ref(a)) /\ Ref(a)[2] = a /\ At(m, Ref(a)) = m.heap[a] /\ KindOf(m, Ref(a)) = kind
      BY <2>2 DEF IsRef, Ref, At, KindOf
    <3>2. Live(scope, m, Ref(a)) /\ Within(Ref(a), C)
      BY <1>0, <3>1 DEF Live, Within
    <3>3. Within(w, C)
      BY <1>3, <3>1, <3>2
    <3>4. Ref(a) \in G
      BY <3>1
    <3>5. Longer(m, kind, field, from)[a] = <<Ref(a)>> \o rest
      BY <1>0, <2>2 DEF Longer
    <3> HIDE DEF G, w
    <3>6. rest \in Seq(G)
      <4>1. CASE IsRef(w)
        BY <1>4, <3>3, <4>1 DEF Within
      <4>2. CASE ~IsRef(w)
        BY <4>2
      <4> QED BY <4>1, <4>2
    <3> HIDE DEF rest
    <3> QED BY <3>4, <3>5, <3>6
  <2> QED BY <2>1, <2>2
<1>5. /\ f[0] = [a \in DOMAIN m.heap |-> <<>>]
      /\ \A n \in 0 .. (m.next - 1) : f[n + 1] = Longer(m, kind, field, f[n])
  BY <1>1, <1>2 DEF AlongBuilt, NoneAlong
<1>6. 0 \in S
  <2> HIDE DEF G
  <2>1. ASSUME NEW a \in C PROVE f[0][a] \in Seq(G)
    <3>1. f[0][a] = <<>>
      BY <1>0, <1>5
    <3> QED BY <3>1
  <2> QED BY <2>1
<1>7. ASSUME NEW n \in 0 .. (m.next - 1), n \in S PROVE n + 1 \in S
  <2>1. Good(f[n + 1])
    <3> HIDE DEF Good
    <3> QED BY <1>4, <1>5, <1>7
  <2> QED BY <2>1
<1>8. \A n \in 0 .. m.next : n \in S
  <2> HIDE DEF S
  <2> QED BY <1>1, <1>6, <1>7, UpTo
<1>9. Along(m, v, kind, field) \in Seq(G)
  <2>1. Good(f[m.next])
    BY <1>1, <1>8
  <2> HIDE DEF G
  <2>2. CASE IsRef(v)
    BY <1>2, <2>1, <2>2 DEF Within
  <2>3. CASE ~IsRef(v)
    BY <1>2, <2>3
  <2> QED BY <2>2, <2>3
<1>10. IsStack(Along(m, v, kind, field)) /\ Range(Along(m, v, kind, field)) \subseteq G
  <2> HIDE DEF G
  <2> QED BY <1>9, StackIntro
<1>11. \A w \in G : Live(scope, m, w) /\ Within(w, C) /\ KindOf(m, w) = kind
  BY <1>0 DEF Ref, IsRef, Live, Within
<1> QED BY <1>10, <1>11 DEF AllWithin

LEMMA CellsWithin ==
    ASSUME NEW scope, NEW m, SoundIn(scope, m), NEW C, C \subseteq Addressed(scope, m), Closed(m, C),
           NEW v, Live(scope, m, v), Within(v, C)
    PROVE  AllWithin(scope, m, C, Cells(m, v)) /\ \A w \in Range(Cells(m, v)) : IsCons(m, w)
<1>1. \A w : Live(scope, m, w) /\ KindOf(m, w) = "cons" => At(m, w)["cdr"] \in References(m, At(m, w))
  BY ConsFields DEF IsCons
<1> QED BY <1>1, AlongWithin DEF Cells, IsCons

LEMMA EnvsWithin ==
    ASSUME NEW scope, NEW m, SoundIn(scope, m), NEW v, Live(scope, m, v)
    PROVE  /\ AllWithin(scope, m, Addressed(scope, m), Along(m, v, "env", "up"))
           /\ \A w \in Range(Along(m, v, "env", "up")) : KindOf(m, w) = "env"
<1>1. \A w : Live(scope, m, w) /\ KindOf(m, w) = "env" => At(m, w)["up"] \in References(m, At(m, w))
  BY EnvFields
<1>2. Within(v, Addressed(scope, m))
  BY DEF Live, Within, Addressed
<1> QED BY <1>1, <1>2, SoundClosed, AlongWithin

\* The lists that cells of a list are.
LEMMA CdrsWithin ==
    ASSUME NEW scope, NEW m, SoundIn(scope, m), NEW C, C \subseteq Addressed(scope, m), Closed(m, C),
           NEW v, Live(scope, m, v), Within(v, C)
    PROVE  /\ AllWithin(scope, m, C, Cdrs(m, v)) /\ Len(Cdrs(m, v)) \in Nat \ {0}
           /\ \A i \in 1 .. Len(Cdrs(m, v)) : Live(scope, m, Cdrs(m, v)[i]) /\ Within(Cdrs(m, v)[i], C)
           /\ \A i \in 1 .. (Len(Cdrs(m, v)) - 1) : IsCons(m, Cdrs(m, v)[i])
           /\ Last(Cdrs(m, v)) = Cdrs(m, v)[Len(Cdrs(m, v))]
<1> DEFINE cells == Cells(m, v)
           w == IF cells = <<>> THEN v ELSE At(m, Last(cells)).cdr
           cdrs == Append(cells, w)
<1>1. Cdrs(m, v) = cdrs
  BY DEF Cdrs
<1>2. AllWithin(scope, m, C, cells) /\ \A x \in Range(cells) : IsCons(m, x)
  BY CellsWithin
<1> HIDE DEF cells
<1>3. Live(scope, m, w) /\ Within(w, C)
  <2>1. CASE cells = <<>>
    BY <2>1
  <2>2. CASE cells # <<>>
    <3>1. Len(cells) > 0
      BY <1>2, <2>2 DEF AllWithin, IsStack
    <3>2. Last(cells) \in Range(cells)
      BY <1>2, <3>1, StackPop DEF AllWithin
    <3> DEFINE x == Last(cells)
    <3>3. Live(scope, m, x) /\ Within(x, C) /\ IsCons(m, x)
      BY <1>2, <3>2 DEF AllWithin
    <3> HIDE DEF x
    <3>4. Live(scope, m, At(m, x).cdr) /\ IsRef(x) /\ x[2] \in C /\ x[2] \in DOMAIN m.heap
          /\ At(m, x).cdr \in References(m, m.heap[x[2]])
      BY <3>3, ConsFields DEF Within
    <3>5. Within(At(m, x).cdr, C)
      BY <3>4 DEF Closed, Pointees, Addresses, Within
    <3> QED BY <2>2, <3>4, <3>5 DEF x
  <2> QED BY <2>1, <2>2
<1> HIDE DEF w
<1>4. /\ IsStack(cdrs) /\ Range(cdrs) = Range(cells) \cup {w} /\ Len(cdrs) = Len(cells) + 1
  BY <1>2, StackPush DEF AllWithin
<1>5. /\ Len(cells) \in Nat /\ \A i \in 1 .. Len(cells) : cells[i] \in Range(cells) /\ cdrs[i] = cells[i]
  BY <1>2 DEF AllWithin, IsStack
<1>6. AllWithin(scope, m, C, cdrs)
  BY <1>2, <1>3, <1>4 DEF AllWithin
<1>7. \A i \in 1 .. Len(cdrs) : cdrs[i] \in Range(cdrs)
  BY <1>4 DEF IsStack
<1> HIDE DEF cdrs
<1>8. Len(cdrs) \in Nat \ {0}
  BY <1>4, <1>5
<1>9. \A i \in 1 .. Len(cdrs) : Live(scope, m, cdrs[i]) /\ Within(cdrs[i], C)
  BY <1>6, <1>7 DEF AllWithin
<1>10. \A i \in 1 .. (Len(cdrs) - 1) : IsCons(m, cdrs[i])
  BY <1>2, <1>4, <1>5
<1>11. Last(cdrs) = cdrs[Len(cdrs)]
  BY DEF Last
<1> QED BY <1>1, <1>6, <1>8, <1>9, <1>10, <1>11

-----------------------------------------------------------------------------
(* Steps that allocate nothing. *)

\* Nothing is lost when the roots of one machine are held by another.
LEMMA RootedMore ==
    ASSUME NEW scope, NEW m, NEW n, SoundIn(scope, m), SoundIn(scope, n), n.heap = m.heap, n.codes = m.codes,
           \A v \in RootValues(m) : Within(v, Rooted(n))
    PROVE  /\ Rooted(m) \subseteq Rooted(n)
           /\ \A v : Held(scope, m, v) => Held(scope, n, v)
<1>1. Roots(m) \subseteq Rooted(n)
  BY DEF Roots, Addresses, Within
<1>2. \A a : Pointees(m, a) = Pointees(n, a)
  BY DEF Pointees, References
<1>3. Closed(m, Rooted(n))
  BY <1>2, RootedIs DEF Closed
<1>4. m.next \in Nat
  BY DEF SoundIn
<1>5. Rooted(m) \subseteq Rooted(n)
  <2> DEFINE C == Rooted(n)
  <2>1. Roots(m) \subseteq C /\ Closed(m, C)
    BY <1>1, <1>3
  <2> HIDE DEF C
  <2>2. Rooted(m) \subseteq C
    BY <1>4, <2>1, RootedWithin
  <2> QED BY <2>2 DEF C
<1> QED BY <1>5 DEF Held, Within, Live

\* A temp root holds its value.
LEMMA PushTempSound ==
    ASSUME NEW scope, NEW m, SoundIn(scope, m), NEW v, Live(scope, m, v)
    PROVE  /\ SoundIn(scope, PushTemp(m, v)) /\ Held(scope, PushTemp(m, v), v)
           /\ Rooted(m) \subseteq Rooted(PushTemp(m, v))
           /\ \A w : Held(scope, m, w) => Held(scope, PushTemp(m, v), w)
           /\ \A w : At(PushTemp(m, v), w) = At(m, w) /\ KindOf(PushTemp(m, v), w) = KindOf(m, w)
<1> DEFINE n == PushTemp(m, v)
<1>1. Parts(scope, m)
  BY SoundParts
<1>2. Changes(m, n, {"temp_roots"}) /\ n.temp_roots = Append(m.temp_roots, v)
  BY <1>1, PushTempIs DEF Parts
<1> HIDE DEF n
<1>3. IsStack(n.temp_roots) /\ Range(n.temp_roots) = Range(m.temp_roots) \cup {v}
  BY <1>1, <1>2, StackPush DEF Parts
<1>4. /\ DOMAIN n = MachineFields /\ n.next = m.next /\ n.codes = m.codes /\ n.heap = m.heap
      /\ n.stack = m.stack /\ n.call_stack = m.call_stack
      /\ n.forbid = m.forbid /\ n.error_count = m.error_count /\ n.env = m.env
  BY <1>2 DEF Changes, MachineFields
<1>5. \A w : (Live(scope, n, w) <=> Live(scope, m, w)) /\ KindOf(n, w) = KindOf(m, w) /\ At(n, w) = At(m, w)
  BY <1>4 DEF Live, KindOf, At
<1>6. \A o : ObjectSound(scope, n, o) <=> ObjectSound(scope, m, o)
  BY <1>4, <1>5 DEF ObjectSound, References
<1>7. \A f : FrameFits(scope, n, f) <=> FrameFits(scope, m, f)
  BY <1>5 DEF FrameFits, FrameSound
<1>8. Parts(scope, n)
  BY <1>1, <1>3, <1>4, <1>5, <1>6, <1>7 DEF Parts, Addressed
<1>9. SoundIn(scope, n)
  BY <1>8, SoundParts
<1>10. \A w \in RootValues(m) : w \in RootValues(n)
  BY <1>3, <1>4 DEF RootValues
<1>11. \A w \in RootValues(m) : Within(w, Rooted(n))
  BY <1>9, <1>10, HeldRoots DEF Held
<1>12. v \in RootValues(n)
  BY <1>3 DEF RootValues
<1>13. Held(scope, n, v)
  BY <1>9, <1>12, HeldRoots
<1>14. Rooted(m) \subseteq Rooted(n) /\ \A w : Held(scope, m, w) => Held(scope, n, w)
  BY <1>4, <1>9, <1>11, RootedMore
<1> QED BY <1>5, <1>9, <1>13, <1>14 DEF n

LEMMA PopTempSound ==
    ASSUME NEW scope, NEW m, SoundIn(scope, m)
    PROVE  SoundIn(scope, PopTemp(m))
<1> DEFINE n == PopTemp(m)
<1>1. Parts(scope, m)
  BY SoundParts
<1>2. Changes(m, n, {"temp_roots"}) /\ n.temp_roots = Front(m.temp_roots)
  BY <1>1, PopTempIs DEF Parts
<1> HIDE DEF n
<1>3. IsStack(n.temp_roots) /\ Range(n.temp_roots) \subseteq Range(m.temp_roots)
  BY <1>1, <1>2, StackPop DEF Parts
<1>4. /\ DOMAIN n = MachineFields /\ n.next = m.next /\ n.codes = m.codes /\ n.heap = m.heap
      /\ n.stack = m.stack /\ n.call_stack = m.call_stack
      /\ n.forbid = m.forbid /\ n.error_count = m.error_count /\ n.env = m.env
  BY <1>2 DEF Changes, MachineFields
<1>5. \A w : (Live(scope, n, w) <=> Live(scope, m, w)) /\ KindOf(n, w) = KindOf(m, w) /\ At(n, w) = At(m, w)
  BY <1>4 DEF Live, KindOf, At
<1>6. \A o : ObjectSound(scope, n, o) <=> ObjectSound(scope, m, o)
  BY <1>4, <1>5 DEF ObjectSound, References
<1>7. \A f : FrameFits(scope, n, f) <=> FrameFits(scope, m, f)
  BY <1>5 DEF FrameFits, FrameSound
<1>8. Parts(scope, n)
  BY <1>1, <1>3, <1>4, <1>5, <1>6, <1>7 DEF Parts, Addressed
<1> QED BY <1>8, SoundParts DEF n

\* Nothing that the heap and the roots are made of differs.
LEMMA SoundAlike ==
    ASSUME NEW scope, NEW m, SoundIn(scope, m), NEW n, DOMAIN n = MachineFields,
           n.next = m.next, n.codes = m.codes, n.heap = m.heap,
           n.stack = m.stack, n.call_stack = m.call_stack, n.env = m.env,
           n.temp_roots = m.temp_roots, n.forbid \in Nat, n.error_count \in Nat
    PROVE  SoundIn(scope, n) /\ Rooted(m) \subseteq Rooted(n)
<1>1. Parts(scope, m)
  BY SoundParts
<1>2. \A w : (Live(scope, n, w) <=> Live(scope, m, w)) /\ KindOf(n, w) = KindOf(m, w) /\ At(n, w) = At(m, w)
  BY DEF Live, KindOf, At
<1>3. \A o : ObjectSound(scope, n, o) <=> ObjectSound(scope, m, o)
  BY <1>2 DEF ObjectSound, References
<1>4. \A f : FrameFits(scope, n, f) <=> FrameFits(scope, m, f)
  BY <1>2 DEF FrameFits, FrameSound
<1>5. Parts(scope, n)
  BY <1>1, <1>2, <1>3, <1>4 DEF Parts, Addressed
<1>6. SoundIn(scope, n)
  BY <1>5, SoundParts
<1>7. RootValues(m) = RootValues(n)
  BY DEF RootValues
<1>8. \A w \in RootValues(m) : Within(w, Rooted(n))
  BY <1>6, <1>7, HeldRoots DEF Held
<1>9. Rooted(m) \subseteq Rooted(n)
  BY <1>6, <1>8, RootedMore
<1> QED BY <1>6, <1>9

LEMMA AbortSound ==
    ASSUME NEW scope, NEW m, SoundIn(scope, m)
    PROVE  SoundIn(scope, Abort(m)) /\ Keeps(m, Abort(m)) /\ Abort(m).aborted = TRUE /\ Abort(m).running = FALSE
<1> DEFINE n == Abort(m)
<1>1. Parts(scope, m)
  BY SoundParts
<1>2. Changes(m, n, {"aborted", "running"}) /\ n.aborted = TRUE /\ n.running = FALSE
  BY <1>1, AbortIs DEF Parts
<1> HIDE DEF n
<1>3. /\ DOMAIN n = MachineFields /\ n.next = m.next /\ n.codes = m.codes /\ n.heap = m.heap
      /\ n.stack = m.stack /\ n.call_stack = m.call_stack /\ n.env = m.env
      /\ n.temp_roots = m.temp_roots /\ n.forbid = m.forbid /\ n.error_count = m.error_count
  BY <1>2 DEF Changes, MachineFields
<1>4. SoundIn(scope, n) /\ Rooted(m) \subseteq Rooted(n)
  BY <1>1, <1>3, SoundAlike DEF Parts
<1>5. Changes(m, n, {"heap", "next", "aborted", "running"})
  BY <1>2 DEF Changes
<1>6. Keeps(m, n)
  BY <1>1, <1>2, <1>3, <1>4, <1>5 DEF Keeps, SameObject, Parts
<1> QED BY <1>2, <1>4, <1>6 DEF n

\* Objects refer to others than they did.
LEMMA Relinked ==
    ASSUME NEW scope, NEW m, SoundIn(scope, m), NEW n, Changes(m, n, {"heap"}), DOMAIN n.heap = DOMAIN m.heap,
           \A a \in Addressed(scope, m) :
              /\ n.heap[a].kind = m.heap[a].kind /\ DOMAIN n.heap[a] = DOMAIN m.heap[a]
              /\ Permanent(n.heap[a]) = Permanent(m.heap[a])
              /\ m.heap[a].kind = "func" => n.heap[a].bytecode = m.heap[a].bytecode
              /\ \A v \in References(m, n.heap[a]) : Live(scope, m, v)
    PROVE  SoundIn(scope, n) /\ \A v : (Live(scope, n, v) <=> Live(scope, m, v)) /\ (Live(scope, m, v) => KindOf(n, v) = KindOf(m, v))
<1>1. Parts(scope, m)
  BY SoundParts
<1>2. /\ DOMAIN n = MachineFields /\ n.next = m.next /\ n.codes = m.codes
      /\ n.stack = m.stack /\ n.call_stack = m.call_stack /\ n.env = m.env
      /\ n.temp_roots = m.temp_roots /\ n.forbid = m.forbid /\ n.error_count = m.error_count
  BY DEF Changes, MachineFields
<1>3. \A v : (Live(scope, n, v) <=> Live(scope, m, v)) /\ (Live(scope, m, v) => KindOf(n, v) = KindOf(m, v))
  BY DEF Live, KindOf, At, Addressed
<1>4. /\ Addressed(scope, n) = Addressed(scope, m)
      /\ \A a \in Addressed(scope, n) : ObjectSound(scope, n, n.heap[a])
  BY <1>1, <1>2, <1>3 DEF Parts, ObjectSound, References, Addressed
<1>5. \A f \in Range(n.call_stack) : FrameFits(scope, n, f)
  <2> SUFFICES ASSUME NEW f \in Range(m.call_stack) PROVE FrameFits(scope, n, f)
    BY <1>2
  <2>1. FrameFits(scope, m, f)
    BY <1>1 DEF Parts
  <2>2. IsRef(f.func) /\ f.func[2] \in Addressed(scope, m) /\ m.heap[f.func[2]].kind = "func"
    BY <2>1, ObjectKind DEF FrameFits, FrameSound
  <2>3. At(n, f.func).bytecode = At(m, f.func).bytecode
    BY <2>2 DEF At
  <2> QED BY <1>3, <2>1, <2>3 DEF FrameFits, FrameSound
<1>6. Parts(scope, n)
  BY <1>1, <1>2, <1>3, <1>4, <1>5 DEF Parts
<1> QED BY <1>3, <1>6, SoundParts

\* The fields of objects that are set.
Settable(kind, field) == \/ kind = "cons" /\ field \in {"car", "cdr"}
                         \/ kind = "env" /\ field = "vars"
                         \/ kind = "func" /\ field = "env"

\* One field is.
LEMMA FieldSet ==
    ASSUME NEW scope, NEW m, SoundIn(scope, m), NEW a \in Addressed(scope, m), NEW field, Settable(m.heap[a].kind, field),
           NEW v, Live(scope, m, v), NEW n, Changes(m, n, {"heap"}),
           n.heap = [m.heap EXCEPT ![a] = [m.heap[a] EXCEPT ![field] = v]]
    PROVE  /\ SoundIn(scope, n)
           /\ \A w : (Live(scope, n, w) <=> Live(scope, m, w)) /\ (Live(scope, m, w) => KindOf(n, w) = KindOf(m, w))
<1>1. ObjectSound(scope, m, m.heap[a])
  BY DEF SoundIn
<1> DEFINE o == m.heap[a]
           p == [o EXCEPT ![field] = v]
<1>2. DOMAIN o = {"kind"} \cup ObjectFields[o.kind] /\ \A w \in References(m, o) : Live(scope, m, w)
  BY <1>1 DEF ObjectSound
<1>3. DOMAIN p = DOMAIN o /\ p.kind = o.kind /\ \A w \in References(m, p) : Live(scope, m, w)
  <2>1. CASE o.kind = "cons"
    <3>1. DOMAIN o = {"kind", "car", "cdr"}
      BY <1>2, <2>1 DEF ObjectFields
    <3>2. Live(scope, m, o.car) /\ Live(scope, m, o.cdr)
      BY <1>2, <2>1 DEF References
    <3>3. field = "car" \/ field = "cdr"
      BY <2>1 DEF Settable
    <3>4. p.kind = o.kind /\ p.car \in {o.car, v} /\ p.cdr \in {o.cdr, v}
      BY <3>1, <3>3
    <3>5. References(m, p) = {p.car, p.cdr}
      BY <2>1, <3>4 DEF References
    <3> QED BY <3>2, <3>4, <3>5
  <2>2. CASE o.kind = "env"
    <3>1. DOMAIN o = {"kind", "vars", "up"}
      BY <1>2, <2>2 DEF ObjectFields
    <3>2. Live(scope, m, o.vars) /\ Live(scope, m, o.up)
      BY <1>2, <2>2 DEF References
    <3>3. field = "vars"
      BY <2>2 DEF Settable
    <3>4. p.kind = o.kind /\ p.vars = v /\ p.up = o.up
      BY <3>1, <3>3
    <3>5. References(m, p) = {p.vars, p.up}
      BY <2>2, <3>4 DEF References
    <3> QED BY <3>2, <3>4, <3>5
  <2>3. CASE o.kind = "func"
    <3>1. DOMAIN o = {"kind", "param_names", "bytecode", "env"}
      BY <1>2, <2>3 DEF ObjectFields
    <3>2. Live(scope, m, o.param_names) /\ \A w \in Range(m.codes[o.bytecode].constant_pool) : Live(scope, m, w)
      BY <1>2, <2>3 DEF References
    <3>3. field = "env"
      BY <2>3 DEF Settable
    <3>4. p.kind = o.kind /\ p.param_names = o.param_names /\ p.env = v /\ p.bytecode = o.bytecode
      BY <3>1, <3>3
    <3>5. References(m, p) = {p.param_names, p.env} \cup Range(m.codes[p.bytecode].constant_pool)
      BY <2>3, <3>4 DEF References
    <3> QED BY <3>2, <3>4, <3>5
  <2> QED BY <2>1, <2>2, <2>3 DEF Settable
<1>4. o.kind = "func" => p.bytecode = o.bytecode
  <2>1. ASSUME o.kind = "func" PROVE p.bytecode = o.bytecode
    <3>1. field = "env" /\ DOMAIN o = {"kind", "param_names", "bytecode", "env"}
      BY <1>2, <2>1 DEF Settable, ObjectFields
    <3> QED BY <3>1
  <2> QED BY <2>1
<1>5. DOMAIN n.heap = DOMAIN m.heap /\ n.heap[a] = p /\ \A b \in DOMAIN m.heap : b # a => n.heap[b] = m.heap[b]
  BY DEF Addressed
<1>6. \A b \in Addressed(scope, m) : \A w \in References(m, m.heap[b]) : Live(scope, m, w)
  BY DEF SoundIn, ObjectSound
<1>7. Permanent(p) = Permanent(o)
  <2>1. field \in {"car", "cdr", "vars", "env"}
    BY DEF Settable
  <2> QED BY <2>1 DEF Permanent
<1>8. Addressed(scope, m) \subseteq DOMAIN m.heap
  BY DEF Addressed
<1> HIDE DEF p
<1> QED BY <1>3, <1>4, <1>5, <1>6, <1>7, <1>8, Relinked

-----------------------------------------------------------------------------
(* Variables. *)

\* hll_add_variable, over its two allocations.
LEMMA AddVariable ==
    ASSUME NEW scope, NEW m, SoundIn(scope, m), NEW env, NEW name, NEW value,
           Held(scope, m, env), Held(scope, m, name), Held(scope, m, value),
           NEW n \in hll_add_variable(m, env, name, value)
    PROVE  /\ SoundIn(scope, n) /\ Keeps(m, n)
           /\ KindOf(m, name) = "symb" /\ KindOf(m, env) = "env" => n.aborted = m.aborted /\ n.running = m.running
<1>1. CASE KindOf(m, name) # "symb" \/ KindOf(m, env) # "env"
  BY <1>1, AbortSound DEF hll_add_variable
<1>2. CASE KindOf(m, name) = "symb" /\ KindOf(m, env) = "env"
  <2> DEFINE slot == Fresh(m)
  <2>1. PICK m1 \in New(m, ConsObj(name, value)) :
           \E m2 \in New(PushTemp(m1, slot), ConsObj(slot, At(PushTemp(m1, slot), env).vars)) :
              n = PopTemp([m2 EXCEPT !.heap[env[2]].vars = Fresh(PushTemp(m1, slot))])
    BY <1>2 DEF hll_add_variable
  <2> DEFINE p == PushTemp(m1, slot)
             o1 == ConsObj(name, value)
             o2 == ConsObj(slot, At(p, env).vars)
  <2>2. PICK m2 \in New(p, o2) : n = PopTemp([m2 EXCEPT !.heap[env[2]].vars = Fresh(p)])
    BY <2>1
  <2> DEFINE m3 == [m2 EXCEPT !.heap[env[2]].vars = Fresh(p)]
             e == env[2]
  <2>3. ObjectHeld(scope, m, o1)
    BY DEF ObjectHeld, ConsObj, ObjectFields, References
  <2>4. /\ SoundIn(scope, m1) /\ Keeps(m, m1) /\ m.next \in DOMAIN m1.heap /\ m1.heap[m.next] = o1
        /\ \A a \in Rooted(m) : m1.heap[a] = m.heap[a]
        /\ m1.aborted = m.aborted /\ m1.running = m.running
        /\ Live(scope, m1, slot)
    <3> HIDE DEF o1
    <3>1. Allocated(scope, m, o1, m1)
      BY NewAllocates DEF o1
    <3> QED BY <2>3, <3>1, AllocatedIs
  <2>5. Live(scope, m1, slot)
    BY <2>4
  <2>6. /\ SoundIn(scope, p) /\ Held(scope, p, slot) /\ Rooted(m1) \subseteq Rooted(p)
        /\ \A w : Held(scope, m1, w) => Held(scope, p, w)
        /\ \A w : At(p, w) = At(m1, w) /\ KindOf(p, w) = KindOf(m1, w)
    BY <2>4, <2>5, PushTempSound
  <2>7. /\ Changes(m1, p, {"temp_roots"}) /\ p.temp_roots = Append(m1.temp_roots, slot)
    BY <2>4, PushTempIs DEF SoundIn
  <2> HIDE DEF p
  <2>8. Held(scope, m1, env) /\ KindOf(m1, env) = "env"
    BY <1>2, <2>4, HeldKept
  <2>9. Held(scope, p, env) /\ KindOf(p, env) = "env"
    BY <2>6, <2>8
  <2>10. /\ IsRef(env) /\ e \in DOMAIN p.heap /\ At(p, env) = p.heap[e]
         /\ p.heap[e].kind = "env" /\ DOMAIN p.heap[e] = {"kind", "vars", "up"}
         /\ Held(scope, p, At(p, env).vars)
    BY <2>6, <2>9, EnvFields DEF Held
  <2>11. ObjectHeld(scope, p, o2)
    BY <2>6, <2>10 DEF ObjectHeld, ConsObj, ObjectFields, References
  <2>12. /\ SoundIn(scope, m2) /\ Keeps(p, m2) /\ p.next \in DOMAIN m2.heap /\ m2.heap[p.next] = o2
         /\ \A a \in Rooted(p) : m2.heap[a] = p.heap[a]
         /\ p.next \notin Rooted(p) /\ Live(scope, m2, Ref(p.next))
         /\ m2.aborted = p.aborted /\ m2.running = p.running
    <3> HIDE DEF o2
    <3>1. Allocated(scope, p, o2, m2)
      BY <2>2, <2>6, NewAllocates
    <3> QED BY <2>6, <2>11, <3>1, AllocatedIs DEF Fresh
  <2>13. Changes(p, m2, {"heap", "next"})
    BY <2>2, <2>6, NewAllocates DEF Allocated
  <2>14. e \in Rooted(p) /\ e \in DOMAIN m2.heap /\ e \in Addressed(scope, m2) /\ m2.heap[e] = p.heap[e]
    <3>1. e \in Rooted(p)
      BY <2>9, <2>10 DEF Held, Within
    <3>2. /\ Rooted(p) \subseteq Rooted(m2) /\ Rooted(m2) \subseteq Addressed(scope, m2)
          /\ Rooted(m2) \subseteq DOMAIN m2.heap
      BY <2>12, RootedIs DEF Keeps
    <3> QED BY <2>12, <3>1, <3>2
  <2>15. DOMAIN m2 = MachineFields
    BY <2>12 DEF SoundIn
  <2>16. /\ Changes(m2, m3, {"heap"})
         /\ m3.heap = [m2.heap EXCEPT ![e] = [m2.heap[e] EXCEPT !.vars = Ref(p.next)]]
    BY <2>15 DEF Changes, MachineFields, Fresh
  <2> HIDE DEF m3
  <2>17. SoundIn(scope, m3)
    <3>1. Settable(m2.heap[e].kind, "vars")
      BY <2>10, <2>14 DEF Settable
    <3> QED BY <2>12, <2>14, <2>16, <3>1, FieldSet
  <2>18. n = PopTemp(m3)
    BY <2>2 DEF m3
  <2>19. SoundIn(scope, n) /\ Changes(m3, n, {"temp_roots"}) /\ n.temp_roots = Front(m3.temp_roots)
    BY <2>17, <2>18, PopTempSound, PopTempIs DEF SoundIn
  <2>20. Changes(m, m1, {"heap", "next"}) /\ m1.next = m.next + 1 /\ m2.next = p.next + 1
    BY <2>2, <2>6, NewAllocates DEF Allocated
  <2>21. n.temp_roots = m.temp_roots
    <3>1. m1.temp_roots = m.temp_roots /\ m2.temp_roots = p.temp_roots /\ m3.temp_roots = m2.temp_roots
      BY <2>13, <2>16, <2>20 DEF Changes, MachineFields
    <3>2. IsStack(m.temp_roots)
      BY DEF SoundIn
    <3>3. Front(Append(m.temp_roots, slot)) = m.temp_roots
      BY <3>2, StackPush
    <3> QED BY <2>7, <2>19, <3>1, <3>3
  <2>22. Changes(m, n, {"heap", "next"})
    <3>1. Changes(m, n, {"heap", "next", "temp_roots"})
      BY <2>7, <2>13, <2>16, <2>19, <2>20 DEF Changes
    <3>2. \A f \in MachineFields \ {"heap", "next"} : f = "temp_roots" \/ n[f] = m[f]
      BY <3>1 DEF Changes
    <3> QED BY <2>21, <3>1, <3>2 DEF Changes
  <2>23. n.heap = m3.heap /\ n.next = m3.next /\ m3.next = m2.next /\ p.next = m1.next /\ p.heap = m1.heap
    BY <2>7, <2>16, <2>19 DEF Changes, MachineFields
  <2>24. n.next \in Nat /\ m.next <= n.next
    BY <2>20, <2>23 DEF SoundIn
  <2>25. \A a \in Rooted(m) : a \in Rooted(m1) /\ a \in Rooted(p) /\ m2.heap[a] = m.heap[a]
    BY <2>4, <2>6, <2>12, <2>23 DEF Keeps
  <2>26. /\ n.heap = [m2.heap EXCEPT ![e] = [m2.heap[e] EXCEPT !.vars = Ref(p.next)]]
         /\ DOMAIN m2.heap[e] = {"kind", "vars", "up"}
    BY <2>10, <2>14, <2>16, <2>23
  <2>27. \A a : a # e => n.heap[a] = m2.heap[a]
    BY <2>26
  <2>28. n.heap[e].kind = m2.heap[e].kind /\ n.heap[e].up = m2.heap[e].up /\ n.heap[e].vars = Ref(p.next)
    BY <2>14, <2>26
  <2>29. e \in Rooted(m) /\ m.heap[e].kind = "env" /\ m2.heap[e] = m.heap[e]
    <3>1. e \in Rooted(m)
      BY <2>10 DEF Held, Within
    <3>2. m.heap[e].kind = "env"
      BY <1>2, <2>10 DEF KindOf, At
    <3> QED BY <2>25, <3>1, <3>2
  <2>30. \A a \in Rooted(m) : SameObject(m.heap[a], n.heap[a])
    <3> SUFFICES ASSUME NEW a \in Rooted(m) PROVE SameObject(m.heap[a], n.heap[a])
      OBVIOUS
    <3>1. CASE a = e
      BY <2>28, <2>29, <3>1 DEF SameObject
    <3>2. CASE a # e
      BY <2>25, <2>27, <3>2 DEF SameObject
    <3> QED BY <3>1, <3>2
  <2>31. Rooted(m) \subseteq Rooted(n)
    <3> DEFINE C == Rooted(m) \cap Rooted(n)
    <3>1. Roots(m) = Roots(n) /\ n.codes = m.codes
      BY <2>22 DEF Changes, MachineFields, Roots, RootValues
    <3>2. Roots(m) \subseteq C
      BY <2>19, <3>1, RootedIs
    <3>3. \A x : References(n, x) = References(m, x)
      BY <3>1 DEF References
    <3>4. Closed(m, Rooted(m)) /\ Closed(n, Rooted(n)) /\ Rooted(m) \subseteq DOMAIN m.heap /\ Rooted(n) \subseteq DOMAIN n.heap
      BY <2>19, RootedIs
    <3>5. ASSUME NEW a \in C PROVE Pointees(m, a) \subseteq C
      <4>1. Pointees(m, a) \subseteq Rooted(m) /\ Pointees(n, a) \subseteq Rooted(n)
            /\ a \in DOMAIN m.heap /\ a \in DOMAIN n.heap
        BY <3>4 DEF Closed
      <4>2. CASE a # e
        <5>1. Pointees(n, a) = Pointees(m, a)
          BY <2>25, <2>27, <3>3, <4>1, <4>2 DEF Pointees
        <5> QED BY <4>1, <5>1
      <4>3. CASE a = e
        <5>1. Pointees(m, a) = Addresses({m.heap[e].vars, m.heap[e].up})
          BY <2>29, <4>1, <4>3 DEF Pointees, References
        <5>2. Pointees(n, a) = Addresses({Ref(p.next), m.heap[e].up})
          BY <2>28, <2>29, <4>1, <4>3 DEF Pointees, References
        <5>3. p.next \in Rooted(n)
          BY <4>1, <5>2, Refs DEF Addresses
        <5>4. n.heap[p.next] = o2 /\ p.next \in DOMAIN n.heap
          BY <2>12, <2>14, <2>16, <2>23, <2>27
        <5>5. Pointees(n, p.next) = Addresses({slot, At(p, env).vars})
          BY <5>4 DEF Pointees, References, ConsObj
        <5>6. At(p, env).vars = m.heap[e].vars
          BY <2>10, <2>14, <2>29
        <5>7. Pointees(n, p.next) \subseteq Rooted(n)
          BY <3>4, <5>3 DEF Closed
        <5>8. Addresses({m.heap[e].vars}) \subseteq Rooted(n) /\ Addresses({m.heap[e].up}) \subseteq Rooted(n)
          BY <4>1, <5>2, <5>5, <5>6, <5>7 DEF Addresses
        <5> QED BY <4>1, <5>1, <5>8 DEF Addresses
      <4> QED BY <4>2, <4>3
    <3>6. m.next \in Nat
      BY DEF SoundIn
    <3> HIDE DEF C
    <3>7. Rooted(m) \subseteq C
      BY <3>2, <3>5, <3>6, RootedWithin DEF Closed
    <3> QED BY <3>7 DEF C
  <2>32. Changes(m, n, {"heap", "next", "aborted", "running"}) /\ n.aborted = m.aborted /\ n.running = m.running
    BY <2>22 DEF Changes, MachineFields
  <2> QED BY <2>19, <2>24, <2>30, <2>31, <2>32 DEF Keeps
<1> QED BY <1>1, <1>2

LEMMA MinIn ==
    ASSUME NEW S \in SUBSET Nat, S # {}
    PROVE  Min(S) \in S
<1>1. PICK n \in S : \A k \in S : n <= k
  BY NatLeast, Zenon
<1> QED BY <1>1 DEF Min

\* The elements of a list.
LEMMA ItemsLive ==
    ASSUME NEW scope, NEW m, SoundIn(scope, m), NEW v, Live(scope, m, v)
    PROVE  /\ DOMAIN Items(m, v) = 1 .. Len(Items(m, v)) /\ Len(Items(m, v)) \in Nat
           /\ \A i \in 1 .. Len(Items(m, v)) : Live(scope, m, Items(m, v)[i])
           /\ \A w \in Range(Items(m, v)) : Live(scope, m, w)
<1> DEFINE cells == Cells(m, v)
           xs == [i \in DOMAIN cells |-> At(m, cells[i]).car]
<1>1. AllWithin(scope, m, Addressed(scope, m), cells) /\ \A w \in Range(cells) : IsCons(m, w)
  <2>1. Within(v, Addressed(scope, m))
    BY DEF Live, Within, Addressed
  <2> QED BY <2>1, SoundClosed, CellsWithin
<1>2. Items(m, v) = xs
  BY DEF Items
<1> HIDE DEF cells
<1>3. Len(cells) \in Nat /\ DOMAIN cells = 1 .. Len(cells) /\ \A i \in 1 .. Len(cells) : cells[i] \in Range(cells)
  BY <1>1 DEF AllWithin, IsStack
<1>4. ASSUME NEW i \in 1 .. Len(cells) PROVE Live(scope, m, xs[i])
  <2>1. Live(scope, m, cells[i]) /\ IsCons(m, cells[i])
    BY <1>1, <1>3 DEF AllWithin
  <2> DEFINE w == cells[i]
  <2>2. Live(scope, m, w) /\ IsCons(m, w)
    BY <2>1
  <2> HIDE DEF w
  <2>3. Live(scope, m, At(m, w).car)
    BY <2>2, ConsFields
  <2> QED BY <1>3, <2>3 DEF w
<1>5. DOMAIN xs = 1 .. Len(cells)
  BY <1>3
<1> HIDE DEF xs
<1>6. Len(xs) = Len(cells)
  BY <1>3, <1>5
<1>7. \A w \in Range(xs) : Live(scope, m, w)
  BY <1>4, <1>5 DEF Range
<1> QED BY <1>2, <1>3, <1>4, <1>5, <1>6, <1>7

\* Where the search for a variable ends.
LEMMA FindVarLive ==
    ASSUME NEW scope, NEW m, SoundIn(scope, m), NEW env, Live(scope, m, env), NEW name
    PROVE  Live(scope, m, hll_find_var(m, env, name))
<1> DEFINE Names(slot) == IsVariable(m, slot) => At(m, At(m, slot).car).name = name
           ItemsOf(e) == Items(m, At(m, e).vars)
           Home(e) == \E slot \in Range(ItemsOf(e)) : Names(slot)
           envs == Along(m, env, "env", "up")
           I == {i \in 1 .. Len(envs) : Home(envs[i])}
           home == IF I # {} THEN Min(I) ELSE 0
           slots == ItemsOf(envs[home])
           J == {i \in 1 .. Len(slots) : Names(slots[i])}
           at == IF J # {} THEN Min(J) ELSE 0
<1>1. hll_find_var(m, env, name) = IF home = 0 THEN Nil ELSE slots[at]
  BY DEF hll_find_var, SelectInSeq
<1>2. AllWithin(scope, m, Addressed(scope, m), envs) /\ \A w \in Range(envs) : KindOf(m, w) = "env"
  BY EnvsWithin
<1> HIDE DEF envs
<1>3. Len(envs) \in Nat /\ \A i \in 1 .. Len(envs) : envs[i] \in Range(envs)
  BY <1>2 DEF AllWithin, IsStack
<1>4. CASE I = {}
  <2>1. home = 0
    BY <1>4
  <2> QED BY <1>1, <2>1, Atoms
<1>5. CASE I # {}
  <2>1. I \in SUBSET Nat
    BY <1>3
  <2>2. Min(I) \in I
    <3> HIDE DEF I
    <3> QED BY <1>5, <2>1, MinIn
  <2>3. home \in 1 .. Len(envs) /\ Home(envs[home])
    BY <1>5, <2>2
  <2> DEFINE e == envs[home]
  <2>4. Live(scope, m, e) /\ KindOf(m, e) = "env" /\ Home(e)
    BY <1>2, <1>3, <2>3 DEF AllWithin
  <2> HIDE DEF home
  <2> DEFINE vars == At(m, e).vars
  <2>5. Live(scope, m, vars)
    <3> HIDE DEF e
    <3> QED BY <2>4, EnvFields
  <2>6. slots = Items(m, vars)
    OBVIOUS
  <2> HIDE DEF vars
  <2>7. /\ DOMAIN slots = 1 .. Len(slots) /\ Len(slots) \in Nat
        /\ \A i \in 1 .. Len(slots) : Live(scope, m, slots[i])
    BY <2>5, <2>6, ItemsLive
  <2>8. \E slot \in Range(slots) : Names(slot)
    BY <2>4
  <2> HIDE DEF Names, slots
  <2>9. PICK i \in 1 .. Len(slots) : Names(slots[i])
    BY <2>7, <2>8 DEF Range
  <2>10. J # {} /\ J \in SUBSET Nat
    BY <2>7, <2>9
  <2>11. Min(J) \in J
    <3> HIDE DEF J
    <3> QED BY <2>10, MinIn
  <2>12. at \in 1 .. Len(slots)
    BY <2>10, <2>11
  <2> HIDE DEF at
  <2>13. Live(scope, m, slots[at])
    BY <2>7, <2>12
  <2> QED BY <1>1, <2>13, Atoms DEF slots
<1> QED BY <1>4, <1>5

-----------------------------------------------------------------------------
(* The builtins. *)

\* What a builtin may do to the machine, and gives.
Tame(scope, m, o) ==
    /\ SoundIn(scope, o.m) /\ Live(scope, o.m, o.value)
    /\ Changes(m, o.m, {"heap", "next", "gensyms", "printed", "aborted", "running"})
    /\ \/ o.m.aborted = m.aborted /\ o.m.running = m.running
       \/ o.m.aborted = TRUE /\ o.m.running = FALSE

\* Most change nothing.
Plain(scope, m, o) == o.m \in {m, Abort(m)} /\ Live(scope, m, o.value)

LEMMA PlainTame ==
    ASSUME NEW scope, NEW m, SoundIn(scope, m), NEW o, Plain(scope, m, o)
    PROVE  Tame(scope, m, o)
<1>1. CASE o.m = m
  <2>1. Changes(m, m, {"heap", "next", "gensyms", "printed", "aborted", "running"})
    BY DEF Changes, SoundIn
  <2> QED BY <1>1, <2>1 DEF Plain, Tame
<1>2. CASE o.m = Abort(m)
  <2> DEFINE n == Abort(m)
  <2>1. SoundIn(scope, n) /\ n.aborted = TRUE /\ n.running = FALSE
    BY AbortSound
  <2>2. Changes(m, n, {"aborted", "running"})
    BY AbortIs DEF SoundIn
  <2> HIDE DEF n
  <2>3. Changes(m, n, {"heap", "next", "gensyms", "printed", "aborted", "running"}) /\ n.heap = m.heap
    BY <2>2 DEF Changes, MachineFields
  <2>4. Live(scope, n, o.value)
    BY <2>3 DEF Plain, Live
  <2>5. o.m = n
    BY <1>2 DEF n
  <2> QED BY <2>1, <2>3, <2>4, <2>5 DEF Tame
<1> QED BY <1>1, <1>2 DEF Plain

LEMMA PlainReturns ==
    \A scope, m, v, o : Live(scope, m, v) /\ o \in Returns(m, v) => Plain(scope, m, o)
BY DEF Returns, Outcome, Plain

\* The outcomes of most.
Simple(m, o) == \/ o \in Raises(m) \/ o \in Aborts(m)
                \/ o \in Returns(m, Nil) \/ o \in Returns(m, T)
                \/ \E x : o \in Returns(m, Num(x))

LEMMA SimplePlain ==
    ASSUME NEW scope, NEW m, NEW o, Simple(m, o)
    PROVE  Plain(scope, m, o)
<1>1. CASE o \in Raises(m)
  BY <1>1, Atoms DEF Raises, Outcome, Plain
<1>2. CASE o \in Aborts(m)
  BY <1>2, Atoms DEF Aborts, Returns, Outcome, Plain, Abort, Live
<1>3. CASE o \in Returns(m, Nil) \/ o \in Returns(m, T) \/ \E x : o \in Returns(m, Num(x))
  BY <1>3, Atoms, PlainReturns
<1> QED BY <1>1, <1>2, <1>3 DEF Simple

LEMMA CarLive ==
    ASSUME NEW scope, NEW m, SoundIn(scope, m), NEW v, Live(scope, m, v)
    PROVE  Live(scope, m, CarOf(m, v))
BY ConsFields, Atoms DEF CarOf

LEMMA CdrsLive ==
    ASSUME NEW scope, NEW m, SoundIn(scope, m), NEW v, Live(scope, m, v)
    PROVE  /\ Len(Cdrs(m, v)) \in Nat \ {0} /\ DOMAIN Cdrs(m, v) = 1 .. Len(Cdrs(m, v))
           /\ \A i \in 1 .. Len(Cdrs(m, v)) : Live(scope, m, Cdrs(m, v)[i])
           /\ Live(scope, m, Last(Cdrs(m, v)))
<1>1. Within(v, Addressed(scope, m))
  BY DEF Live, Within, Addressed
<1>2. /\ AllWithin(scope, m, Addressed(scope, m), Cdrs(m, v)) /\ Len(Cdrs(m, v)) \in Nat \ {0}
      /\ \A i \in 1 .. Len(Cdrs(m, v)) : Live(scope, m, Cdrs(m, v)[i])
      /\ Last(Cdrs(m, v)) = Cdrs(m, v)[Len(Cdrs(m, v))]
  BY <1>1, SoundClosed, CdrsWithin
<1>3. DOMAIN Cdrs(m, v) = 1 .. Len(Cdrs(m, v))
  BY <1>2 DEF AllWithin, IsStack
<1> QED BY <1>2, <1>3

\* The builtins that do change something, one by one.
LEMMA PrintTame ==
    ASSUME NEW scope, NEW m, SoundIn(scope, m), NEW args, NEW o \in builtin_print(m, args)
    PROVE  Tame(scope, m, o)
<1>1. PICK values : o = Outcome(Prints(m, values), Nil, TRUE)
  BY DEF builtin_print, Returns
<1> DEFINE n == Prints(m, values)
<1>2. DOMAIN m = MachineFields
  BY DEF SoundIn
<1>3. Changes(m, n, {"printed"})
  BY <1>2 DEF Changes, Prints, MachineFields
<1> HIDE DEF n
<1>4. /\ DOMAIN n = MachineFields /\ n.next = m.next /\ n.codes = m.codes /\ n.heap = m.heap
      /\ n.stack = m.stack /\ n.call_stack = m.call_stack /\ n.env = m.env
      /\ n.temp_roots = m.temp_roots /\ n.forbid = m.forbid /\ n.error_count = m.error_count
      /\ n.aborted = m.aborted /\ n.running = m.running
  BY <1>3 DEF Changes, MachineFields
<1>5. SoundIn(scope, n)
  BY <1>4, SoundAlike DEF SoundIn
<1>6. o.m = n /\ o.value = Nil
  BY <1>1 DEF Outcome, n
<1>7. Changes(m, n, {"heap", "next", "gensyms", "printed", "aborted", "running"})
  BY <1>3 DEF Changes
<1> QED BY <1>4, <1>5, <1>6, <1>7, Atoms DEF Tame

LEMMA WalkPlain ==
    ASSUME NEW scope, NEW m, SoundIn(scope, m), NEW args, Live(scope, m, args), NEW o,
           o \in builtin_nth(m, args) \/ o \in builtin_nthcdr(m, args)
    PROVE  Plain(scope, m, o)
<1> DEFINE xs == Items(m, args)
           cdrs == Cdrs(m, xs[2])
           n == xs[1][2] + 1
<1>1. CASE o \in Raises(m)
  BY <1>1, SimplePlain DEF Simple
<1>2. CASE o \notin Raises(m)
  <2>1. /\ Len(xs) = 2
        /\ \/ o \in Returns(m, Nil)
           \/ n \in DOMAIN cdrs /\ o \in Returns(m, cdrs[n])
           \/ n \in DOMAIN cdrs /\ o \in Returns(m, CarOf(m, cdrs[n]))
    BY <1>2 DEF builtin_nth, builtin_nthcdr, Walk
  <2>2. Live(scope, m, xs[2])
    <3>1. \A i \in 1 .. Len(xs) : Live(scope, m, xs[i])
      BY ItemsLive
    <3> QED BY <2>1, <3>1
  <2> HIDE DEF xs, n
  <2>3. n \in DOMAIN cdrs => Live(scope, m, cdrs[n])
    BY <2>2, CdrsLive
  <2> HIDE DEF cdrs
  <2>4. n \in DOMAIN cdrs => Live(scope, m, CarOf(m, cdrs[n]))
    BY <2>3, CarLive
  <2> QED BY <2>1, <2>3, <2>4, Atoms, PlainReturns
<1> QED BY <1>1, <1>2

LEMMA GensymTame ==
    ASSUME NEW scope, NEW m, SoundIn(scope, m), NEW args, NEW o \in builtin_gensym(m, args)
    PROVE  Tame(scope, m, o)
<1>1. PICK name : o = Outcome([Place(m, SymbObj(name)) EXCEPT !.gensyms = @ + 1], Fresh(m), TRUE)
  BY DEF builtin_gensym, Returns
<1> DEFINE p == Place(m, SymbObj(name))
           n == [p EXCEPT !.gensyms = @ + 1]
<1>2. ObjectHeld(scope, m, SymbObj(name))
  BY DEF ObjectHeld, SymbObj, ObjectFields, References
<1>3. p \in New(m, SymbObj(name))
  BY DEF New
<1>4. Allocated(scope, m, SymbObj(name), p)
  BY <1>3, NewAllocates
<1>5. SoundIn(scope, p) /\ Live(scope, p, Fresh(m)) /\ Changes(m, p, {"heap", "next"})
  BY <1>2, <1>4, AllocatedIs
<1> HIDE DEF p
<1>6. Changes(p, n, {"gensyms"})
  BY <1>5 DEF Changes, MachineFields, SoundIn
<1>7. o.m = n /\ o.value = Fresh(m)
  BY <1>1 DEF Outcome, p
<1> HIDE DEF n
<1>8. /\ DOMAIN n = MachineFields /\ n.next = p.next /\ n.codes = p.codes /\ n.heap = p.heap
      /\ n.stack = p.stack /\ n.call_stack = p.call_stack /\ n.env = p.env
      /\ n.temp_roots = p.temp_roots /\ n.forbid = p.forbid /\ n.error_count = p.error_count
      /\ n.aborted = p.aborted /\ n.running = p.running
      /\ p.aborted = m.aborted /\ p.running = m.running
  BY <1>5, <1>6 DEF Changes, MachineFields
<1>9. SoundIn(scope, n)
  BY <1>5, <1>8, SoundAlike DEF SoundIn
<1>10. Live(scope, n, Fresh(m))
  BY <1>5, <1>8 DEF Live
<1>11. Changes(m, n, {"heap", "next", "gensyms", "printed", "aborted", "running"})
  BY <1>5, <1>6 DEF Changes
<1> QED BY <1>7, <1>8, <1>9, <1>10, <1>11 DEF Tame

\* Objects more, that refer to those there are and to each other.
LEMMA MoreObjects ==
    ASSUME NEW scope, NEW m, SoundIn(scope, m), NEW n, NEW more, Changes(m, n, {"heap", "next"}),
           n.next \in Nat, m.next <= n.next,
           DOMAIN more \subseteq m.next .. (n.next - 1), n.heap = With(m.heap, more),
           \A a \in DOMAIN more :
              /\ more[a].kind \in DOMAIN ObjectFields \ {"func"}
              /\ DOMAIN more[a] = {"kind"} \cup ObjectFields[more[a].kind]
              /\ \A v \in References(m, more[a]) : Live(scope, n, v)
    PROVE  SoundIn(scope, n)
<1>1. Parts(scope, m)
  BY SoundParts
<1>2. /\ DOMAIN n = MachineFields /\ n.codes = m.codes
      /\ n.stack = m.stack /\ n.call_stack = m.call_stack /\ n.env = m.env
      /\ n.temp_roots = m.temp_roots /\ n.forbid = m.forbid /\ n.error_count = m.error_count
  BY DEF Changes, MachineFields
<1>3. DOMAIN m.heap \cap DOMAIN more = {} /\ m.next \in Nat
  BY <1>1 DEF Parts
<1>4. /\ DOMAIN n.heap = DOMAIN m.heap \cup DOMAIN more
      /\ \A a \in DOMAIN m.heap : n.heap[a] = m.heap[a]
      /\ \A a \in DOMAIN more : n.heap[a] = more[a]
  BY <1>3 DEF With
<1>5. \A v : Live(scope, m, v) => Live(scope, n, v) /\ KindOf(n, v) = KindOf(m, v)
  BY <1>4 DEF Live, KindOf, At
<1>6. \A o : References(n, o) = References(m, o)
  BY <1>2 DEF References
<1>7. \A a \in Addressed(scope, n) : ObjectSound(scope, n, n.heap[a])
  BY <1>1, <1>4, <1>5, <1>6 DEF Parts, ObjectSound, Addressed
<1>8. \A f \in Range(n.call_stack) : FrameFits(scope, n, f)
  <2> SUFFICES ASSUME NEW f \in Range(m.call_stack) PROVE FrameFits(scope, n, f)
    BY <1>2
  <2>1. FrameFits(scope, m, f)
    BY <1>1 DEF Parts
  <2>2. IsRef(f.func) /\ f.func[2] \in DOMAIN m.heap
    BY <2>1, ObjectKind DEF FrameFits, FrameSound
  <2>3. At(n, f.func) = At(m, f.func)
    BY <1>4, <2>2 DEF At
  <2> QED BY <1>5, <2>1, <2>3 DEF FrameFits, FrameSound
<1>9. DOMAIN n.heap \subseteq 1 .. (n.next - 1) /\ scope.garbage \cup DOMAIN scope.objects \subseteq 1 .. (n.next - 1)
  <2>1. 1 <= m.next
    <3>1. GlobalEnv[2] \in DOMAIN m.heap
      BY <1>1 DEF Parts, Live, IsRef, GlobalEnv
    <3> QED BY <1>1, <3>1 DEF Parts
  <2>2. DOMAIN m.heap \subseteq 1 .. (n.next - 1) /\ scope.garbage \cup DOMAIN scope.objects \subseteq 1 .. (n.next - 1)
    BY <1>1, <1>3 DEF Parts
  <2>3. DOMAIN more \subseteq 1 .. (n.next - 1)
    BY <1>3, <2>1
  <2> QED BY <1>4, <2>2, <2>3
<1>10. \A a \in Addressed(scope, n) \cap DOMAIN scope.objects : Permanent(n.heap[a]) = scope.objects[a]
  BY <1>1, <1>4 DEF Parts, Addressed
<1>11. Parts(scope, n)
  BY <1>1, <1>2, <1>5, <1>7, <1>8, <1>9, <1>10 DEF Parts
<1> QED BY <1>11, SoundParts

LEMMA RangeTame ==
    ASSUME NEW scope, NEW m, SoundIn(scope, m), NEW args, NEW o \in builtin_range(m, args)
    PROVE  Tame(scope, m, o)
<1> DEFINE xs == Items(m, args)
           bounds == BoundsOf(xs)
           count == bounds.to - bounds.from
           Cell(a) == ConsObj(Num(bounds.from + a - m.next),
                              IF a = m.next + count - 1 THEN Nil ELSE Ref(a + 1))
           more == [a \in m.next .. (m.next + count - 1) |-> Cell(a)]
           n == [m EXCEPT !.heap = With(@, more), !.next = @ + count]
<1>1. \/ Simple(m, o)
      \/ bounds.from \in Nat /\ bounds.to \in Nat /\ ~(count <= 0) /\ o \in Returns(n, Ref(m.next))
  BY DEF builtin_range, Simple
<1>2. CASE Simple(m, o)
  BY <1>2, SimplePlain, PlainTame
<1>3. CASE bounds.from \in Nat /\ bounds.to \in Nat /\ ~(count <= 0) /\ o \in Returns(n, Ref(m.next))
  <2>1. count \in Nat \ {0} /\ m.next \in Nat /\ DOMAIN m = MachineFields
    BY <1>3 DEF SoundIn
  <2> HIDE DEF xs
  <2>2. /\ DOMAIN more = m.next .. (m.next + count - 1)
        /\ \A a \in DOMAIN more : \E x : more[a] = ConsObj(Num(x), IF a = m.next + count - 1 THEN Nil ELSE Ref(a + 1))
    BY <2>1
  <2> HIDE DEF bounds, count, more
  <2>3. /\ Changes(m, n, {"heap", "next"}) /\ n.next = m.next + count /\ n.heap = With(m.heap, more)
        /\ n.aborted = m.aborted /\ n.running = m.running
    BY <2>1 DEF Changes, MachineFields
  <2>4. o.m = n /\ o.value = Ref(m.next)
    BY <1>3 DEF Returns, Outcome
  <2> HIDE DEF n
  <2>5. DOMAIN more \subseteq Addressed(scope, n)
    <3>1. scope.garbage \subseteq 1 .. (m.next - 1)
      BY DEF SoundIn
    <3>2. \A a \in DOMAIN more : a \in DOMAIN n.heap /\ a \notin scope.garbage
      BY <2>1, <2>2, <2>3, <3>1 DEF With
    <3> QED BY <3>2 DEF Addressed
  <2>6. ASSUME NEW a \in DOMAIN more
        PROVE  /\ more[a].kind \in DOMAIN ObjectFields \ {"func"}
               /\ DOMAIN more[a] = {"kind"} \cup ObjectFields[more[a].kind]
               /\ \A v \in References(m, more[a]) : Live(scope, n, v)
    <3> DEFINE rest == IF a = m.next + count - 1 THEN Nil ELSE Ref(a + 1)
    <3>1. PICK x : more[a] = ConsObj(Num(x), rest)
      BY <2>2
    <3>2. Live(scope, n, rest)
      <4>1. CASE a = m.next + count - 1
        BY <4>1, Atoms
      <4>2. CASE a # m.next + count - 1
        <5>1. a + 1 \in DOMAIN more
          BY <2>1, <2>2, <4>2
        <5> QED BY <2>5, <4>2, <5>1, Refs DEF Live, Addressed
      <4> QED BY <4>1, <4>2
    <3> HIDE DEF rest
    <3>3. References(m, more[a]) = {Num(x), rest}
      BY <3>1 DEF References, ConsObj
    <3> QED BY <3>1, <3>2, <3>3, Atoms DEF ConsObj, ObjectFields
  <2>7. m.next <= n.next /\ n.next \in Nat /\ DOMAIN more \subseteq m.next .. (n.next - 1)
    BY <2>1, <2>2, <2>3
  <2>8. SoundIn(scope, n)
    BY <2>3, <2>6, <2>7, MoreObjects
  <2>9. m.next \in DOMAIN more
    BY <2>1, <2>2
  <2>10. Live(scope, n, Ref(m.next))
    BY <2>5, <2>9, Refs DEF Live, Addressed
  <2>11. Changes(m, n, {"heap", "next", "gensyms", "printed", "aborted", "running"})
    BY <2>3 DEF Changes
  <2> QED BY <2>3, <2>4, <2>8, <2>10, <2>11 DEF Tame
<1> QED BY <1>1, <1>2, <1>3

LEMMA ReverseTame ==
    ASSUME NEW scope, NEW m, SoundIn(scope, m), NEW args, Live(scope, m, args), NEW o \in builtin_reverse(m, args)
    PROVE  Tame(scope, m, o)
<1> DEFINE xs == Items(m, args)
           cells == Cells(m, xs[1])
           k == Len(cells)
           Before(a) == CHOOSE i \in 1 .. k : cells[i] = Ref(a)
           Linked == [a \in DOMAIN m.heap |->
                          IF Ref(a) \notin Range(cells) THEN m.heap[a]
                          ELSE [m.heap[a] EXCEPT !.cdr =
                                  IF Before(a) = 1 THEN Nil ELSE cells[Before(a) - 1]]]
           n == [m EXCEPT !.heap = Linked]
           value == IF k = 0 THEN Nil ELSE cells[k]
<1>1. \/ Simple(m, o)
      \/ Len(xs) = 1 /\ o \in Returns(n, value)
  BY DEF builtin_reverse, Simple
<1>2. CASE Simple(m, o)
  BY <1>2, SimplePlain, PlainTame
<1>3. CASE Len(xs) = 1 /\ o \in Returns(n, value)
  <2>1. Live(scope, m, xs[1])
    <3>1. \A i \in 1 .. Len(xs) : Live(scope, m, xs[i])
      BY ItemsLive
    <3> QED BY <1>3, <3>1
  <2> HIDE DEF xs
  <2>2. AllWithin(scope, m, Addressed(scope, m), cells) /\ \A w \in Range(cells) : IsCons(m, w)
    <3>1. Within(xs[1], Addressed(scope, m))
      BY <2>1 DEF Live, Within, Addressed
    <3> QED BY <2>1, <3>1, SoundClosed, CellsWithin
  <2> HIDE DEF cells
  <2>3. k \in Nat /\ DOMAIN cells = 1 .. k /\ \A i \in 1 .. k : cells[i] \in Range(cells) /\ Live(scope, m, cells[i])
    BY <2>2 DEF AllWithin, IsStack
  <2>4. Live(scope, m, value)
    BY <2>3, Atoms
  <2>5. /\ Changes(m, n, {"heap"}) /\ n.heap = Linked
        /\ n.aborted = m.aborted /\ n.running = m.running
    BY DEF Changes, MachineFields, SoundIn
  <2>6. o.m = n /\ o.value = value
    BY <1>3 DEF Returns, Outcome
  <2> HIDE DEF n, value
  <2>7. ASSUME NEW a \in Addressed(scope, m), Ref(a) \in Range(cells)
        PROVE  /\ m.heap[a].kind = "cons"
               /\ \E w : Live(scope, m, w) /\ Linked[a] = [m.heap[a] EXCEPT !.cdr = w]
    <3>1. PICK i \in 1 .. k : cells[i] = Ref(a)
      BY <2>3, <2>7 DEF Range
    <3>2. Before(a) \in 1 .. k
      BY <3>1
    <3> DEFINE w == IF Before(a) = 1 THEN Nil ELSE cells[Before(a) - 1]
    <3>3. Linked[a] = [m.heap[a] EXCEPT !.cdr = w]
      BY <2>7 DEF Addressed
    <3> HIDE DEF Before
    <3>4. Live(scope, m, w)
      <4>1. CASE Before(a) = 1
        BY <4>1, Atoms
      <4>2. CASE Before(a) # 1
        <5>1. Before(a) - 1 \in 1 .. k
          BY <2>3, <3>2, <4>2
        <5> QED BY <2>3, <4>2, <5>1
      <4> QED BY <4>1, <4>2
    <3>5. m.heap[a].kind = "cons"
      BY <2>2, <2>7, Refs DEF IsCons, KindOf, At
    <3> HIDE DEF w, Linked
    <3> QED BY <3>3, <3>4, <3>5
  <2>8. DOMAIN Linked = DOMAIN m.heap /\ \A a \in DOMAIN m.heap : Ref(a) \notin Range(cells) => Linked[a] = m.heap[a]
    OBVIOUS
  <2> HIDE DEF Linked
  <2>9. ASSUME NEW a \in Addressed(scope, m)
        PROVE  /\ n.heap[a].kind = m.heap[a].kind /\ DOMAIN n.heap[a] = DOMAIN m.heap[a]
               /\ Permanent(n.heap[a]) = Permanent(m.heap[a])
               /\ m.heap[a].kind = "func" => n.heap[a].bytecode = m.heap[a].bytecode
               /\ \A v \in References(m, n.heap[a]) : Live(scope, m, v)
    <3>1. ObjectSound(scope, m, m.heap[a])
      BY DEF SoundIn
    <3>2. CASE Ref(a) \notin Range(cells)
      <4>1. n.heap[a] = m.heap[a]
        BY <2>5, <2>8, <3>2 DEF Addressed
      <4> QED BY <3>1, <4>1 DEF ObjectSound
    <3>3. CASE Ref(a) \in Range(cells)
      <4> DEFINE x == m.heap[a]
      <4>1. PICK w : Live(scope, m, w) /\ n.heap[a] = [x EXCEPT !.cdr = w]
        BY <2>5, <2>7, <3>3
      <4>2. x.kind = "cons"
        BY <2>7, <3>3
      <4>3. DOMAIN x = {"kind", "car", "cdr"} /\ Live(scope, m, x.car)
        BY <3>1, <4>2 DEF ObjectSound, ObjectFields, References
      <4>6. Permanent(n.heap[a]) = Permanent(x)
        BY <4>1 DEF Permanent
      <4> HIDE DEF x
      <4>4. /\ n.heap[a].kind = "cons" /\ DOMAIN n.heap[a] = DOMAIN x
            /\ n.heap[a].car = x.car /\ n.heap[a].cdr = w
        BY <4>1, <4>2, <4>3
      <4>5. References(m, n.heap[a]) = {x.car, w}
        BY <4>4 DEF References
      <4> QED BY <4>1, <4>2, <4>3, <4>4, <4>5, <4>6 DEF x
    <3> QED BY <3>2, <3>3
  <2>10. SoundIn(scope, n) /\ \A v : Live(scope, n, v) <=> Live(scope, m, v)
    <3>1. DOMAIN n.heap = DOMAIN m.heap
      BY <2>5, <2>8
    <3> QED BY <2>5, <2>9, <3>1, Relinked
  <2>11. Changes(m, n, {"heap", "next", "gensyms", "printed", "aborted", "running"})
    BY <2>5 DEF Changes
  <2> QED BY <2>4, <2>5, <2>6, <2>10, <2>11 DEF Tame
<1> QED BY <1>1, <1>2, <1>3

\* What append has joined of the first k slots.
JoinedBuilt(joined, m, start, k) ==
    joined = [n \in 0 .. k |-> IF n = 0 THEN start ELSE AppendSlot(joined[n - 1])]

\* The loop has a trace of any length.
LEMMA JoinedExists ==
    ASSUME NEW m, NEW start, NEW k \in Nat
    PROVE  \E f : JoinedBuilt(f, m, start, k)
<1> DEFINE S == {n \in Nat : \E f : JoinedBuilt(f, m, start, n)}
<1>1. 0 \in S
  <2> DEFINE f == [n \in 0 .. 0 |-> start]
  <2>1. JoinedBuilt(f, m, start, 0)
    BY DEF JoinedBuilt
  <2> QED BY <2>1
<1>2. ASSUME NEW n \in 0 .. (k - 1), n \in S PROVE n + 1 \in S
  <2>1. PICK f : JoinedBuilt(f, m, start, n)
    BY <1>2
  <2> DEFINE g == [i \in 0 .. (n + 1) |-> IF i = n + 1 THEN AppendSlot(f[n]) ELSE f[i]]
  <2>2. JoinedBuilt(g, m, start, n + 1)
    BY <2>1 DEF JoinedBuilt
  <2> QED BY <2>2
<1>3. \A n \in 0 .. k : n \in S
  <2> HIDE DEF S
  <2> QED BY <1>1, <1>2, UpTo
<1> QED BY <1>3

\* The lists joined so far.
Joining(scope, m, j) ==
    /\ DOMAIN j = {"m", "list", "tail", "slot"}
    /\ SoundIn(scope, j.m) /\ Changes(m, j.m, {"heap"})
    /\ Live(scope, j.m, j.list) /\ Live(scope, j.m, j.tail) /\ Live(scope, j.m, j.slot)

\* One round of the loop of append.
LEMMA AppendSlotJoins ==
    ASSUME NEW scope, NEW m, NEW j, Joining(scope, m, j)
    PROVE  Joining(scope, m, AppendSlot(j))
<1> DEFINE cdrs == Cdrs(j.m, j.tail)
           slot == j.slot
           end == AppendEnd(j.m, j.tail)
           linked == IF IsCons(j.m, end)
                     THEN [j EXCEPT !.m.heap[end[2]].cdr = CarOf(j.m, slot), !.tail = end]
                     ELSE [j EXCEPT !.list = slot, !.tail = slot]
<1>1. AppendSlot(j) = IF ~IsCons(j.m, slot) THEN j
                      ELSE [linked EXCEPT !.slot = At(linked.m, slot).cdr]
  BY DEF AppendSlot
<1>2. Live(scope, j.m, end)
  <2>1. /\ Len(cdrs) \in Nat \ {0} /\ \A i \in 1 .. Len(cdrs) : Live(scope, j.m, cdrs[i])
        /\ Live(scope, j.m, Last(cdrs))
    BY CdrsLive DEF Joining
  <2>2. end \in {cdrs[Len(cdrs) - 1], Last(cdrs)} /\ (Len(cdrs) <= 1 => end = Last(cdrs))
    BY <2>1 DEF AppendEnd
  <2>3. Len(cdrs) > 1 => Len(cdrs) - 1 \in 1 .. Len(cdrs)
    BY <2>1
  <2> QED BY <2>1, <2>2, <2>3
<1> HIDE DEF end
<1>3. Live(scope, j.m, slot)
  BY DEF Joining
<1>4. /\ DOMAIN linked = {"m", "list", "tail", "slot"} /\ linked.slot = slot
      /\ SoundIn(scope, linked.m) /\ Changes(m, linked.m, {"heap"})
      /\ Live(scope, linked.m, linked.list) /\ Live(scope, linked.m, linked.tail)
      /\ \A w : Live(scope, j.m, w) => Live(scope, linked.m, w) /\ KindOf(linked.m, w) = KindOf(j.m, w)
  <2>1. CASE IsCons(j.m, end)
    <3> DEFINE p == j.m
               w == CarOf(p, slot)
               n == [p EXCEPT !.heap[end[2]].cdr = w]
    <3>1. SoundIn(scope, p) /\ Live(scope, p, w) /\ Changes(m, p, {"heap"}) /\ DOMAIN p = MachineFields
      BY <1>3, CarLive DEF Joining, Changes
    <3>2. end[2] \in Addressed(scope, p) /\ p.heap[end[2]].kind = "cons"
      BY <1>2, <2>1, <3>1, ConsFields
    <3>3. /\ DOMAIN linked = {"m", "list", "tail", "slot"} /\ linked.slot = slot
          /\ linked.m = n /\ linked.list = j.list /\ linked.tail = end
      BY <2>1 DEF Joining
    <3> HIDE DEF p, w, linked
    <3>4. Changes(p, n, {"heap"}) /\ n.heap = [p.heap EXCEPT ![end[2]] = [p.heap[end[2]] EXCEPT !.cdr = w]]
      BY <3>1 DEF Changes, MachineFields
    <3> HIDE DEF n
    <3>5. Settable(p.heap[end[2]].kind, "cdr")
      BY <3>2 DEF Settable
    <3>6. SoundIn(scope, n) /\ \A x : (Live(scope, n, x) <=> Live(scope, p, x)) /\ (Live(scope, p, x) => KindOf(n, x) = KindOf(p, x))
      BY <3>1, <3>2, <3>4, <3>5, FieldSet
    <3>7. Changes(m, n, {"heap"})
      BY <3>1, <3>4 DEF Changes
    <3>8. Live(scope, p, j.list) /\ Live(scope, p, end)
      BY <1>2 DEF Joining, p
    <3> QED BY <3>3, <3>6, <3>7, <3>8 DEF p
  <2>2. CASE ~IsCons(j.m, end)
    <3>1. /\ DOMAIN linked = {"m", "list", "tail", "slot"} /\ linked.slot = slot
          /\ linked.m = j.m /\ linked.list = slot /\ linked.tail = slot
      BY <2>2 DEF Joining
    <3> HIDE DEF linked
    <3> QED BY <1>3, <3>1 DEF Joining
  <2> QED BY <2>1, <2>2
<1> HIDE DEF linked
<1>5. CASE IsCons(j.m, slot)
  <2> DEFINE rest == At(linked.m, slot).cdr
  <2>1. Live(scope, linked.m, slot) /\ IsCons(linked.m, slot)
    BY <1>3, <1>4, <1>5 DEF IsCons
  <2>2. Live(scope, linked.m, rest)
    BY <1>4, <2>1, ConsFields
  <2> HIDE DEF rest
  <2>3. AppendSlot(j) = [linked EXCEPT !.slot = rest]
    BY <1>1, <1>5 DEF rest
  <2> DEFINE r == [linked EXCEPT !.slot = rest]
  <2>4. /\ DOMAIN r = {"m", "list", "tail", "slot"} /\ r.slot = rest
        /\ r.m = linked.m /\ r.list = linked.list /\ r.tail = linked.tail
    BY <1>4
  <2> HIDE DEF r
  <2>5. Joining(scope, m, r)
    BY <1>4, <2>2, <2>4 DEF Joining
  <2> QED BY <2>3, <2>5 DEF r
<1>6. CASE ~IsCons(j.m, slot)
  BY <1>1, <1>6
<1> QED BY <1>5, <1>6

LEMMA AppendTame ==
    ASSUME NEW scope, NEW m, SoundIn(scope, m), NEW args, Live(scope, m, args), NEW o \in builtin_append(m, args)
    PROVE  Tame(scope, m, o)
<1> DEFINE cells == Cells(m, args)
           lists == {i \in DOMAIN cells : IsCons(m, CarOf(m, cells[i]))}
           first == cells[Min(lists)]
           slots == Cardinality(Reached(m, Addresses({args})))
           start == [m |-> m, list |-> CarOf(m, first), tail |-> CarOf(m, first),
                     slot |-> At(m, first).cdr]
           Step(f) == [n \in 0 .. slots |-> IF n = 0 THEN start ELSE AppendSlot(f[n - 1])]
           joined == CHOOSE f : f = Step(f)
<1>1. \/ lists = {} /\ o \in Returns(m, Nil)
      \/ lists # {} /\ o \in Returns(joined[slots].m, joined[slots].list)
  BY DEF builtin_append
<1>2. CASE lists = {} /\ o \in Returns(m, Nil)
  BY <1>2, SimplePlain, PlainTame DEF Simple
<1>3. CASE lists # {} /\ o \in Returns(joined[slots].m, joined[slots].list)
  <2>1. slots \in Nat
    <3> DEFINE C == Addressed(scope, m)
               R == Reached(m, Addresses({args}))
    <3>1. Addresses({args}) \subseteq C
      BY DEF Addresses, Live, Addressed
    <3>2. m.next \in Nat /\ C \subseteq 1 .. (m.next - 1) /\ Closed(m, C)
      BY SoundClosed DEF SoundIn, Addressed
    <3> HIDE DEF C
    <3>3. R \subseteq C
      BY <3>1, <3>2, ReachedLeast
    <3> HIDE DEF R
    <3>4. IsFiniteSet(1 .. (m.next - 1))
      <4> DEFINE top == m.next - 1
      <4>1. top \in Int /\ 1 \in Int
        BY <3>2
      <4> HIDE DEF top
      <4>2. IsFiniteSet(1 .. top)
        BY <4>1, FS_Interval
      <4> QED BY <4>2 DEF top
    <3>5. R \subseteq 1 .. (m.next - 1)
      BY <3>2, <3>3
    <3>6. IsFiniteSet(R)
      BY <3>4, <3>5, FS_Subset
    <3>7. Cardinality(R) \in Nat
      BY <3>6, FS_CardinalityType
    <3> QED BY <3>7 DEF R
  <2>2. AllWithin(scope, m, Addressed(scope, m), cells) /\ \A w \in Range(cells) : IsCons(m, w)
    <3>1. Within(args, Addressed(scope, m))
      BY DEF Live, Within, Addressed
    <3> QED BY <3>1, SoundClosed, CellsWithin
  <2> HIDE DEF cells
  <2>3. Min(lists) \in DOMAIN cells
    <3>1. lists \in SUBSET Nat
      BY <2>2 DEF AllWithin, IsStack
    <3>2. lists \subseteq DOMAIN cells
      OBVIOUS
    <3> HIDE DEF lists
    <3>3. Min(lists) \in lists
      BY <1>3, <3>1, MinIn
    <3> QED BY <3>2, <3>3
  <2>4. Live(scope, m, first) /\ IsCons(m, first)
    <3>1. first \in Range(cells)
      BY <2>3 DEF Range
    <3> QED BY <2>2, <3>1 DEF AllWithin
  <2> HIDE DEF first, slots
  <2>5. Live(scope, m, CarOf(m, first)) /\ Live(scope, m, At(m, first).cdr)
    BY <2>4, CarLive, ConsFields
  <2>6. Joining(scope, m, start)
    <3>1. Changes(m, m, {"heap"})
      BY DEF Changes, SoundIn
    <3> QED BY <2>5, <3>1 DEF Joining
  <2> HIDE DEF start
  <2>7. PICK f : JoinedBuilt(f, m, start, slots)
    BY <2>1, JoinedExists
  <2>8. f = Step(f)
    BY <2>7 DEF JoinedBuilt
  <2> HIDE DEF Step
  <2>9. joined = Step(joined)
    BY <2>8, Zenon
  <2> HIDE DEF joined
  <2>10. joined[0] = start /\ \A n \in 0 .. (slots - 1) : joined[n + 1] = AppendSlot(joined[n])
    BY <2>1, <2>9 DEF Step
  <2> DEFINE S == {n \in Nat : Joining(scope, m, joined[n])}
  <2>11. 0 \in S
    BY <2>6, <2>10
  <2>12. ASSUME NEW n \in 0 .. (slots - 1), n \in S PROVE n + 1 \in S
    BY <2>1, <2>10, <2>12, AppendSlotJoins
  <2>13. \A n \in 0 .. slots : n \in S
    <3> HIDE DEF S
    <3> QED BY <2>1, <2>11, <2>12, UpTo
  <2> DEFINE j == joined[slots]
  <2>14. Joining(scope, m, j)
    BY <2>1, <2>13
  <2>15. o.m = j.m /\ o.value = j.list
    BY <1>3 DEF Returns, Outcome
  <2> HIDE DEF j
  <2>16. /\ Changes(m, j.m, {"heap", "next", "gensyms", "printed", "aborted", "running"})
         /\ j.m.aborted = m.aborted /\ j.m.running = m.running
    BY <2>14 DEF Joining, Changes, MachineFields
  <2> QED BY <2>14, <2>15, <2>16 DEF Joining, Tame
<1> QED BY <1>1, <1>2, <1>3

\* Whatever builtin is called, with whatever arguments.
LEMMA BuiltinTame ==
    ASSUME NEW scope, NEW m, SoundIn(scope, m), NEW name, NEW args, Live(scope, m, args), NEW o \in Builtin(m, name, args)
    PROVE  Tame(scope, m, o)
<1>1. o \in builtin_add(m, args) => Simple(m, o)
  BY DEF Simple, builtin_add, Numeric
<1>2. o \in builtin_sub(m, args) => Simple(m, o)
  BY DEF Simple, builtin_sub, Numeric
<1>3. o \in builtin_mul(m, args) => Simple(m, o)
  BY DEF Simple, builtin_mul, Numeric
<1>4. o \in builtin_min(m, args) => Simple(m, o)
  BY DEF Simple, builtin_min, Numeric
<1>5. o \in builtin_max(m, args) => Simple(m, o)
  BY DEF Simple, builtin_max, Numeric
<1>6. o \in builtin_div(m, args) => Simple(m, o)
  BY DEF Simple, builtin_div
<1>7. o \in builtin_rem(m, args) => Simple(m, o)
  BY DEF Simple, builtin_rem, NotANumber
<1>8. o \in builtin_random(m, args) => Simple(m, o)
  BY DEF Simple, builtin_random, BoundsOf
<1>9. o \in builtin_num_lt(m, args) => Simple(m, o)
  BY DEF Simple, builtin_num_lt, Chain, Scan, Truth
<1>10. o \in builtin_num_le(m, args) => Simple(m, o)
  BY DEF Simple, builtin_num_le, Chain, Scan, Truth
<1>11. o \in builtin_num_gt(m, args) => Simple(m, o)
  BY DEF Simple, builtin_num_gt, Chain, Scan, Truth
<1>12. o \in builtin_num_ge(m, args) => Simple(m, o)
  BY DEF Simple, builtin_num_ge, Chain, Scan, Truth
<1>13. o \in builtin_num_eq(m, args) => Simple(m, o)
  BY DEF Simple, builtin_num_eq, Pairwise, Scan, Truth
<1>14. o \in builtin_num_ne(m, args) => Simple(m, o)
  BY DEF Simple, builtin_num_ne, Pairwise, Scan, Truth
<1>15. o \in builtin_eq(m, args) => Simple(m, o)
  BY DEF Simple, builtin_eq, Truth
<1>16. o \in builtin_listp(m, args) => Simple(m, o)
  BY DEF Simple, builtin_listp, Predicate, Truth
<1>17. o \in builtin_null(m, args) => Simple(m, o)
  BY DEF Simple, builtin_null, Predicate, Truth
<1>18. o \in builtin_numberp(m, args) => Simple(m, o)
  BY DEF Simple, builtin_numberp, Predicate, Truth
<1>19. o \in builtin_minusp(m, args) => Simple(m, o)
  BY DEF Simple, builtin_minusp, NumberPredicate, Truth
<1>20. o \in builtin_plusp(m, args) => Simple(m, o)
  BY DEF Simple, builtin_plusp, NumberPredicate, Truth
<1>21. o \in builtin_zerop(m, args) => Simple(m, o)
  BY DEF Simple, builtin_zerop, NumberPredicate, Truth
<1>22. o \in builtin_even(m, args) => Simple(m, o)
  BY DEF Simple, builtin_even, NumberPredicate, Truth
<1>23. o \in builtin_odd(m, args) => Simple(m, o)
  BY DEF Simple, builtin_odd, NumberPredicate, Truth
<1>24. o \in builtin_abs(m, args) => Simple(m, o)
  BY DEF Simple, builtin_abs, Numeric
<1>25. o \in builtin_length(m, args) => Simple(m, o)
  BY DEF Simple, builtin_length
<1>26. o \in builtin_clear(m, args) => Simple(m, o)
  BY DEF Simple, builtin_clear
<1>27. o \in builtin_sleep(m, args) => Simple(m, o)
  BY DEF Simple, builtin_sleep
<1>28. ASSUME Simple(m, o) PROVE Tame(scope, m, o)
  BY <1>28, SimplePlain, PlainTame
<1>29. o \in builtin_nth(m, args) \/ o \in builtin_nthcdr(m, args) => Tame(scope, m, o)
  BY WalkPlain, PlainTame
<1>30. \/ o \in builtin_print(m, args) \/ o \in builtin_gensym(m, args)
       \/ o \in builtin_range(m, args) \/ o \in builtin_reverse(m, args)
       \/ o \in builtin_append(m, args)
       => Tame(scope, m, o)
  BY PrintTame, GensymTame, RangeTame, ReverseTame, AppendTame
<1>31. \/ o \in builtin_nth(m, args) \/ o \in builtin_nthcdr(m, args)
       \/ o \in builtin_print(m, args) \/ o \in builtin_gensym(m, args)
       \/ o \in builtin_range(m, args) \/ o \in builtin_reverse(m, args)
       \/ o \in builtin_append(m, args)
       \/ o \in builtin_add(m, args) \/ o \in builtin_sub(m, args)
       \/ o \in builtin_mul(m, args) \/ o \in builtin_min(m, args)
       \/ o \in builtin_max(m, args) \/ o \in builtin_div(m, args)
       \/ o \in builtin_rem(m, args) \/ o \in builtin_random(m, args)
       \/ o \in builtin_num_lt(m, args) \/ o \in builtin_num_le(m, args)
       \/ o \in builtin_num_gt(m, args) \/ o \in builtin_num_ge(m, args)
       \/ o \in builtin_num_eq(m, args) \/ o \in builtin_num_ne(m, args)
       \/ o \in builtin_eq(m, args) \/ o \in builtin_listp(m, args)
       \/ o \in builtin_null(m, args) \/ o \in builtin_numberp(m, args)
       \/ o \in builtin_minusp(m, args) \/ o \in builtin_plusp(m, args)
       \/ o \in builtin_zerop(m, args) \/ o \in builtin_even(m, args)
       \/ o \in builtin_odd(m, args) \/ o \in builtin_abs(m, args)
       \/ o \in builtin_length(m, args) \/ o \in builtin_clear(m, args)
       \/ o \in builtin_sleep(m, args)
  BY DEF Builtin
<1> QED BY <1>1, <1>2, <1>3, <1>4, <1>5, <1>6, <1>7, <1>8, <1>9, <1>10, <1>11, <1>12, <1>13, <1>14, <1>15, <1>16, <1>17, <1>18, <1>19, <1>20, <1>21, <1>22, <1>23, <1>24, <1>25, <1>26, <1>27, <1>28, <1>29, <1>30, <1>31

-----------------------------------------------------------------------------
(* The execution state. *)

\* The heap is as it was, and the stacks hold values that are there.
LEMMA SoundExec ==
    ASSUME NEW scope, NEW m, SoundIn(scope, m), NEW n, DOMAIN n = MachineFields,
           n.next = m.next, n.codes = m.codes, n.heap = m.heap,
           n.forbid \in Nat, n.error_count \in Nat, Live(scope, m, n.env), KindOf(m, n.env) = "env",
           IsStack(n.stack), \A v \in Range(n.stack) : Live(scope, m, v),
           IsStack(n.temp_roots), \A v \in Range(n.temp_roots) : Live(scope, m, v),
           IsStack(n.call_stack), \A f \in Range(n.call_stack) : FrameFits(scope, m, f)
    PROVE  SoundIn(scope, n)
<1>1. Parts(scope, m)
  BY SoundParts
<1>2. \A w : (Live(scope, n, w) <=> Live(scope, m, w)) /\ KindOf(n, w) = KindOf(m, w) /\ At(n, w) = At(m, w)
  BY DEF Live, KindOf, At
<1>3. \A o : ObjectSound(scope, n, o) <=> ObjectSound(scope, m, o)
  BY <1>2 DEF ObjectSound, References
<1>4. \A f : FrameFits(scope, n, f) <=> FrameFits(scope, m, f)
  BY <1>2 DEF FrameFits, FrameSound
<1>5. Parts(scope, n)
  BY <1>1, <1>2, <1>3, <1>4 DEF Parts, Addressed
<1> QED BY <1>5, SoundParts

LEMMA PushIs ==
    ASSUME NEW scope, NEW m, SoundIn(scope, m), NEW v, Live(scope, m, v)
    PROVE  /\ SoundIn(scope, Push(m, v)) /\ Changes(m, Push(m, v), {"stack"})
           /\ Push(m, v).stack = Append(m.stack, v) /\ Top(Push(m, v)) = v
           /\ Len(m.stack) \in Nat /\ Len(Push(m, v).stack) = Len(m.stack) + 1
<1> DEFINE n == Push(m, v)
<1>1. Parts(scope, m)
  BY SoundParts
<1>2. Changes(m, n, {"stack"}) /\ n.stack = Append(m.stack, v)
  BY <1>1 DEF Parts, Changes, Push, MachineFields
<1> HIDE DEF n
<1>3. /\ IsStack(n.stack) /\ Range(n.stack) = Range(m.stack) \cup {v}
      /\ Len(n.stack) = Len(m.stack) + 1 /\ Top(n) = v
  BY <1>1, <1>2, StackPush DEF Parts, Top
<1>4. /\ DOMAIN n = MachineFields /\ n.next = m.next /\ n.codes = m.codes /\ n.heap = m.heap
      /\ n.temp_roots = m.temp_roots /\ n.call_stack = m.call_stack
      /\ n.forbid = m.forbid /\ n.error_count = m.error_count /\ n.env = m.env
  BY <1>2 DEF Changes, MachineFields
<1>5. SoundIn(scope, n)
  BY <1>1, <1>3, <1>4, SoundExec DEF Parts
<1>6. Len(m.stack) \in Nat
  BY <1>1 DEF Parts, IsStack
<1> QED BY <1>2, <1>3, <1>5, <1>6 DEF n

LEMMA PopIs ==
    ASSUME NEW scope, NEW m, SoundIn(scope, m)
    PROVE  /\ SoundIn(scope, Pop(m)) /\ Changes(m, Pop(m), {"stack"})
           /\ Pop(m).stack = Front(m.stack)
           /\ Len(m.stack) > 0 => Live(scope, m, Top(m)) /\ Len(Pop(m).stack) = Len(m.stack) - 1
           /\ Len(m.stack) \in Nat
<1> DEFINE n == Pop(m)
<1>1. Parts(scope, m)
  BY SoundParts
<1>2. Changes(m, n, {"stack"}) /\ n.stack = Front(m.stack)
  BY <1>1 DEF Parts, Changes, Pop, MachineFields
<1> HIDE DEF n
<1>3. /\ IsStack(n.stack) /\ Range(n.stack) \subseteq Range(m.stack)
      /\ Len(m.stack) > 0 => Last(m.stack) \in Range(m.stack) /\ Len(n.stack) = Len(m.stack) - 1
  BY <1>1, <1>2, StackPop DEF Parts
<1>4. /\ DOMAIN n = MachineFields /\ n.next = m.next /\ n.codes = m.codes /\ n.heap = m.heap
      /\ n.temp_roots = m.temp_roots /\ n.call_stack = m.call_stack
      /\ n.forbid = m.forbid /\ n.error_count = m.error_count /\ n.env = m.env
  BY <1>2 DEF Changes, MachineFields
<1>5. SoundIn(scope, n)
  BY <1>1, <1>3, <1>4, SoundExec DEF Parts
<1>6. Len(m.stack) > 0 => Live(scope, m, Top(m))
  BY <1>1, <1>3 DEF Parts, Top
<1>7. Len(m.stack) \in Nat
  BY <1>1 DEF Parts, IsStack
<1> QED BY <1>2, <1>3, <1>5, <1>6, <1>7 DEF n

\* A value that is popped and kept as a temp root is held.
LEMMA TakeIs ==
    ASSUME NEW scope, NEW m, SoundIn(scope, m), Len(m.stack) > 0
    PROVE  /\ SoundIn(scope, Take(m)) /\ Changes(m, Take(m), {"stack", "temp_roots"})
           /\ Take(m).stack = Front(m.stack) /\ Len(Take(m).stack) = Len(m.stack) - 1
           /\ Len(m.stack) \in Nat /\ Take(m).temp_roots = Append(m.temp_roots, Top(m))
           /\ Held(scope, Take(m), Top(m)) /\ Live(scope, m, Top(m))
           /\ \A w : /\ At(Take(m), w) = At(m, w) /\ KindOf(Take(m), w) = KindOf(m, w)
                     /\ Live(scope, m, w) => Live(scope, Take(m), w)
<1> DEFINE p == Pop(m)
           v == Top(m)
<1>1. /\ SoundIn(scope, p) /\ Changes(m, p, {"stack"}) /\ p.stack = Front(m.stack)
      /\ Live(scope, m, v) /\ Len(p.stack) = Len(m.stack) - 1 /\ Len(m.stack) \in Nat
  BY PopIs
<1>2. Take(m) = PushTemp(p, v)
  BY DEF Take
<1> HIDE DEF p, v
<1>3. p.heap = m.heap /\ p.temp_roots = m.temp_roots
  BY <1>1 DEF Changes, MachineFields
<1>4. Live(scope, p, v)
  BY <1>1, <1>3 DEF Live
<1>5. Changes(p, PushTemp(p, v), {"temp_roots"}) /\ PushTemp(p, v).temp_roots = Append(m.temp_roots, v)
  BY <1>1, <1>3, PushTempIs DEF SoundIn
<1>6. SoundIn(scope, PushTemp(p, v)) /\ Held(scope, PushTemp(p, v), v)
  BY <1>1, <1>4, PushTempSound
<1> DEFINE n == PushTemp(p, v)
<1> HIDE DEF n
<1>7. Changes(m, n, {"stack", "temp_roots"}) /\ n.stack = p.stack /\ n.heap = m.heap
  BY <1>1, <1>3, <1>5 DEF Changes, MachineFields, n
<1>8. \A w : At(n, w) = At(m, w) /\ KindOf(n, w) = KindOf(m, w) /\ (Live(scope, m, w) => Live(scope, n, w))
  BY <1>7 DEF At, KindOf, Live
<1> QED BY <1>1, <1>2, <1>5, <1>6, <1>7, <1>8 DEF n, v

\* The end of hll_interpret_bytecode_internal.
LEMMA ReturnIs ==
    ASSUME NEW scope, NEW m, SoundIn(scope, m), NEW v
    PROVE  /\ SoundIn(scope, Return(m, v))
           /\ Changes(m, Return(m, v), {"stack", "call_stack", "result", "running", "temp_roots"})
           /\ Return(m, v).temp_roots = Front(m.temp_roots) /\ Return(m, v).running = FALSE
<1> DEFINE p == [m EXCEPT !.stack = <<>>, !.call_stack = <<>>, !.result = v, !.running = FALSE]
<1>1. Parts(scope, m)
  BY SoundParts
<1>2. /\ Changes(m, p, {"stack", "call_stack", "result", "running"})
      /\ p.stack = <<>> /\ p.call_stack = <<>> /\ p.running = FALSE
  BY <1>1 DEF Parts, Changes, MachineFields
<1>3. Return(m, v) = PopTemp(p)
  BY DEF Return
<1> HIDE DEF p
<1>4. /\ DOMAIN p = MachineFields /\ p.next = m.next /\ p.codes = m.codes /\ p.heap = m.heap
      /\ p.temp_roots = m.temp_roots
      /\ p.forbid = m.forbid /\ p.error_count = m.error_count /\ p.env = m.env
  BY <1>2 DEF Changes, MachineFields
<1>5. SoundIn(scope, p)
  BY <1>1, <1>2, <1>4, SoundExec, EmptyStack DEF Parts
<1> DEFINE n == PopTemp(p)
<1>6. SoundIn(scope, n) /\ Changes(p, n, {"temp_roots"}) /\ n.temp_roots = Front(m.temp_roots)
  BY <1>4, <1>5, PopTempSound, PopTempIs
<1> HIDE DEF n
<1>7. n.running = FALSE /\ Changes(m, n, {"stack", "call_stack", "result", "running", "temp_roots"})
  BY <1>2, <1>6 DEF Changes, MachineFields
<1> QED BY <1>3, <1>6, <1>7 DEF n

\* What a handler may make of the machine.
Handles(scope, m, n) ==
    /\ SoundIn(scope, n)
    /\ \/ n.aborted = TRUE /\ n.running = FALSE
       \/ n.error_count = m.error_count + 1 /\ n.running = FALSE
       \/ /\ n.aborted = m.aborted /\ n.running = m.running /\ n.error_count = m.error_count
          /\ n.forbid = m.forbid /\ n.temp_roots = m.temp_roots

\* A handler that goes on in the same frame, with k more values on the stack.
Leaves(m, n, k) ==
    n.running => n.call_stack = m.call_stack /\ n.env = m.env /\ Len(n.stack) = Len(m.stack) + k

\* A runtime error counts and stops.
LEMMA ErrorIs ==
    ASSUME NEW scope, NEW m, SoundIn(scope, m)
    PROVE  /\ SoundIn(scope, RuntimeError(m)) /\ RuntimeError(m).running = FALSE
           /\ RuntimeError(m).error_count = m.error_count + 1
<1> DEFINE p == [m EXCEPT !.error_count = @ + 1]
<1>1. Parts(scope, m)
  BY SoundParts
<1>2. Changes(m, p, {"error_count"}) /\ p.error_count = m.error_count + 1
  BY <1>1 DEF Parts, Changes, MachineFields
<1>3. RuntimeError(m) = Return(p, Nil)
  BY DEF RuntimeError
<1> HIDE DEF p
<1>4. /\ DOMAIN p = MachineFields /\ p.next = m.next /\ p.codes = m.codes /\ p.heap = m.heap
      /\ p.temp_roots = m.temp_roots /\ p.stack = m.stack /\ p.call_stack = m.call_stack
      /\ p.forbid = m.forbid /\ p.env = m.env /\ m.forbid \in Nat /\ p.error_count \in Nat
  BY <1>1, <1>2 DEF Changes, MachineFields, Parts
<1>5. SoundIn(scope, p)
  BY <1>4, SoundAlike
<1> DEFINE n == Return(p, Nil)
<1>6. SoundIn(scope, n) /\ Changes(p, n, {"stack", "call_stack", "result", "running", "temp_roots"}) /\ n.running = FALSE
  BY <1>5, ReturnIs
<1> HIDE DEF n
<1>7. n.error_count = m.error_count + 1
  BY <1>2, <1>6 DEF Changes, MachineFields
<1> QED BY <1>3, <1>6, <1>7 DEF n

\* Whatever was rooted before, the handler ends in an error.
LEMMA ErrorHandles ==
    ASSUME NEW scope, NEW m, NEW p, SoundIn(scope, p), p.error_count = m.error_count
    PROVE  Handles(scope, m, RuntimeError(p)) /\ \A k : Leaves(m, RuntimeError(p), k)
BY ErrorIs DEF Handles, Leaves

\* So does an assertion stop.
LEMMA AbortHandles ==
    ASSUME NEW scope, NEW m, NEW p, SoundIn(scope, p)
    PROVE  /\ Handles(scope, m, Abort(p)) /\ Abort(p).running = FALSE
           /\ \A k : Leaves(m, Abort(p), k)
BY AbortSound DEF Handles, Leaves

-----------------------------------------------------------------------------
(* Calls. *)

\* The machines in which the first k parameters are bound.
BoundBuilt(bound, m, params, args, env, k) ==
    bound = [n \in 0 .. k |-> IF n = 0 THEN {m}
                              ELSE BindOne(bound[n - 1], env, params[n], args[n])]

LEMMA BoundExists ==
    ASSUME NEW m, NEW params, NEW args, NEW env, NEW k \in Nat
    PROVE  \E f : BoundBuilt(f, m, params, args, env, k)
<1> DEFINE S == {n \in Nat : \E f : BoundBuilt(f, m, params, args, env, n)}
<1>1. 0 \in S
  <2> DEFINE f == [n \in 0 .. 0 |-> {m}]
  <2>1. BoundBuilt(f, m, params, args, env, 0)
    BY DEF BoundBuilt
  <2> QED BY <2>1
<1>2. ASSUME NEW n \in 0 .. (k - 1), n \in S PROVE n + 1 \in S
  <2>1. PICK f : BoundBuilt(f, m, params, args, env, n)
    BY <1>2
  <2> DEFINE g == [i \in 0 .. (n + 1) |-> IF i = n + 1 THEN BindOne(f[n], env, params[n + 1], args[n + 1])
                                          ELSE f[i]]
  <2>2. \A i \in 0 .. n : f[i] = IF i = 0 THEN {m} ELSE BindOne(f[i - 1], env, params[i], args[i])
    BY <2>1 DEF BoundBuilt
  <2>3. ASSUME NEW i \in 0 .. (n + 1)
        PROVE  g[i] = IF i = 0 THEN {m} ELSE BindOne(g[i - 1], env, params[i], args[i])
    <3>1. CASE i = n + 1
      <4>1. i - 1 = n /\ i # 0 /\ g[n] = f[n]
        BY <3>1
      <4>2. g[i] = BindOne(f[n], env, params[i], args[i])
        BY <3>1
      <4> QED BY <4>1, <4>2
    <3>2. CASE i # n + 1
      <4>1. i \in 0 .. n /\ (i # 0 => i - 1 \in 0 .. n)
        BY <3>2
      <4>2. g[i] = f[i] /\ (i # 0 => g[i - 1] = f[i - 1])
        BY <3>2, <4>1
      <4> QED BY <2>2, <4>1, <4>2
    <3> QED BY <3>1, <3>2
  <2>4. BoundBuilt(g, m, params, args, env, n + 1)
    BY <2>3 DEF BoundBuilt
  <2> QED BY <2>4
<1>3. \A n \in 0 .. k : n \in S
  <2> HIDE DEF S
  <2> QED BY <1>1, <1>2, UpTo
<1> QED BY <1>3

\* One parameter.
LEMMA BindOneKeeps ==
    ASSUME NEW scope, NEW m, SoundIn(scope, m), NEW ms, \A m1 \in ms : SoundIn(scope, m1) /\ Keeps(m, m1),
           NEW env, Held(scope, m, env), NEW param, Held(scope, m, param), IsCons(m, param),
           NEW arg, Held(scope, m, arg), IsCons(m, arg)
    PROVE  \A n \in BindOne(ms, env, param, arg) : SoundIn(scope, n) /\ Keeps(m, n)
<1> SUFFICES ASSUME NEW n \in BindOne(ms, env, param, arg) PROVE SoundIn(scope, n) /\ Keeps(m, n)
  OBVIOUS
<1>1. PICK m1 \in ms : n \in hll_add_variable(m1, env, At(m1, param).car, At(m1, arg).car)
  BY DEF BindOne
<1>2. SoundIn(scope, m1) /\ Keeps(m, m1)
  BY <1>1
<1>3. Held(scope, m1, env) /\ Held(scope, m1, param) /\ Held(scope, m1, arg) /\ IsCons(m1, param) /\ IsCons(m1, arg)
  BY <1>2, HeldKept DEF IsCons
<1>4. Held(scope, m1, At(m1, param).car) /\ Held(scope, m1, At(m1, arg).car)
  BY <1>2, <1>3, ConsFields DEF Held
<1>5. SoundIn(scope, n) /\ Keeps(m1, n)
  BY <1>1, <1>2, <1>3, <1>4, AddVariable
<1> QED BY <1>2, <1>5, KeepsThen DEF SoundIn

\* All of them, and the rest.
LEMMA BindEachKeeps ==
    ASSUME NEW scope, NEW m, SoundIn(scope, m), NEW names, NEW values, NEW env,
           Held(scope, m, names), Held(scope, m, values), Held(scope, m, env),
           NEW r \in BindEach(m, names, values, env)
    PROVE  SoundIn(scope, r.m) /\ Keeps(m, r.m)
<1> DEFINE params == Cdrs(m, names)
           args == Cdrs(m, values)
           needed == Len(params) - 1
           Step(f) == [n \in 0 .. needed |-> IF n = 0 THEN {m} ELSE BindOne(f[n - 1], env, params[n], args[n])]
           bound == CHOOSE f : f = Step(f)
<1>1. \/ Len(args) - 1 < needed /\ \E m1 \in bound[Len(args) - 1] : r = [m |-> m1, ok |-> FALSE]
      \/ /\ ~(Len(args) - 1 < needed)
         /\ \E m1 \in bound[needed] :
               \/ r = [m |-> m1, ok |-> TRUE]
               \/ \E m3 \in hll_add_variable(m1, env, Last(params), args[needed + 1]) :
                     r = [m |-> m3, ok |-> TRUE]
  BY DEF BindEach
<1> DEFINE R == Rooted(m)
<1>2. R \subseteq Addressed(scope, m) /\ Closed(m, R)
  BY RootedIs
<1>3. /\ Len(params) \in Nat \ {0}
      /\ \A i \in 1 .. Len(params) : Held(scope, m, params[i])
      /\ \A i \in 1 .. (Len(params) - 1) : IsCons(m, params[i])
      /\ Held(scope, m, Last(params))
  <2>1. Live(scope, m, names) /\ Within(names, R)
    BY DEF Held
  <2>2. /\ Len(params) \in Nat \ {0}
        /\ \A i \in 1 .. Len(params) : Live(scope, m, params[i]) /\ Within(params[i], R)
        /\ \A i \in 1 .. (Len(params) - 1) : IsCons(m, params[i])
        /\ Last(params) = params[Len(params)]
    <3> HIDE DEF R
    <3> QED BY <1>2, <2>1, CdrsWithin
  <2> HIDE DEF params
  <2> QED BY <2>2 DEF Held
<1>4. /\ Len(args) \in Nat \ {0}
      /\ \A i \in 1 .. Len(args) : Held(scope, m, args[i])
      /\ \A i \in 1 .. (Len(args) - 1) : IsCons(m, args[i])
  <2>1. Live(scope, m, values) /\ Within(values, R)
    BY DEF Held
  <2>2. /\ Len(args) \in Nat \ {0}
        /\ \A i \in 1 .. Len(args) : Live(scope, m, args[i]) /\ Within(args[i], R)
        /\ \A i \in 1 .. (Len(args) - 1) : IsCons(m, args[i])
    <3> HIDE DEF R
    <3> QED BY <1>2, <2>1, CdrsWithin
  <2> HIDE DEF args
  <2> QED BY <2>2 DEF Held
<1> HIDE DEF params, args, R
<1>5. needed \in Nat
  BY <1>3
<1>6. PICK f : BoundBuilt(f, m, params, args, env, needed)
  <2> HIDE DEF needed
  <2> QED BY <1>5, BoundExists
<1>7. f = Step(f)
  BY <1>6 DEF BoundBuilt
<1> HIDE DEF Step
<1>8. bound = Step(bound)
  BY <1>7, Zenon
<1> HIDE DEF bound
<1>9. bound[0] = {m} /\ \A n \in 0 .. (needed - 1) : bound[n + 1] = BindOne(bound[n], env, params[n + 1], args[n + 1])
  <2> HIDE DEF needed
  <2>1. \A i \in 0 .. needed : bound[i] = IF i = 0 THEN {m} ELSE BindOne(bound[i - 1], env, params[i], args[i])
    BY <1>8 DEF Step
  <2>2. bound[0] = {m}
    BY <1>5, <2>1
  <2>3. ASSUME NEW n \in 0 .. (needed - 1)
        PROVE  bound[n + 1] = BindOne(bound[n], env, params[n + 1], args[n + 1])
    <3>1. n + 1 \in 0 .. needed /\ n + 1 # 0 /\ (n + 1) - 1 = n
      BY <1>5
    <3> QED BY <2>1, <3>1
  <2> QED BY <2>2, <2>3
<1> DEFINE k == IF Len(args) - 1 < needed THEN Len(args) - 1 ELSE needed
           S == {n \in Nat : \A m1 \in bound[n] : SoundIn(scope, m1) /\ Keeps(m, m1)}
<1>10. k \in Nat /\ k <= needed /\ k <= Len(args) - 1
  BY <1>4, <1>5
<1> HIDE DEF k
<1>11. 0 \in S
  BY <1>9, KeepsSelf
<1>12. ASSUME NEW n \in 0 .. (k - 1), n \in S PROVE n + 1 \in S
  <2>1. n + 1 \in 1 .. (Len(params) - 1) /\ n + 1 \in 1 .. (Len(args) - 1) /\ n \in 0 .. (needed - 1)
    BY <1>3, <1>4, <1>10
  <2> DEFINE param == params[n + 1]
             arg == args[n + 1]
             ms == bound[n]
  <2>2. Held(scope, m, param) /\ IsCons(m, param) /\ Held(scope, m, arg) /\ IsCons(m, arg)
    BY <1>3, <1>4, <2>1
  <2>3. \A m1 \in ms : SoundIn(scope, m1) /\ Keeps(m, m1)
    BY <1>12
  <2>4. bound[n + 1] = BindOne(ms, env, param, arg)
    BY <1>9, <2>1
  <2> HIDE DEF param, arg, ms
  <2>5. \A m1 \in bound[n + 1] : SoundIn(scope, m1) /\ Keeps(m, m1)
    BY <2>2, <2>3, <2>4, BindOneKeeps
  <2> QED BY <2>5
<1>13. \A m1 \in bound[k] : SoundIn(scope, m1) /\ Keeps(m, m1)
  <2>1. \A n \in 0 .. k : n \in S
    <3> HIDE DEF S
    <3> QED BY <1>10, <1>11, <1>12, UpTo
  <2> QED BY <1>10, <2>1
<1>14. CASE Len(args) - 1 < needed
  BY <1>1, <1>13, <1>14 DEF k
<1>15. CASE ~(Len(args) - 1 < needed)
  <2>1. \A m1 \in bound[needed] : SoundIn(scope, m1) /\ Keeps(m, m1)
    BY <1>13, <1>15 DEF k
  <2>2. PICK m1 \in bound[needed] :
           \/ r = [m |-> m1, ok |-> TRUE]
           \/ \E m3 \in hll_add_variable(m1, env, Last(params), args[needed + 1]) : r = [m |-> m3, ok |-> TRUE]
    BY <1>1, <1>15
  <2>3. CASE r = [m |-> m1, ok |-> TRUE]
    BY <2>1, <2>3
  <2>4. ASSUME NEW m3 \in hll_add_variable(m1, env, Last(params), args[needed + 1]), r = [m |-> m3, ok |-> TRUE]
        PROVE  SoundIn(scope, r.m) /\ Keeps(m, r.m)
    <3> DEFINE name == Last(params)
               value == args[needed + 1]
    <3>1. Held(scope, m, name) /\ Held(scope, m, value)
      BY <1>3, <1>4, <1>5, <1>15
    <3> HIDE DEF name, value
    <3>2. SoundIn(scope, m1) /\ Keeps(m, m1)
      BY <2>1
    <3>3. Held(scope, m1, name) /\ Held(scope, m1, value) /\ Held(scope, m1, env)
      BY <3>1, <3>2, HeldKept
    <3>4. SoundIn(scope, m3) /\ Keeps(m1, m3)
      BY <2>4, <3>2, <3>3, AddVariable DEF name, value
    <3>5. Keeps(m, m3)
      BY <3>2, <3>4, KeepsThen DEF SoundIn
    <3> QED BY <2>4, <3>4, <3>5
  <2> QED BY <2>2, <2>3, <2>4
<1> QED BY <1>14, <1>15

LEMMA BindParamsKeeps ==
    ASSUME NEW scope, NEW m, SoundIn(scope, m), NEW func, Held(scope, m, func), KindOf(m, func) = "func",
           NEW args, Held(scope, m, args), NEW env, Held(scope, m, env),
           NEW r \in BindParams(m, func, args, env)
    PROVE  SoundIn(scope, r.m) /\ Keeps(m, r.m)
<1> DEFINE names == At(m, func).param_names
           rest == At(m, names).cdr
<1>1. Held(scope, m, names)
  BY FuncFields DEF Held
<1> HIDE DEF names
<1>2. CASE r \in BindEach(m, names, args, env)
  BY <1>1, <1>2, BindEachKeeps
<1>3. CASE IsCons(m, names) /\ IsCons(m, rest) /\ r \in BindEach(m, At(m, rest).car, args, env)
  <2>1. Held(scope, m, rest)
    BY <1>1, <1>3, ConsFields DEF Held
  <2> HIDE DEF rest
  <2> DEFINE names2 == At(m, rest).car
  <2>2. Held(scope, m, names2)
    BY <1>3, <2>1, ConsFields DEF Held
  <2> HIDE DEF names2
  <2> QED BY <1>3, <2>2, BindEachKeeps DEF names2
<1>4. CASE r = [m |-> Abort(m), ok |-> TRUE]
  <2>1. r.m = Abort(m)
    BY <1>4
  <2> QED BY <2>1, AbortSound
<1> QED BY <1>2, <1>3, <1>4 DEF BindParams, names

\* A frame is entered, or the one that runs is entered again.
Enters(m, n, mbtr) ==
    \/ \E frame : frame.ip = 1 /\ frame.env = m.env /\ n.call_stack = Append(m.call_stack, frame)
    \/ mbtr = TRUE /\ n.call_stack = [m.call_stack EXCEPT ![Len(m.call_stack)].ip = 1]

\* The frame of a function that is called is one of a function that is there.
LEMMA EnterIs ==
    ASSUME NEW scope, NEW m, SoundIn(scope, m), Len(m.call_stack) > 0, NEW callable, Live(scope, m, callable),
           KindOf(m, callable) = "func", NEW env, Live(scope, m, env), KindOf(m, env) = "env", NEW mbtr
    PROVE  /\ SoundIn(scope, EnterFunction(m, callable, env, mbtr))
           /\ Changes(m, EnterFunction(m, callable, env, mbtr), {"call_stack", "env"})
           /\ EnterFunction(m, callable, env, mbtr).env = env
           /\ Enters(m, EnterFunction(m, callable, env, mbtr), mbtr)
<1> DEFINE code == At(m, callable).bytecode
           frame == Frame(code, m.env, callable)
           s == m.call_stack
           last == s[Len(s)]
           again == [last EXCEPT !.ip = 1]
           n == EnterFunction(m, callable, env, mbtr)
<1>1. Parts(scope, m)
  BY SoundParts
<1>2. /\ Changes(m, n, {"call_stack", "env"}) /\ n.env = env
      /\ n.call_stack \in {[s EXCEPT ![Len(s)] = again], Append(s, frame)}
  BY <1>1 DEF Parts, EnterFunction, Changes, MachineFields
<1>0. Enters(m, n, mbtr)
  <2>1. CASE n.call_stack = Append(s, frame)
    <3>1. frame.ip = 1 /\ frame.env = m.env
      BY DEF Frame
    <3> HIDE DEF frame, n
    <3> QED BY <2>1, <3>1 DEF Enters
  <2>2. CASE n.call_stack = [s EXCEPT ![Len(s)] = again] /\ mbtr = TRUE
    <3>1. n.call_stack = [m.call_stack EXCEPT ![Len(m.call_stack)].ip = 1]
      BY <2>2
    <3> HIDE DEF n
    <3> QED BY <2>2, <3>1 DEF Enters
  <2>3. mbtr \/ n.call_stack = Append(s, frame)
    BY <1>1 DEF Parts, EnterFunction, MachineFields
  <2> QED BY <1>2, <2>1, <2>2, <2>3
<1>3. FrameFits(scope, m, frame)
  BY <1>1 DEF FrameFits, FrameSound, Frame, Parts
<1>4. IsStack(s) /\ last \in Range(s)
  <2>1. Last(s) \in Range(s)
    BY <1>1, StackPop DEF Parts
  <2> QED BY <1>1, <2>1 DEF Parts, Last
<1>5. FrameFits(scope, m, last)
  BY <1>1, <1>4 DEF Parts
<1> HIDE DEF frame, s, last, n
<1>6. FrameFits(scope, m, again)
  BY <1>5 DEF FrameFits, FrameSound
<1> HIDE DEF again
<1>7. IsStack(n.call_stack) /\ Range(n.call_stack) \subseteq Range(s) \cup {frame, again}
  <2>1. CASE n.call_stack = Append(s, frame)
    BY <1>4, <2>1, StackPush
  <2>2. CASE n.call_stack = [s EXCEPT ![Len(s)] = again]
    <3> DEFINE i == Len(s)
               put == [s EXCEPT ![i] = again]
    <3>1. n.call_stack = put
      BY <2>2
    <3> HIDE DEF i
    <3>2. IsStack(put) /\ Range(put) \subseteq Range(s) \cup {again}
      BY <1>4, StackPut
    <3> HIDE DEF put
    <3> QED BY <3>1, <3>2
  <2> QED BY <1>2, <2>1, <2>2
<1>8. \A f \in Range(n.call_stack) : FrameFits(scope, m, f)
  BY <1>1, <1>3, <1>6, <1>7 DEF Parts, s
<1>9. /\ DOMAIN n = MachineFields /\ n.next = m.next /\ n.codes = m.codes /\ n.heap = m.heap
      /\ n.temp_roots = m.temp_roots /\ n.stack = m.stack
      /\ n.forbid = m.forbid /\ n.error_count = m.error_count
  BY <1>2 DEF Changes, MachineFields
<1>10. SoundIn(scope, n)
  BY <1>1, <1>2, <1>7, <1>8, <1>9, SoundExec DEF Parts
<1> QED BY <1>0, <1>2, <1>10 DEF n

\* A call of a function: the new environment is held while its variables are made.
LEMMA CallFunctionHandles ==
    ASSUME NEW scope, NEW m, SoundIn(scope, m), Len(m.call_stack) > 0, NEW callable, Held(scope, m, callable),
           KindOf(m, callable) = "func", NEW args, Held(scope, m, args), NEW mbtr,
           NEW n \in CallFunction(m, callable, args, mbtr)
    PROVE  /\ Handles(scope, m, n)
           /\ n.running => Enters(m, n, mbtr) /\ n.stack = m.stack /\ KindOf(n, n.env) = "env"
<1> DEFINE new_env == Fresh(m)
           o == EnvObj(Nil, At(m, callable).env)
<1>1. PICK m1 \in New(m, o) : \E r \in BindParams(PushTemp(m1, new_env), callable, args, new_env) :
         n = IF r.ok THEN EnterFunction(PopTemp(r.m), callable, new_env, mbtr) ELSE RuntimeError(r.m)
  BY DEF CallFunction
<1> DEFINE p == PushTemp(m1, new_env)
<1>2. PICK r \in BindParams(p, callable, args, new_env) :
         n = IF r.ok THEN EnterFunction(PopTemp(r.m), callable, new_env, mbtr) ELSE RuntimeError(r.m)
  BY <1>1
<1>3. ObjectHeld(scope, m, o)
  <2>1. Held(scope, m, At(m, callable).env)
    BY FuncFields DEF Held
  <2> QED BY <2>1, HeldAtoms DEF ObjectHeld, EnvObj, ObjectFields, References
<1>4. /\ SoundIn(scope, m1) /\ Keeps(m, m1) /\ Live(scope, m1, new_env)
      /\ Changes(m, m1, {"heap", "next"}) /\ KindOf(m1, new_env) = "env"
  <2>1. o.kind = "env"
    BY DEF EnvObj
  <2> HIDE DEF o
  <2>2. Allocated(scope, m, o, m1)
    BY NewAllocates
  <2>3. m1.heap[m.next] = o
    BY <1>3, <2>2, AllocatedIs
  <2>4. KindOf(m1, new_env) = "env"
    BY <2>1, <2>3, Refs DEF KindOf, At, Fresh
  <2> QED BY <1>3, <2>2, <2>4, AllocatedIs
<1>5. Live(scope, m1, new_env)
  BY <1>4
<1>6. Held(scope, m1, callable) /\ Held(scope, m1, args) /\ KindOf(m1, callable) = "func"
  BY <1>4, HeldKept
<1>7. /\ SoundIn(scope, p) /\ Held(scope, p, new_env) /\ Held(scope, p, callable) /\ Held(scope, p, args)
      /\ KindOf(p, callable) = "func" /\ KindOf(p, new_env) = "env"
      /\ Changes(m1, p, {"temp_roots"}) /\ p.temp_roots = Append(m1.temp_roots, new_env)
  BY <1>4, <1>5, <1>6, PushTempSound, PushTempIs, SoundIs
<1> HIDE DEF p, new_env
<1> DEFINE q == r.m
<1>8. SoundIn(scope, q) /\ Keeps(p, q)
  BY <1>7, BindParamsKeeps
<1>9. /\ Held(scope, q, new_env) /\ Held(scope, q, callable) /\ KindOf(q, callable) = "func"
      /\ KindOf(q, new_env) = "env"
  BY <1>7, <1>8, HeldKept
<1>10. /\ q.temp_roots = Append(m.temp_roots, new_env) /\ q.call_stack = m.call_stack
       /\ q.stack = m.stack /\ q.env = m.env
       /\ q.error_count = m.error_count /\ q.forbid = m.forbid
       /\ \/ q.aborted = m.aborted /\ q.running = m.running
          \/ q.aborted = TRUE /\ q.running = FALSE
  BY <1>4, <1>7, <1>8 DEF Keeps, Changes, MachineFields
<1> HIDE DEF q
<1>11. CASE ~r.ok
  <2>1. n = RuntimeError(q)
    BY <1>2, <1>11 DEF q
  <2> QED BY <1>8, <1>10, <2>1, ErrorIs DEF Handles
<1>12. CASE r.ok
  <2> DEFINE u == PopTemp(q)
  <2>1. n = EnterFunction(u, callable, new_env, mbtr)
    BY <1>2, <1>12 DEF q
  <2>2. SoundIn(scope, u) /\ Changes(q, u, {"temp_roots"}) /\ u.temp_roots = Front(q.temp_roots)
    BY <1>8, PopTempSound, PopTempIs DEF SoundIn
  <2> HIDE DEF u
  <2>3. u.temp_roots = m.temp_roots
    BY <1>10, <2>2, StackPush DEF SoundIn
  <2>4. u.heap = q.heap /\ u.call_stack = m.call_stack /\ u.stack = m.stack /\ u.env = m.env
    BY <1>10, <2>2 DEF Changes, MachineFields
  <2>5. /\ Live(scope, u, new_env) /\ KindOf(u, new_env) = "env"
        /\ Live(scope, u, callable) /\ KindOf(u, callable) = "func"
    BY <1>9, <2>4 DEF Held, Live, KindOf, At
  <2>6. SoundIn(scope, n) /\ Changes(u, n, {"call_stack", "env"}) /\ n.env = new_env /\ Enters(u, n, mbtr)
    BY <2>1, <2>2, <2>4, <2>5, EnterIs
  <2>7. /\ n.temp_roots = m.temp_roots /\ n.error_count = m.error_count /\ n.forbid = m.forbid
        /\ \/ n.aborted = m.aborted /\ n.running = m.running
           \/ n.aborted = TRUE /\ n.running = FALSE
    BY <1>10, <2>2, <2>3, <2>6 DEF Changes, MachineFields
  <2>8. Enters(m, n, mbtr)
    BY <2>4, <2>6 DEF Enters
  <2>9. n.stack = m.stack /\ KindOf(n, n.env) = "env"
    BY <1>9, <2>4, <2>6 DEF Changes, MachineFields, KindOf, At
  <2> QED BY <2>6, <2>7, <2>8, <2>9 DEF Handles
<1> QED BY <1>11, <1>12

\* A call of a builtin: collections are allowed again when it returns.
LEMMA CallBindHandles ==
    ASSUME NEW scope, NEW m, SoundIn(scope, m), NEW callable, NEW args, Live(scope, m, args),
           NEW n \in CallBind(m, callable, args)
    PROVE  Handles(scope, m, n) /\ Leaves(m, n, 1)
<1> DEFINE p == Forbid(m)
           name == At(m, callable).bind
<1>1. PICK r \in Builtin(p, name, args) : n = IF r.ok THEN Push(Allow(r.m), r.value) ELSE RuntimeError(r.m)
  BY DEF CallBind
<1>2. Parts(scope, m)
  BY SoundParts
<1>3. Changes(m, p, {"forbid"}) /\ p.forbid = m.forbid + 1
  BY <1>2 DEF Parts, Forbid, Changes, MachineFields
<1> HIDE DEF p, name
<1>4. /\ DOMAIN p = MachineFields /\ p.next = m.next /\ p.codes = m.codes /\ p.heap = m.heap
      /\ p.temp_roots = m.temp_roots /\ p.stack = m.stack /\ p.call_stack = m.call_stack
      /\ p.env = m.env /\ p.error_count = m.error_count /\ p.forbid \in Nat
      /\ m.forbid \in Nat /\ m.error_count \in Nat
  BY <1>2, <1>3 DEF Changes, MachineFields, Parts
<1>5. SoundIn(scope, p)
  BY <1>4, SoundAlike
<1>6. Live(scope, p, args)
  BY <1>4 DEF Live
<1> DEFINE q == r.m
<1>7. Tame(scope, p, r)
  BY <1>5, <1>6, BuiltinTame
<1>8. /\ SoundIn(scope, q) /\ Live(scope, q, r.value) /\ q.temp_roots = m.temp_roots
      /\ q.error_count = m.error_count /\ q.forbid = m.forbid + 1
      /\ q.stack = m.stack /\ q.call_stack = m.call_stack /\ q.env = m.env
      /\ \/ q.aborted = m.aborted /\ q.running = m.running
         \/ q.aborted = TRUE /\ q.running = FALSE
  BY <1>3, <1>7 DEF Tame, Changes, MachineFields
<1> HIDE DEF q
<1>9. CASE ~r.ok
  <2>1. n = RuntimeError(q)
    BY <1>1, <1>9 DEF q
  <2> QED BY <1>8, <2>1, ErrorHandles
<1>10. CASE r.ok
  <2> DEFINE u == Allow(q)
             v == r.value
  <2>1. n = Push(u, v)
    BY <1>1, <1>10 DEF q
  <2>2. Changes(q, u, {"forbid"}) /\ u.forbid = m.forbid
    BY <1>4, <1>8 DEF Allow, Changes, MachineFields, SoundIn
  <2> HIDE DEF u, v
  <2>3. /\ DOMAIN u = MachineFields /\ u.next = q.next /\ u.codes = q.codes /\ u.heap = q.heap
        /\ u.temp_roots = q.temp_roots /\ u.stack = q.stack /\ u.call_stack = q.call_stack
        /\ u.env = q.env /\ u.error_count = q.error_count /\ u.error_count \in Nat /\ u.forbid \in Nat
    BY <1>4, <1>8, <2>2 DEF Changes, MachineFields
  <2>4. SoundIn(scope, u)
    BY <1>8, <2>3, SoundAlike
  <2>5. Live(scope, u, v)
    BY <1>8, <2>3 DEF Live, v
  <2>6. SoundIn(scope, n) /\ Changes(u, n, {"stack"}) /\ Len(n.stack) = Len(u.stack) + 1
    BY <2>1, <2>4, <2>5, PushIs
  <2>7. /\ n.temp_roots = m.temp_roots /\ n.error_count = m.error_count /\ n.forbid = m.forbid
        /\ \/ n.aborted = m.aborted /\ n.running = m.running
           \/ n.aborted = TRUE /\ n.running = FALSE
    BY <1>8, <2>2, <2>6 DEF Changes, MachineFields
  <2>8. n.call_stack = m.call_stack /\ n.env = m.env /\ Len(n.stack) = Len(m.stack) + 1
    BY <1>8, <2>2, <2>6 DEF Changes, MachineFields
  <2> QED BY <2>6, <2>7, <2>8 DEF Handles, Leaves
<1> QED BY <1>9, <1>10

\* What a call may make of the machine if it goes on.
Calls(m, n, mbtr) ==
    n.running => \/ Leaves(m, n, -1)
                 \/ /\ Enters(m, n, mbtr) /\ Len(n.stack) = Len(m.stack) + (-2)
                    /\ KindOf(n, n.env) = "env"

\* HLL_BC_CALL and HLL_BC_MBTRCALL, with callable and arguments as temp roots.
LEMMA CallHandles ==
    ASSUME NEW scope, NEW m, SoundIn(scope, m), m.running = TRUE, Len(m.call_stack) > 0, Len(m.stack) > 1, NEW mbtr,
           NEW n \in CallWith(m, mbtr)
    PROVE  Handles(scope, m, n) /\ Calls(m, n, mbtr)
<1> DEFINE args == Top(m)
           callable == Top(Pop(m))
           p == Take(m)
           q == Take(p)
<1>1. PICK m1 \in call_func(q, callable, args, mbtr) : n = Unroot(Unroot(m1))
  BY DEF CallWith
<1>2. Len(m.stack) \in Nat
  BY DEF SoundIn, IsStack
<1>3. /\ SoundIn(scope, p) /\ Changes(m, p, {"stack", "temp_roots"}) /\ p.stack = Front(m.stack)
      /\ Len(p.stack) = Len(m.stack) - 1 /\ p.temp_roots = Append(m.temp_roots, args)
      /\ Held(scope, p, args)
  <2> Len(m.stack) > 0
    BY <1>2
  <2> QED BY TakeIs
<1>4. callable = Top(p)
  BY <1>3, PopIs DEF Top
<1> HIDE DEF args, callable, p
<1>5. Len(p.stack) > 0
  BY <1>2, <1>3
<1>6. /\ SoundIn(scope, q) /\ Changes(p, q, {"stack", "temp_roots"})
      /\ q.temp_roots = Append(p.temp_roots, callable) /\ Held(scope, q, callable)
      /\ Len(q.stack) = Len(p.stack) - 1
  BY <1>3, <1>4, <1>5, TakeIs
<1> HIDE DEF q
<1>7. IsStack(m.temp_roots) /\ IsStack(p.temp_roots)
  BY <1>3 DEF SoundIn
<1>8. /\ q.error_count = m.error_count /\ q.forbid = m.forbid /\ q.call_stack = m.call_stack
      /\ q.aborted = m.aborted /\ q.running = TRUE /\ q.env = m.env
  BY <1>3, <1>6 DEF Changes, MachineFields
<1>9. Held(scope, q, args)
  <2>1. args \in Range(p.temp_roots)
    BY <1>3, <1>7, StackPush
  <2>2. args \in Range(q.temp_roots)
    BY <1>6, <1>7, <2>1, StackPush
  <2>3. args \in RootValues(q)
    BY <2>2 DEF RootValues
  <2> QED BY <1>6, <2>3, HeldRoots
<1>10. /\ Handles(scope, q, m1)
       /\ m1.running => \/ Leaves(q, m1, 1)
                        \/ Enters(q, m1, mbtr) /\ m1.stack = q.stack /\ KindOf(m1, m1.env) = "env"
  <2>1. CASE KindOf(q, callable) = "func"
    <3>1. m1 \in CallFunction(q, callable, args, mbtr)
      BY <1>1, <2>1 DEF call_func
    <3> QED BY <1>6, <1>8, <1>9, <2>1, <3>1, CallFunctionHandles
  <2>2. CASE KindOf(q, callable) = "bind"
    <3>1. m1 \in CallBind(q, callable, args)
      BY <1>1, <2>2 DEF call_func
    <3> QED BY <1>6, <1>9, <3>1, CallBindHandles DEF Held
  <2>3. CASE KindOf(q, callable) \notin {"func", "bind"}
    <3>1. m1 = RuntimeError(q)
      BY <1>1, <2>3 DEF call_func
    <3> QED BY <1>6, <3>1, ErrorHandles
  <2> QED BY <2>1, <2>2, <2>3
<1>11. CASE ~m1.running
  <2>1. n = m1
    BY <1>1, <1>11 DEF Unroot
  <2> QED BY <1>8, <1>10, <1>11, <2>1 DEF Handles, Calls
<1>12. CASE m1.running
  <2> DEFINE u == PopTemp(m1)
             w == PopTemp(u)
  <2>1. /\ SoundIn(scope, m1) /\ m1.aborted = m.aborted /\ m1.running = TRUE /\ m1.error_count = m.error_count
        /\ m1.forbid = m.forbid /\ m1.temp_roots = q.temp_roots
    BY <1>8, <1>10, <1>12 DEF Handles
  <2>2. SoundIn(scope, u) /\ Changes(m1, u, {"temp_roots"}) /\ u.temp_roots = Front(m1.temp_roots)
    BY <2>1, PopTempSound, PopTempIs DEF SoundIn
  <2>3. Unroot(m1) = u
    BY <1>12 DEF Unroot
  <2> HIDE DEF u
  <2>4. SoundIn(scope, w) /\ Changes(u, w, {"temp_roots"}) /\ w.temp_roots = Front(u.temp_roots)
    BY <2>2, PopTempSound, PopTempIs DEF SoundIn
  <2>5. u.running = TRUE
    BY <2>1, <2>2 DEF Changes, MachineFields
  <2>6. n = w
    BY <1>1, <2>3, <2>5 DEF Unroot
  <2> HIDE DEF w
  <2>7. u.temp_roots = p.temp_roots
    BY <1>6, <1>7, <2>1, <2>2, StackPush
  <2>8. w.temp_roots = m.temp_roots
    BY <1>3, <1>7, <2>4, <2>7, StackPush
  <2>9. /\ w.aborted = m.aborted /\ w.running = TRUE /\ w.error_count = m.error_count
        /\ w.forbid = m.forbid
    BY <2>1, <2>2, <2>4 DEF Changes, MachineFields
  <2>10. w.call_stack = m1.call_stack /\ w.env = m1.env /\ w.stack = m1.stack /\ w.heap = m1.heap
    BY <2>2, <2>4 DEF Changes, MachineFields
  <2>11. Calls(m, w, mbtr)
    <3>1. CASE Leaves(q, m1, 1)
      <4>1. w.call_stack = m.call_stack /\ w.env = m.env /\ Len(w.stack) = Len(q.stack) + 1
        BY <1>8, <1>12, <2>10, <3>1 DEF Leaves
      <4>2. Len(w.stack) = Len(m.stack) + (-1)
        BY <1>2, <1>3, <1>6, <4>1
      <4> QED BY <4>1, <4>2 DEF Calls, Leaves
    <3>2. CASE Enters(q, m1, mbtr) /\ m1.stack = q.stack /\ KindOf(m1, m1.env) = "env"
      <4>1. Enters(m, w, mbtr)
        BY <1>8, <2>10, <3>2 DEF Enters
      <4>2. KindOf(w, w.env) = "env"
        BY <2>10, <3>2 DEF KindOf, At
      <4>3. Len(w.stack) = Len(m.stack) + (-2)
        BY <1>2, <1>3, <1>6, <2>10, <3>2
      <4> QED BY <4>1, <4>2, <4>3 DEF Calls
    <3> QED BY <1>10, <1>12, <3>1, <3>2
  <2> QED BY <2>4, <2>6, <2>8, <2>9, <2>11 DEF Handles
<1> QED BY <1>11, <1>12

-----------------------------------------------------------------------------
(* The other instructions. *)

LEMMA EndHandles ==
    ASSUME NEW scope, NEW m, SoundIn(scope, m), Len(m.call_stack) > 0, NEW n \in End(m)
    PROVE  /\ Handles(scope, m, n) /\ n.call_stack = Front(m.call_stack)
           /\ n.env = Last(m.call_stack).env /\ n.stack = m.stack
<1> DEFINE s == m.call_stack
           last == Last(s)
<1>1. Parts(scope, m)
  BY SoundParts
<1>2. /\ Changes(m, n, {"env", "call_stack"})
      /\ n.env = last.env /\ n.call_stack = Front(s)
  BY <1>1 DEF Parts, Changes, MachineFields, End, CurrentFrame
<1>3. IsStack(s) /\ Len(s) > 0 /\ \A f \in Range(s) : FrameFits(scope, m, f)
  BY <1>1 DEF Parts
<1> HIDE DEF s
<1>4. IsStack(Front(s)) /\ Range(Front(s)) \subseteq Range(s) /\ last \in Range(s)
  BY <1>3, StackPop
<1> HIDE DEF last
<1>5. /\ Live(scope, m, n.env) /\ KindOf(m, n.env) = "env"
      /\ IsStack(n.call_stack) /\ \A f \in Range(n.call_stack) : FrameFits(scope, m, f)
  BY <1>2, <1>3, <1>4 DEF FrameFits, FrameSound
<1>6. /\ DOMAIN n = MachineFields /\ n.next = m.next /\ n.codes = m.codes /\ n.heap = m.heap
      /\ n.temp_roots = m.temp_roots /\ n.stack = m.stack
      /\ n.forbid = m.forbid /\ n.error_count = m.error_count
      /\ n.aborted = m.aborted /\ n.running = m.running
  BY <1>2 DEF Changes, MachineFields
<1>7. SoundIn(scope, n)
  BY <1>1, <1>5, <1>6, SoundExec DEF Parts
<1> QED BY <1>2, <1>6, <1>7 DEF Handles, s, last

\* A handler that only replaces the stack.
LEMMA StackHandles ==
    ASSUME NEW scope, NEW m, NEW n, SoundIn(scope, n), Changes(m, n, {"stack"}),
           NEW k, Len(n.stack) = Len(m.stack) + k
    PROVE  Handles(scope, m, n) /\ Leaves(m, n, k)
BY DEF Handles, Leaves, Changes, MachineFields

\* One that takes a value.
LEMMA PopHandles ==
    ASSUME NEW scope, NEW m, SoundIn(scope, m), Len(m.stack) > 0
    PROVE  Handles(scope, m, Pop(m)) /\ Leaves(m, Pop(m), -1)
<1> DEFINE n == Pop(m)
<1>1. SoundIn(scope, n) /\ Changes(m, n, {"stack"}) /\ Len(n.stack) = Len(m.stack) - 1 /\ Len(m.stack) \in Nat
  BY PopIs
<1> HIDE DEF n
<1>2. Len(n.stack) = Len(m.stack) + (-1)
  BY <1>1
<1> QED BY <1>1, <1>2, StackHandles DEF n

\* One that leaves a value.
LEMMA PushHandles ==
    ASSUME NEW scope, NEW m, SoundIn(scope, m), NEW v, Live(scope, m, v)
    PROVE  Handles(scope, m, Push(m, v)) /\ Leaves(m, Push(m, v), 1)
BY PushIs, StackHandles

LEMMA DiscardHandles ==
    ASSUME NEW scope, NEW m, SoundIn(scope, m), Len(m.stack) > 0, NEW n \in Discard(m)
    PROVE  Handles(scope, m, n) /\ Leaves(m, n, -1)
BY PopHandles DEF Discard

LEMMA AtomHandles ==
    ASSUME NEW scope, NEW m, SoundIn(scope, m), NEW n, n \in PushNil(m) \/ n \in PushTrue(m)
    PROVE  Handles(scope, m, n) /\ Leaves(m, n, 1) /\ (n \in PushNil(m) => Top(n) = Nil)
<1>1. CASE n = Push(m, Nil)
  BY <1>1, Atoms, PushIs, PushHandles
<1>2. CASE n = Push(m, T) /\ n # Push(m, Nil)
  BY <1>2, Atoms, PushHandles DEF PushNil
<1> QED BY <1>1, <1>2 DEF PushNil, PushTrue

\* The constants of the code that runs are kept by the function that runs it.
LEMMA ConstantHeld ==
    ASSUME NEW scope, NEW m, SoundIn(scope, m), Len(m.call_stack) > 0, HasConstant(m)
    PROVE  Held(scope, m, ConstantOf(m))
<1> DEFINE s == m.call_stack
           frame == Last(s)
           f == frame.func
           pool == m.codes[frame.bytecode].constant_pool
<1>1. Parts(scope, m)
  BY SoundParts
<1>2. IsStack(s) /\ Len(s) > 0
  BY <1>1 DEF Parts
<1>3. frame \in Range(s)
  <2> HIDE DEF s
  <2> QED BY <1>2, StackPop
<1>4. FrameSound(m, frame)
  BY <1>1, <1>3 DEF Parts, FrameFits
<1>5. f \in RootValues(m)
  BY <1>3 DEF RootValues
<1>6. Held(scope, m, f) /\ KindOf(m, f) = "func" /\ At(m, f).bytecode = frame.bytecode
  BY <1>4, <1>5, HeldRoots DEF FrameSound
<1>7. ConstantOf(m) \in Range(pool)
  BY DEF ConstantOf, HasConstant, Code, CurrentFrame, Range
<1> HIDE DEF f, frame
<1>8. Range(pool) \subseteq References(m, At(m, f)) /\ \A w \in References(m, At(m, f)) : Held(scope, m, w)
  BY <1>6, FuncFields DEF Held
<1> QED BY <1>7, <1>8

LEMMA ConstantHandles ==
    ASSUME NEW scope, NEW m, SoundIn(scope, m), Len(m.call_stack) > 0, NEW n \in Constant(m)
    PROVE  Handles(scope, m, n) /\ Leaves(m, n, 1)
<1>1. CASE HasConstant(m)
  <2>1. Live(scope, m, ConstantOf(m))
    BY <1>1, ConstantHeld DEF Held
  <2>2. n = Push(m, ConstantOf(m))
    BY <1>1 DEF Constant
  <2> QED BY <2>1, <2>2, PushHandles
<1>2. CASE ~HasConstant(m)
  <2>1. n = Abort(m)
    BY <1>2 DEF Constant
  <2> QED BY <2>1, AbortHandles
<1> QED BY <1>1, <1>2

LEMMA PopTempIsSound ==
    ASSUME NEW scope, NEW m, SoundIn(scope, m)
    PROVE  /\ SoundIn(scope, PopTemp(m)) /\ Changes(m, PopTemp(m), {"temp_roots"})
           /\ PopTemp(m).temp_roots = Front(m.temp_roots)
BY PopTempSound, PopTempIs DEF SoundIn

LEMMA FindHandles ==
    ASSUME NEW scope, NEW m, SoundIn(scope, m), Len(m.stack) > 0, NEW n \in Find(m)
    PROVE  Handles(scope, m, n) /\ Leaves(m, n, 0)
<1> DEFINE p == Take(m)
           v == Top(m)
           slot == hll_find_var(p, p.env, At(p, v).name)
           q == PopTemp(p)
<1>1. /\ SoundIn(scope, p) /\ Changes(m, p, {"stack", "temp_roots"})
      /\ p.temp_roots = Append(m.temp_roots, v)
      /\ Len(p.stack) = Len(m.stack) - 1 /\ Len(m.stack) \in Nat
  BY TakeIs
<1>2. n \in {RuntimeError(p), Abort(p), Push(q, slot)}
  BY DEF Find
<1> HIDE DEF p, v
<1>3. Live(scope, p, slot)
  <2>1. Live(scope, p, p.env)
    BY <1>1, SoundParts DEF Parts
  <2> QED BY <1>1, <2>1, FindVarLive
<1>4. SoundIn(scope, q) /\ Changes(p, q, {"temp_roots"}) /\ q.temp_roots = Front(p.temp_roots)
  BY <1>1, PopTempIsSound
<1> HIDE DEF q, slot
<1>5. q.temp_roots = m.temp_roots
  BY <1>1, <1>4, StackPush DEF SoundIn
<1>6. Live(scope, q, slot)
  BY <1>3, <1>4 DEF Live, Changes, MachineFields
<1>7. CASE n = Push(q, slot)
  <2>1. SoundIn(scope, n) /\ Changes(q, n, {"stack"}) /\ Len(n.stack) = Len(q.stack) + 1
    BY <1>4, <1>6, <1>7, PushIs
  <2>2. /\ n.temp_roots = m.temp_roots /\ n.aborted = m.aborted /\ n.running = m.running
        /\ n.error_count = m.error_count /\ n.forbid = m.forbid
        /\ n.call_stack = m.call_stack /\ n.env = m.env /\ q.stack = p.stack
    BY <1>1, <1>4, <1>5, <2>1 DEF Changes, MachineFields
  <2>3. Len(n.stack) = Len(m.stack) + 0
    BY <1>1, <2>1, <2>2
  <2> QED BY <2>1, <2>2, <2>3 DEF Handles, Leaves
<1>8. CASE n = Abort(p)
  BY <1>1, <1>8, AbortHandles
<1>9. CASE n = RuntimeError(p)
  <2>1. p.error_count = m.error_count
    BY <1>1 DEF Changes, MachineFields
  <2> QED BY <1>1, <1>9, <2>1, ErrorHandles
<1> QED BY <1>2, <1>7, <1>8, <1>9

\* An allocation, in short.
LEMMA NewIs ==
    ASSUME NEW scope, NEW m, SoundIn(scope, m), NEW o, ObjectHeld(scope, m, o), NEW n \in New(m, o)
    PROVE  /\ SoundIn(scope, n) /\ Keeps(m, n) /\ Changes(m, n, {"heap", "next"})
           /\ m.next \in DOMAIN n.heap /\ n.heap[m.next] = o /\ Live(scope, n, Fresh(m))
<1>1. Allocated(scope, m, o, n)
  BY NewAllocates
<1> QED BY <1>1, AllocatedIs

\* A handler that goes to another environment.
LEMMA EnvHandles ==
    ASSUME NEW scope, NEW m, SoundIn(scope, m), NEW env, Live(scope, m, env), KindOf(m, env) = "env"
    PROVE  /\ SoundIn(scope, [m EXCEPT !.env = env]) /\ Changes(m, [m EXCEPT !.env = env], {"env"})
           /\ [m EXCEPT !.env = env].env = env
<1> DEFINE n == [m EXCEPT !.env = env]
<1>1. Parts(scope, m)
  BY SoundParts
<1>2. Changes(m, n, {"env"}) /\ n.env = env
  BY <1>1 DEF Parts, Changes, MachineFields
<1> HIDE DEF n
<1>3. /\ DOMAIN n = MachineFields /\ n.next = m.next /\ n.codes = m.codes /\ n.heap = m.heap
      /\ n.temp_roots = m.temp_roots /\ n.stack = m.stack /\ n.call_stack = m.call_stack
      /\ n.forbid = m.forbid /\ n.error_count = m.error_count
  BY <1>2 DEF Changes, MachineFields
<1>4. SoundIn(scope, n)
  BY <1>1, <1>2, <1>3, SoundExec DEF Parts
<1> QED BY <1>2, <1>4 DEF n

LEMMA PushEnvHandles ==
    ASSUME NEW scope, NEW m, SoundIn(scope, m), NEW n \in PushEnv(m)
    PROVE  /\ Handles(scope, m, n) /\ n.call_stack = m.call_stack /\ n.stack = m.stack
           /\ KindOf(n, n.env) = "env" /\ At(n, n.env).up = m.env
<1> DEFINE o == EnvObj(Nil, m.env)
<1>1. PICK m1 \in New(m, o) : n = [m1 EXCEPT !.env = Fresh(m)]
  BY DEF PushEnv
<1>2. ObjectHeld(scope, m, o)
  <2>1. Held(scope, m, m.env)
    BY HeldRoots DEF RootValues
  <2> QED BY <2>1, HeldAtoms DEF ObjectHeld, EnvObj, ObjectFields, References
<1>3. o.kind = "env" /\ o.up = m.env
  BY DEF EnvObj
<1> HIDE DEF o
<1>4. /\ SoundIn(scope, m1) /\ Changes(m, m1, {"heap", "next"}) /\ Live(scope, m1, Fresh(m))
      /\ m1.heap[m.next] = o
  BY <1>1, <1>2, NewIs
<1>5. SoundIn(scope, n) /\ Changes(m1, n, {"env"}) /\ n.env = Fresh(m)
  <2>1. KindOf(m1, Fresh(m)) = "env"
    BY <1>3, <1>4, Refs DEF KindOf, At, Fresh
  <2> QED BY <1>1, <1>4, <2>1, EnvHandles
<1>6. n.heap[m.next] = o /\ n.call_stack = m.call_stack /\ n.stack = m.stack
  BY <1>4, <1>5 DEF Changes, MachineFields
<1>7. KindOf(n, n.env) = "env" /\ At(n, n.env).up = m.env
  BY <1>3, <1>5, <1>6, Refs DEF KindOf, At, Fresh
<1> QED BY <1>4, <1>5, <1>6, <1>7 DEF Handles, Changes, MachineFields

LEMMA PopEnvHandles ==
    ASSUME NEW scope, NEW m, SoundIn(scope, m), NEW n \in PopEnv(m)
    PROVE  /\ Handles(scope, m, n)
           /\ n.running => /\ n.call_stack = m.call_stack /\ n.stack = m.stack
                           /\ n.env = At(m, m.env).up
<1> DEFINE up == At(m, m.env).up
<1>1. CASE KindOf(m, m.env) = "env" /\ KindOf(m, up) = "env"
  <2>1. n = [m EXCEPT !.env = up]
    BY <1>1 DEF PopEnv
  <2>2. Live(scope, m, m.env)
    BY SoundParts DEF Parts
  <2>3. Live(scope, m, up)
    BY <1>1, <2>2, EnvFields
  <2> HIDE DEF up
  <2>4. SoundIn(scope, n) /\ Changes(m, n, {"env"}) /\ n.env = up
    BY <1>1, <2>1, <2>3, EnvHandles DEF up
  <2> QED BY <2>4 DEF Handles, Changes, MachineFields, up
<1>2. CASE ~(KindOf(m, m.env) = "env" /\ KindOf(m, up) = "env")
  <2>1. n = Abort(m)
    BY <1>2 DEF PopEnv
  <2> QED BY <2>1, AbortHandles
<1> QED BY <1>1, <1>2

LEMMA TakeFieldHandles ==
    ASSUME NEW scope, NEW m, SoundIn(scope, m), Len(m.stack) > 0, NEW field \in {"car", "cdr"},
           NEW n \in TakeField(m, field)
    PROVE  Handles(scope, m, n) /\ Leaves(m, n, 0)
<1> DEFINE v == Top(m)
           p == Pop(m)
           w == At(m, v)[field]
<1>1. /\ SoundIn(scope, p) /\ Changes(m, p, {"stack"}) /\ Live(scope, m, v)
      /\ Len(p.stack) = Len(m.stack) - 1 /\ Len(m.stack) \in Nat
  BY PopIs
<1>2. CASE v = Nil
  <2>1. n = Push(p, Nil)
    <3>1. ~IsCons(m, Nil)
      BY Atoms DEF IsCons, KindOf, Nil
    <3> QED BY <1>2, <3>1 DEF TakeField
  <2> HIDE DEF p
  <2>2. SoundIn(scope, n) /\ Changes(p, n, {"stack"}) /\ Len(n.stack) = Len(p.stack) + 1
    BY <1>1, <2>1, Atoms, PushIs
  <2>3. Len(n.stack) = Len(m.stack) + 0
    BY <1>1, <2>2
  <2>4. Changes(m, n, {"stack"})
    BY <1>1, <2>2 DEF Changes
  <2> QED BY <2>2, <2>3, <2>4, StackHandles
<1>3. CASE v # Nil /\ IsCons(m, v)
  <2>1. n = Push(p, w)
    BY <1>3 DEF TakeField
  <2>2. Live(scope, m, w)
    BY <1>1, <1>3, ConsFields
  <2> HIDE DEF p, v, w
  <2>3. Live(scope, p, w)
    BY <1>1, <2>2 DEF Live, Changes, MachineFields
  <2>4. SoundIn(scope, n) /\ Changes(p, n, {"stack"}) /\ Len(n.stack) = Len(p.stack) + 1
    BY <1>1, <2>1, <2>3, PushIs
  <2>5. Len(n.stack) = Len(m.stack) + 0
    BY <1>1, <2>4
  <2>6. Changes(m, n, {"stack"})
    BY <1>1, <2>4 DEF Changes
  <2> QED BY <2>4, <2>5, <2>6, StackHandles
<1>4. CASE v # Nil /\ ~IsCons(m, v)
  <2> DEFINE q == Take(m)
  <2>1. n = RuntimeError(q)
    BY <1>4 DEF TakeField
  <2>2. SoundIn(scope, q) /\ Changes(m, q, {"stack", "temp_roots"})
    BY TakeIs
  <2> HIDE DEF q
  <2>3. q.error_count = m.error_count
    BY <2>2 DEF Changes, MachineFields
  <2> QED BY <2>1, <2>2, <2>3, ErrorHandles
<1> QED BY <1>2, <1>3, <1>4

LEMMA SetFieldHandles ==
    ASSUME NEW scope, NEW m, SoundIn(scope, m), Len(m.stack) > 1, NEW field \in {"car", "cdr"},
           NEW n \in SetField(m, field)
    PROVE  Handles(scope, m, n) /\ Leaves(m, n, -1)
<1> DEFINE v == Top(m)
           p == Pop(m)
           cons == Top(p)
<1>1. Len(m.stack) \in Nat
  BY DEF SoundIn, IsStack
<1>2. SoundIn(scope, p) /\ Changes(m, p, {"stack"}) /\ Live(scope, m, v) /\ Len(p.stack) = Len(m.stack) - 1
  BY <1>1, PopIs
<1>3. CASE ~IsCons(p, cons)
  <2>1. n = Abort(p)
    BY <1>3 DEF SetField
  <2> QED BY <1>2, <2>1, AbortHandles
<1>4. CASE IsCons(p, cons)
  <2>1. n = [p EXCEPT !.heap[cons[2]][field] = v]
    BY <1>4 DEF SetField
  <2> HIDE DEF p, v
  <2>2. Len(p.stack) > 0
    BY <1>1, <1>2
  <2>3. Live(scope, p, cons)
    BY <1>2, <2>2, PopIs
  <2> DEFINE a == cons[2]
  <2>4. a \in Addressed(scope, p) /\ p.heap[a].kind = "cons"
    BY <1>2, <1>4, <2>3, ConsFields
  <2>5. DOMAIN p = MachineFields
    BY <1>2 DEF Changes
  <2>6. n = [p EXCEPT !.heap = [p.heap EXCEPT ![a] = [p.heap[a] EXCEPT ![field] = v]]]
    BY <2>1
  <2> HIDE DEF a, cons
  <2>7. Changes(p, n, {"heap"}) /\ n.heap = [p.heap EXCEPT ![a] = [p.heap[a] EXCEPT ![field] = v]]
    BY <2>5, <2>6 DEF Changes, MachineFields
  <2>8. Live(scope, p, v)
    BY <1>2 DEF Live, Changes, MachineFields
  <2>9. Settable(p.heap[a].kind, field)
    BY <2>4 DEF Settable
  <2>10. SoundIn(scope, n)
    <3> SoundIn(scope, p)
      BY <1>2
    <3> HIDE <1>2
    <3> QED BY <2>4, <2>7, <2>8, <2>9, FieldSet
  <2>11. Len(n.stack) = Len(m.stack) + (-1)
    BY <1>1, <1>2, <2>7 DEF Changes, MachineFields
  <2> QED BY <1>2, <2>7, <2>10, <2>11 DEF Handles, Leaves, Changes, MachineFields
<1> QED BY <1>3, <1>4

\* HLL_BC_LET, which keeps the value rooted while the name stays on the stack.
LEMMA DefineHandles ==
    ASSUME NEW scope, NEW m, SoundIn(scope, m), Len(m.stack) > 1, NEW n \in Define(m)
    PROVE  Handles(scope, m, n) /\ Leaves(m, n, -1)
<1> DEFINE p == Take(m)
           v == Top(m)
           name == Top(p)
<1>1. PICK q \in hll_add_variable(p, p.env, name, v) : n = PopTemp(q)
  BY DEF Define
<1>2. Len(m.stack) \in Nat
  BY DEF SoundIn, IsStack
<1>3. /\ SoundIn(scope, p) /\ Changes(m, p, {"stack", "temp_roots"}) /\ Held(scope, p, v)
      /\ p.temp_roots = Append(m.temp_roots, v) /\ Len(p.stack) = Len(m.stack) - 1
  <2> Len(m.stack) > 0
    BY <1>2
  <2> QED BY TakeIs
<1> HIDE DEF p, v
<1>4. Held(scope, p, p.env)
  BY <1>3, HeldRoots DEF RootValues
<1>5. Held(scope, p, name)
  <2> DEFINE s == p.stack
  <2>1. IsStack(s) /\ Len(s) > 0
    BY <1>2, <1>3 DEF SoundIn
  <2> HIDE DEF s
  <2>2. Last(s) \in Range(s)
    BY <2>1, StackPop
  <2>3. name \in RootValues(p)
    BY <2>2 DEF s, Top, RootValues
  <2> QED BY <1>3, <2>3, HeldRoots
<1> HIDE DEF name
<1>6. SoundIn(scope, q) /\ Keeps(p, q)
  BY <1>1, <1>3, <1>4, <1>5, AddVariable
<1>7. SoundIn(scope, n) /\ Changes(q, n, {"temp_roots"}) /\ n.temp_roots = Front(q.temp_roots)
  BY <1>1, <1>6, PopTempIsSound
<1>8. q.temp_roots = p.temp_roots
  BY <1>6 DEF Keeps, Changes, MachineFields
<1>9. n.temp_roots = m.temp_roots
  BY <1>3, <1>7, <1>8, StackPush DEF SoundIn
<1>10. /\ n.error_count = m.error_count /\ n.forbid = m.forbid
       /\ \/ n.aborted = m.aborted /\ n.running = m.running
          \/ n.aborted = TRUE /\ n.running = FALSE
  BY <1>3, <1>6, <1>7 DEF Keeps, Changes, MachineFields
<1>11. n.call_stack = m.call_stack /\ n.env = m.env /\ n.stack = p.stack
  BY <1>3, <1>6, <1>7 DEF Keeps, Changes, MachineFields
<1>12. Len(n.stack) = Len(m.stack) + (-1)
  BY <1>2, <1>3, <1>11
<1> QED BY <1>7, <1>9, <1>10, <1>11, <1>12 DEF Handles, Leaves

\* The ip of the running frame moves.
LEMMA AdvanceIs ==
    ASSUME NEW scope, NEW m, SoundIn(scope, m), Len(m.call_stack) > 0, NEW k
    PROVE  /\ SoundIn(scope, Advance(m, k)) /\ Changes(m, Advance(m, k), {"call_stack"})
           /\ Len(Advance(m, k).call_stack) = Len(m.call_stack)
<1> DEFINE s == m.call_stack
           i == Len(s)
           last == s[i]
           moved == [last EXCEPT !.ip = @ + k]
           put == [s EXCEPT ![i] = moved]
           n == Advance(m, k)
<1>1. Parts(scope, m)
  BY SoundParts
<1>2. IsStack(s) /\ Len(s) > 0 /\ \A f \in Range(s) : FrameFits(scope, m, f)
  BY <1>1 DEF Parts
<1>3. last \in Range(s)
  <2> HIDE DEF s
  <2> QED BY <1>2, StackPop DEF Last
<1>4. Changes(m, n, {"call_stack"}) /\ n.call_stack = put
  BY <1>1 DEF Parts, Changes, MachineFields, Advance
<1>5. FrameFits(scope, m, last)
  BY <1>2, <1>3
<1> HIDE DEF last
<1>6. FrameFits(scope, m, moved)
  BY <1>5 DEF FrameFits, FrameSound
<1> HIDE DEF moved, s, i, n
<1>7. IsStack(put) /\ Len(put) = Len(s) /\ Range(put) \subseteq Range(s) \cup {moved}
  BY <1>2, StackPut
<1>8. /\ DOMAIN n = MachineFields /\ n.next = m.next /\ n.codes = m.codes /\ n.heap = m.heap
      /\ n.temp_roots = m.temp_roots /\ n.stack = m.stack /\ n.env = m.env
      /\ n.forbid = m.forbid /\ n.error_count = m.error_count
  BY <1>4 DEF Changes, MachineFields
<1> HIDE DEF put
<1>9. IsStack(n.call_stack) /\ \A f \in Range(n.call_stack) : FrameFits(scope, m, f)
  BY <1>2, <1>4, <1>6, <1>7
<1>10. SoundIn(scope, n)
  BY <1>1, <1>8, <1>9, SoundExec DEF Parts
<1> QED BY <1>4, <1>7, <1>10 DEF n, s

LEMMA JumpHandles ==
    ASSUME NEW scope, NEW m, SoundIn(scope, m), Len(m.call_stack) > 0, Len(m.stack) > 0, NEW n \in JumpIfNil(m)
    PROVE  /\ Handles(scope, m, n)
           /\ n.running => /\ n.env = m.env /\ Len(n.stack) = Len(m.stack) + (-1)
                           /\ n.call_stack = IF Top(m) = Nil THEN Advance(m, Operand(m)).call_stack
                                             ELSE m.call_stack
<1> DEFINE p == Pop(m)
           q == Advance(p, Operand(m))
<1>1. IF Top(m) = Nil THEN n \in {q, Abort(q)} ELSE n = p
  BY DEF JumpIfNil
<1>2. /\ SoundIn(scope, p) /\ Changes(m, p, {"stack"})
      /\ Handles(scope, m, p) /\ Leaves(m, p, -1) /\ Len(p.stack) = Len(m.stack) - 1 /\ Len(m.stack) \in Nat
  BY PopIs, PopHandles
<1> DEFINE jumped == Advance(m, Operand(m)).call_stack
<1>0. q.call_stack = jumped
  <2>1. DOMAIN p = MachineFields /\ p.call_stack = m.call_stack /\ DOMAIN m = MachineFields
    BY <1>2, SoundIs DEF Changes, MachineFields
  <2> HIDE DEF p
  <2> QED BY <2>1 DEF Advance, MachineFields
<1> HIDE DEF p, jumped
<1>3. Len(p.call_stack) > 0
  BY <1>2 DEF Changes, MachineFields
<1>4. SoundIn(scope, q) /\ Changes(p, q, {"call_stack"})
  BY <1>2, <1>3, AdvanceIs
<1> HIDE DEF q
<1>5. CASE n = p /\ Top(m) # Nil
  BY <1>2, <1>5 DEF Leaves
<1>6. CASE n = q /\ Top(m) = Nil
  <2>1. n.env = m.env /\ n.stack = p.stack /\ n.call_stack = jumped
    BY <1>0, <1>2, <1>4, <1>6 DEF Changes, MachineFields
  <2>2. Len(n.stack) = Len(m.stack) + (-1)
    BY <1>2, <2>1
  <2>3. Handles(scope, m, n)
    BY <1>2, <1>4, <1>6 DEF Handles, Changes, MachineFields
  <2> QED BY <1>6, <2>1, <2>2, <2>3 DEF jumped
<1>7. CASE n = Abort(q)
  BY <1>4, <1>7, AbortHandles
<1> QED BY <1>1, <1>5, <1>6, <1>7

\* HLL_BC_MAKEFUN: the function it copies is a constant, so it is held.
LEMMA MakeFunctionHandles ==
    ASSUME NEW scope, NEW m, SoundIn(scope, m), Len(m.call_stack) > 0, NEW n \in MakeFunction(m)
    PROVE  Handles(scope, m, n) /\ Leaves(m, n, 1)
<1> DEFINE c == ConstantOf(m)
           func == At(m, c)
           o == FuncObj(func.param_names, func.bytecode)
<1>1. CASE ~HasConstant(m) \/ KindOf(m, c) # "func"
  <2>1. n = Abort(m)
    BY <1>1 DEF MakeFunction
  <2> QED BY <2>1, AbortHandles
<1>2. CASE HasConstant(m) /\ KindOf(m, c) = "func"
  <2>1. PICK m1 \in New(m, o) : n = Push([m1 EXCEPT !.heap[m.next].env = m1.env], Fresh(m))
    BY <1>2 DEF MakeFunction
  <2>2. Held(scope, m, c)
    BY <1>2, ConstantHeld
  <2> HIDE DEF c
  <2>3. /\ References(m, func) = {func.param_names, func.env}
                                 \cup Range(m.codes[func.bytecode].constant_pool)
        /\ \A w \in References(m, func) : Held(scope, m, w)
        /\ func.bytecode \in scope.runnable
    BY <1>2, <2>2, FuncFields DEF Held
  <2>4. ObjectHeld(scope, m, o)
    <3>1. References(m, o) = {func.param_names, Nil}
                             \cup Range(m.codes[func.bytecode].constant_pool)
      BY DEF References, FuncObj
    <3>2. \A w \in References(m, o) : Held(scope, m, w)
      BY <2>3, <3>1, HeldAtoms
    <3>3. o.kind = "func" /\ DOMAIN o = {"kind", "param_names", "bytecode", "env"}
      BY DEF FuncObj
    <3>4. o.bytecode \in scope.runnable
      BY <2>3 DEF FuncObj
    <3> HIDE DEF o
    <3> QED BY <3>2, <3>3, <3>4 DEF ObjectHeld, ObjectFields
  <2>5. o.kind = "func"
    BY DEF FuncObj
  <2> HIDE DEF o
  <2> DEFINE a == m.next
             v == m1.env
             m2 == [m1 EXCEPT !.heap[a].env = v]
             fresh == Fresh(m)
  <2>6. /\ SoundIn(scope, m1) /\ Changes(m, m1, {"heap", "next"}) /\ a \in Addressed(scope, m1)
        /\ m1.heap[a] = o /\ Live(scope, m1, fresh)
    BY <2>1, <2>4, NewIs, Refs DEF Live, Fresh, Addressed
  <2>7. Live(scope, m1, v) /\ DOMAIN m1 = MachineFields
    BY <2>6, SoundParts DEF Parts
  <2>8. n = Push(m2, fresh)
    BY <2>1
  <2> HIDE DEF fresh, a, v
  <2>9. Changes(m1, m2, {"heap"}) /\ m2.heap = [m1.heap EXCEPT ![a] = [m1.heap[a] EXCEPT !.env = v]]
    BY <2>7 DEF Changes, MachineFields
  <2> HIDE DEF m2
  <2>10. Settable(m1.heap[a].kind, "env")
    BY <2>5, <2>6 DEF Settable
  <2>11. SoundIn(scope, m2) /\ Live(scope, m2, fresh)
    BY <2>6, <2>7, <2>9, <2>10, FieldSet
  <2>12. SoundIn(scope, n) /\ Changes(m2, n, {"stack"}) /\ Len(n.stack) = Len(m2.stack) + 1
    BY <2>8, <2>11, PushIs
  <2> QED BY <2>6, <2>9, <2>12 DEF Handles, Leaves, Changes, MachineFields
<1> QED BY <1>1, <1>2

LEMMA StackIs ==
    ASSUME NEW scope, NEW m, SoundIn(scope, m), NEW n, Changes(m, n, {"stack"}),
           IsStack(n.stack), \A v \in Range(n.stack) : Live(scope, m, v)
    PROVE  SoundIn(scope, n)
<1>1. Parts(scope, m)
  BY SoundParts
<1>2. /\ DOMAIN n = MachineFields /\ n.next = m.next /\ n.codes = m.codes /\ n.heap = m.heap
      /\ n.temp_roots = m.temp_roots /\ n.call_stack = m.call_stack /\ n.env = m.env
      /\ n.forbid = m.forbid /\ n.error_count = m.error_count
  BY DEF Changes, MachineFields
<1> QED BY <1>1, <1>2, SoundExec DEF Parts

SameHeight(m, n) == Len(n.stack) = Len(m.stack)

LEMMA PutIs ==
    ASSUME NEW scope, NEW m, SoundIn(scope, m), NEW n, Changes(m, n, {"stack"}), NEW i, NEW v, Live(scope, m, v),
           n.stack = [m.stack EXCEPT ![i] = v]
    PROVE  SoundIn(scope, n) /\ IsStack(n.stack) /\ SameHeight(m, n)
<1> DEFINE s == m.stack
<1>1. IsStack(s) /\ \A w \in Range(s) : Live(scope, m, w)
  BY SoundParts DEF Parts
<1> DEFINE put == [s EXCEPT ![i] = v]
<1>2. n.stack = put
  OBVIOUS
<1> HIDE DEF s
<1>3. IsStack(put) /\ Range(put) \subseteq Range(s) \cup {v} /\ Len(put) = Len(s)
  BY <1>1, StackPut
<1> HIDE DEF put
<1>4. \A w \in Range(n.stack) : Live(scope, m, w)
  BY <1>1, <1>2, <1>3
<1>5. SameHeight(m, n)
  BY <1>2, <1>3 DEF SameHeight, s
<1> QED BY <1>2, <1>3, <1>4, <1>5, StackIs

\* The three ways the handler of HLL_BC_APPEND goes on from its allocation.
LEMMA FirstElement ==
    ASSUME NEW scope, NEW m, SoundIn(scope, m), NEW i, NEW k, NEW v, Live(scope, m, v), NEW n,
           n = [m EXCEPT !.stack[i] = v, !.stack[k] = v]
    PROVE  SoundIn(scope, n) /\ Changes(m, n, {"stack"}) /\ SameHeight(m, n)
<1> DEFINE p == [m EXCEPT !.stack[i] = v]
<1>1. DOMAIN m = MachineFields
  BY DEF SoundIn
<1>2. Changes(m, p, {"stack"}) /\ p.stack = [m.stack EXCEPT ![i] = v]
  BY <1>1 DEF Changes, MachineFields
<1>3. Changes(p, n, {"stack"}) /\ n.stack = [p.stack EXCEPT ![k] = v]
  BY <1>1 DEF Changes, MachineFields
<1> HIDE DEF p
<1>4. SoundIn(scope, p) /\ SameHeight(m, p)
  BY <1>2, PutIs
<1>5. Live(scope, p, v)
  BY <1>2 DEF Live, Changes, MachineFields
<1>6. SoundIn(scope, n) /\ SameHeight(p, n)
  BY <1>3, <1>4, <1>5, PutIs
<1>7. SameHeight(m, n)
  BY <1>4, <1>6 DEF SameHeight
<1> QED BY <1>2, <1>3, <1>6, <1>7 DEF Changes

LEMMA NextElement ==
    ASSUME NEW scope, NEW m, SoundIn(scope, m), NEW a \in Addressed(scope, m), m.heap[a].kind = "cons",
           NEW k, NEW v, Live(scope, m, v), NEW n,
           n = [m EXCEPT !.heap[a].cdr = v, !.stack[k] = v]
    PROVE  SoundIn(scope, n) /\ Changes(m, n, {"heap", "stack"}) /\ SameHeight(m, n)
<1> DEFINE p == [m EXCEPT !.heap[a].cdr = v]
<1>1. DOMAIN m = MachineFields
  BY DEF SoundIn
<1>2. Changes(m, p, {"heap"}) /\ p.heap = [m.heap EXCEPT ![a] = [m.heap[a] EXCEPT !.cdr = v]]
  BY <1>1 DEF Changes, MachineFields
<1>3. Changes(p, n, {"stack"}) /\ n.stack = [p.stack EXCEPT ![k] = v]
  BY <1>1 DEF Changes, MachineFields
<1> HIDE DEF p
<1>4. Settable(m.heap[a].kind, "cdr")
  BY DEF Settable
<1>5. SoundIn(scope, p) /\ Live(scope, p, v)
  BY <1>2, <1>4, FieldSet
<1>6. SoundIn(scope, n) /\ SameHeight(p, n)
  BY <1>3, <1>5, PutIs
<1>7. SameHeight(m, n)
  BY <1>2, <1>6 DEF SameHeight, Changes, MachineFields
<1> QED BY <1>2, <1>3, <1>6, <1>7 DEF Changes

\* HLL_BC_APPEND: the element is a temp root while its cons is made.
LEMMA AppendElementHandles ==
    ASSUME NEW scope, NEW m, SoundIn(scope, m), Len(m.stack) > 2, NEW n \in AppendElement(m)
    PROVE  Handles(scope, m, n) /\ Leaves(m, n, -1)
<1> DEFINE v == Top(m)
           p == Take(m)
           o == ConsObj(v, Nil)
           fresh == Fresh(m)
           head == Len(m.stack) - 2
           tail == Len(m.stack) - 1
           first(m1) == [m1 EXCEPT !.stack[head] = fresh, !.stack[tail] = fresh]
           next(m1) == [m1 EXCEPT !.heap[m1.stack[tail][2]].cdr = fresh, !.stack[tail] = fresh]
<1>1. PICK m1 \in New(p, o) :
        \/ n = PopTemp(first(m1))
        \/ n = RuntimeError(m1)
        \/ IsCons(m1, m1.stack[tail]) /\ n = PopTemp(next(m1))
  BY DEF AppendElement
<1>2. Len(m.stack) \in Nat
  BY DEF SoundIn, IsStack
<1>3. /\ SoundIn(scope, p) /\ Changes(m, p, {"stack", "temp_roots"}) /\ Held(scope, p, v)
      /\ p.temp_roots = Append(m.temp_roots, v) /\ Len(p.stack) = tail
  <2> Len(m.stack) > 0
    BY <1>2
  <2> QED BY TakeIs
<1>4. fresh = Fresh(p)
  BY <1>3 DEF Fresh, Changes, MachineFields
<1> HIDE DEF p, v, fresh
<1>5. ObjectHeld(scope, p, o)
  BY <1>3, HeldAtoms DEF ObjectHeld, ConsObj, ObjectFields, References
<1> HIDE DEF o
<1>6. SoundIn(scope, m1) /\ Changes(p, m1, {"heap", "next"}) /\ Live(scope, m1, fresh)
  BY <1>1, <1>3, <1>4, <1>5, NewIs
<1>7. m1.temp_roots = p.temp_roots /\ m1.stack = p.stack
  BY <1>6 DEF Changes, MachineFields
<1>8. ASSUME NEW q, SoundIn(scope, q), Changes(m1, q, {"heap", "stack"}), SameHeight(m1, q),
             n = PopTemp(q)
      PROVE  Handles(scope, m, n) /\ Leaves(m, n, -1)
  <2>1. SoundIn(scope, n) /\ Changes(q, n, {"temp_roots"}) /\ n.temp_roots = Front(q.temp_roots)
    BY <1>8, PopTempIsSound
  <2>2. q.temp_roots = p.temp_roots
    BY <1>7, <1>8 DEF Changes, MachineFields
  <2>3. n.temp_roots = m.temp_roots
    BY <1>3, <2>1, <2>2, StackPush DEF SoundIn
  <2>4. /\ n.aborted = m.aborted /\ n.running = m.running
        /\ n.error_count = m.error_count /\ n.forbid = m.forbid
    BY <1>3, <1>6, <1>8, <2>1 DEF Changes, MachineFields
  <2>5. n.call_stack = m.call_stack /\ n.env = m.env /\ n.stack = q.stack
    BY <1>3, <1>6, <1>8, <2>1 DEF Changes, MachineFields
  <2>6. Len(n.stack) = Len(m.stack) + (-1)
    BY <1>2, <1>3, <1>7, <1>8, <2>5 DEF SameHeight
  <2> QED BY <2>1, <2>3, <2>4, <2>5, <2>6 DEF Handles, Leaves
<1>9. CASE n = PopTemp(first(m1))
  <2> DEFINE q == first(m1)
  <2>1. SoundIn(scope, q) /\ Changes(m1, q, {"stack"}) /\ SameHeight(m1, q)
    <3> HIDE DEF head, tail
    <3> QED BY <1>6, FirstElement
  <2>2. n = PopTemp(q)
    BY <1>9
  <2> HIDE DEF q
  <2> QED BY <1>8, <2>1, <2>2 DEF Changes
<1>10. CASE n = RuntimeError(m1)
  <2>1. m1.error_count = m.error_count
    BY <1>3, <1>6 DEF Changes, MachineFields
  <2> QED BY <1>6, <1>10, <2>1, ErrorHandles
<1>11. CASE IsCons(m1, m1.stack[tail]) /\ n = PopTemp(next(m1))
  <2> DEFINE w == m1.stack[tail]
             a == w[2]
             q == next(m1)
             s == m1.stack
  <2>1. tail > 0 /\ tail = Len(s)
    BY <1>2, <1>3, <1>7
  <2>2. IsStack(s) /\ \A x \in Range(s) : Live(scope, m1, x)
    BY <1>6, SoundParts DEF Parts
  <2>3. w = Last(s)
    BY <2>1 DEF Last
  <2> HIDE DEF s, tail
  <2>4. Last(s) \in Range(s)
    BY <2>1, <2>2, StackPop
  <2>5. Live(scope, m1, w)
    BY <2>2, <2>3, <2>4
  <2> HIDE DEF w
  <2>6. IsCons(m1, w)
    BY <1>11 DEF w
  <2>7. a \in Addressed(scope, m1) /\ m1.heap[a].kind = "cons"
    BY <1>6, <2>5, <2>6, ConsFields
  <2>8. q = [m1 EXCEPT !.heap[a].cdr = fresh, !.stack[tail] = fresh] /\ n = PopTemp(q)
    BY <1>11 DEF w
  <2> HIDE DEF q, a
  <2>9. SoundIn(scope, q) /\ Changes(m1, q, {"heap", "stack"}) /\ SameHeight(m1, q)
    BY <1>6, <2>7, <2>8, NextElement
  <2> QED BY <1>8, <2>8, <2>9
<1> QED BY <1>1, <1>9, <1>10, <1>11

-----------------------------------------------------------------------------
(* The loop. *)

\* What holds between two instructions, in the scope of the program.
InvIn(scope) == SoundIn(scope, vm) /\ IsStack(output) /\ RootsBalanced

Inv == InvIn(Whole(vm))

\* A machine that is sound dangles nowhere.
LEMMA SoundNoDangling == \A scope : SoundIn(scope, vm) => NoDangling
<1> SUFFICES ASSUME NEW scope, SoundIn(scope, vm) PROVE NoDangling
  OBVIOUS
<1>1. Rooted(vm) \subseteq DOMAIN vm.heap
  BY RootedIs
<1>2. \A f \in Range(vm.call_stack) : FrameSound(vm, f)
  BY DEF SoundIn
<1> QED BY <1>1, <1>2 DEF NoDangling, FrameSound

\* A program starts with itself as the only temp root.
LEMMA EnterStarts == ExecutionInit => Inv
<1> SUFFICES ASSUME ExecutionInit PROVE Inv
  OBVIOUS
<1>1. PICK m, env, compiled :
        /\ Sound(m) /\ Balanced(m, output) /\ ~m.running /\ ~m.aborted
        /\ Live(Whole(m), m, env) /\ KindOf(m, env) = "env"
        /\ Live(Whole(m), m, compiled) /\ KindOf(m, compiled) = "func"
        /\ IsStack(output)
        /\ vm = Enter(m, env, compiled)
  BY DEF ExecutionInit
<1> DEFINE scope == Whole(m)
           p == PushTemp(m, compiled)
           frame == Frame(At(m, compiled).bytecode, env, compiled)
<1> HIDE DEF scope
<1>0. SoundIn(scope, m) /\ Live(scope, m, env) /\ Live(scope, m, compiled)
  BY <1>1 DEF Sound, scope
<1>2. SoundIn(scope, p) /\ Changes(m, p, {"temp_roots"}) /\ p.temp_roots = Append(m.temp_roots, compiled)
  BY <1>0, PushTempSound, PushTempIs, SoundIs
<1>3. vm = [p EXCEPT !.stack = <<>>, !.call_stack = <<frame>>, !.env = env, !.running = TRUE]
  BY <1>1 DEF Enter
<1>4. FrameFits(scope, m, frame)
  BY <1>0, <1>1 DEF FrameFits, FrameSound, Frame
<1> HIDE DEF p, frame
<1>5. DOMAIN p = MachineFields
  BY <1>2 DEF Changes
<1>6. /\ Changes(p, vm, {"stack", "call_stack", "env", "running"})
      /\ vm.stack = <<>> /\ vm.call_stack = <<frame>> /\ vm.env = env /\ vm.running = TRUE
  BY <1>3, <1>5 DEF Changes, MachineFields
<1>7. FrameFits(scope, p, frame) /\ Live(scope, p, env) /\ KindOf(p, env) = "env"
  BY <1>0, <1>1, <1>2, <1>4 DEF FrameFits, FrameSound, Live, KindOf, At, Changes, MachineFields
<1>8. IsStack(vm.call_stack) /\ \A f \in Range(vm.call_stack) : FrameFits(scope, p, f)
  <2>1. vm.call_stack \in Seq({frame})
    BY <1>6
  <2>2. IsStack(vm.call_stack) /\ Range(vm.call_stack) \subseteq {frame}
    BY <2>1, StackIntro
  <2> QED BY <1>7, <2>2
<1>9. /\ DOMAIN vm = MachineFields /\ vm.next = p.next /\ vm.codes = p.codes /\ vm.heap = p.heap
      /\ vm.temp_roots = p.temp_roots
      /\ vm.forbid = p.forbid /\ vm.error_count = p.error_count
      /\ p.forbid = m.forbid /\ p.error_count = m.error_count
      /\ vm.aborted = m.aborted
  BY <1>2, <1>6 DEF Changes, MachineFields
<1>10. Parts(scope, p)
  BY <1>2, SoundParts
<1>11. SoundIn(scope, vm)
  BY <1>2, <1>6, <1>7, <1>8, <1>9, <1>10, EmptyStack, SoundExec DEF Parts
<1>13. Whole(vm) = scope
  BY <1>2, <1>9, SoundIs DEF Whole, scope
<1>12. RootsBalanced
  <2>1. IsStack(m.temp_roots)
    BY <1>0 DEF SoundIn
  <2>2. Len(p.temp_roots) = Len(m.temp_roots) + 1
    BY <1>2, <2>1, StackPush
  <2> SUFFICES ASSUME Failed \notin Range(output), vm.error_count = 0, ~vm.aborted
               PROVE  vm.forbid = 0 /\ Len(vm.temp_roots) = 1
    BY <1>6 DEF RootsBalanced, Balanced
  <2>3. m.forbid = 0 /\ Len(m.temp_roots) = 0
    BY <1>1, <1>9 DEF Balanced
  <2> QED BY <1>9, <2>2, <2>3
<1> QED BY <1>1, <1>11, <1>12, <1>13 DEF Inv, InvIn

\* The result of a program is shown and put away.
LEMMA FinishKeeps ==
    ASSUME NEW scope, InvIn(scope), Finish
    PROVE  InvIn(scope)'
<1> DEFINE v == vm.stack[1]
           p == Return(vm, v)
           n == vm'
<1>1. PICK shown :
        /\ vm' = IF vm.error_count = 0 /\ vm.print_result THEN Prints(p, <<shown>>) ELSE p
        /\ output' = Append(output, IF vm.error_count = 0 THEN Value(shown) ELSE Failed)
  BY DEF Finish
<1>2. SoundIn(scope, vm) /\ IsStack(output) /\ Balanced(vm, output) /\ vm.running
  BY DEF InvIn, RootsBalanced, Finish, Finished
<1>3. /\ SoundIn(scope, p) /\ p.temp_roots = Front(vm.temp_roots) /\ p.running = FALSE
      /\ Changes(vm, p, {"stack", "call_stack", "result", "running", "temp_roots"})
  <2> HIDE DEF v
  <2> QED BY <1>2, ReturnIs
<1> HIDE DEF p
<1>4. DOMAIN p = MachineFields
  BY <1>3 DEF Changes
<1>5. Changes(p, n, {"printed"})
  BY <1>1, <1>4 DEF Prints, Changes, MachineFields
<1> HIDE DEF n
<1>6. /\ DOMAIN n = MachineFields /\ n.next = p.next /\ n.codes = p.codes /\ n.heap = p.heap
      /\ n.temp_roots = p.temp_roots /\ n.stack = p.stack /\ n.call_stack = p.call_stack
      /\ n.forbid = p.forbid /\ n.error_count = p.error_count /\ n.env = p.env
      /\ n.running = FALSE
      /\ n.forbid = vm.forbid /\ n.error_count = vm.error_count /\ n.aborted = vm.aborted
  BY <1>3, <1>5 DEF Changes, MachineFields
<1>7. SoundIn(scope, n)
  BY <1>3, <1>6, SoundAlike, SoundIs
<1>8. IsStack(output') /\ Range(output) \subseteq Range(output')
  BY <1>1, <1>2, StackPush
<1>9. ASSUME Failed \notin Range(output'), n.error_count = 0, ~n.aborted
      PROVE  n.forbid = 0 /\ Len(n.temp_roots) = 0
  <2>1. vm.forbid = 0 /\ Len(vm.temp_roots) = 1
    BY <1>2, <1>6, <1>8, <1>9 DEF Balanced
  <2>2. Len(Front(vm.temp_roots)) = 0
    <3> DEFINE roots == vm.temp_roots
    <3>1. IsStack(roots) /\ Len(roots) = 1
      BY <1>2, <2>1 DEF SoundIn
    <3> HIDE DEF roots
    <3>2. Len(roots) > 0
      BY <3>1
    <3>3. Len(Front(roots)) = Len(roots) - 1
      BY <3>1, <3>2, StackPop
    <3> QED BY <3>1, <3>3 DEF roots
  <2> QED BY <1>3, <1>6, <2>1, <2>2
<1>10. RootsBalanced'
  <2>1. vm'.running = FALSE
    BY <1>6 DEF n
  <2> QED BY <1>9, <2>1 DEF RootsBalanced, Balanced, n
<1> QED BY <1>7, <1>8, <1>10 DEF InvIn, n

\* The machine a handler is given.
LEMMA Fetching ==
    ASSUME NEW scope, InvIn(scope), vm.running, ~Finished(vm)
    PROVE  /\ SoundIn(scope, Advance(vm, 1)) /\ Len(Advance(vm, 1).call_stack) > 0
           /\ Advance(vm, 1).running = TRUE /\ Advance(vm, 1).stack = vm.stack
           /\ Len(vm.stack) \in Nat /\ Len(vm.call_stack) > 0
<1> DEFINE p == Advance(vm, 1)
<1>1. SoundIn(scope, vm)
  BY DEF InvIn
<1>2. Len(vm.call_stack) > 0
  <2>1. IsStack(vm.call_stack) /\ vm.call_stack # <<>>
    BY <1>1 DEF Finished, SoundIn
  <2> QED BY <2>1 DEF IsStack
<1>3. SoundIn(scope, p) /\ Changes(vm, p, {"call_stack"}) /\ Len(p.call_stack) = Len(vm.call_stack)
  BY <1>1, <1>2, AdvanceIs
<1> HIDE DEF p
<1>4. p.stack = vm.stack /\ p.running = vm.running
  BY <1>3 DEF Changes, MachineFields
<1>5. Len(vm.stack) \in Nat
  BY <1>1 DEF SoundIn, IsStack
<1> QED BY <1>2, <1>3, <1>4, <1>5 DEF p

\* What an instruction makes of the machine it is fetched for, if it goes on.
Does(m, n, op) ==
    CASE op = "END"      -> /\ n.call_stack = Front(m.call_stack) /\ n.stack = m.stack
                            /\ n.env = Last(m.call_stack).env
      [] op = "CALL"     -> Calls(m, n, FALSE)
      [] op = "MBTRCALL" -> Calls(m, n, TRUE)
      [] op = "JN"       -> /\ n.env = m.env /\ Len(n.stack) = Len(m.stack) + (-1)
                            /\ n.call_stack = IF Top(m) = Nil THEN Advance(m, Operand(m)).call_stack
                                              ELSE m.call_stack
      [] op = "PUSHENV"  -> /\ n.call_stack = m.call_stack /\ n.stack = m.stack
                            /\ KindOf(n, n.env) = "env" /\ At(n, n.env).up = m.env
      [] op = "POPENV"   -> /\ n.call_stack = m.call_stack /\ n.stack = m.stack
                            /\ n.env = At(m, m.env).up
      [] OTHER           -> Leaves(m, n, Pushed(op)) /\ (op = "NIL" => Top(n) = Nil)

\* What a round of the loop does.
Round(op) ==
    /\ vm.running /\ ~Finished(vm) /\ Current(vm).op = op
    /\ vm'.running => ~(Len(vm.stack) < Operands(op)) /\ Does(Advance(vm, 1), vm', op)

\* A round of the loop whose handler reads k values of the stack.
LEMMA RoundKeeps ==
    ASSUME NEW scope, InvIn(scope), vm.running, ~Finished(vm), NEW op, Current(vm).op = op,
           NEW k, k = Operands(op), NEW handled,
           vm' \in IF Len(vm.stack) < k THEN {Abort(vm)} ELSE handled,
           \A n \in handled : ~(Len(vm.stack) < k) =>
               Handles(scope, Advance(vm, 1), n) /\ (n.running => Does(Advance(vm, 1), n, op)),
           output' = IF vm'.running \/ vm'.aborted THEN output ELSE Append(output, Failed)
    PROVE  InvIn(scope)' /\ Round(op)
<1> DEFINE p == Advance(vm, 1)
           n == vm'
<1>1. SoundIn(scope, vm) /\ IsStack(output) /\ Balanced(vm, output) /\ vm.running
  BY DEF InvIn, RootsBalanced
<1>2. Len(vm.call_stack) > 0
  BY Fetching
<1>3. Changes(vm, p, {"call_stack"})
  BY <1>1, <1>2, AdvanceIs
<1>0. Round(op)
  <2>1. CASE n = Abort(vm)
    <3>1. n.running = FALSE
      BY <1>1, <2>1, AbortSound
    <3> QED BY <3>1 DEF Round
  <2>2. CASE n \in handled /\ ~(Len(vm.stack) < k)
    BY <2>2 DEF Round
  <2> QED BY <2>1, <2>2
<1> HIDE DEF p
<1>4. /\ p.error_count = vm.error_count /\ p.forbid = vm.forbid /\ p.temp_roots = vm.temp_roots
      /\ p.running = vm.running /\ p.aborted = vm.aborted /\ vm.error_count \in Nat
  BY <1>1, <1>3 DEF Changes, MachineFields, SoundIn
<1>5. n = Abort(vm) \/ Handles(scope, p, n)
  BY DEF p
<1> HIDE DEF n
<1>6. /\ SoundIn(scope, n)
      /\ \/ n.aborted = TRUE /\ n.running = FALSE
         \/ n.error_count = vm.error_count + 1 /\ n.running = FALSE
         \/ /\ n.running = vm.running /\ n.aborted = vm.aborted /\ n.error_count = vm.error_count
            /\ n.forbid = vm.forbid /\ n.temp_roots = vm.temp_roots
  <2>1. CASE n = Abort(vm)
    BY <1>1, <2>1, AbortSound
  <2>2. CASE Handles(scope, p, n)
    BY <1>4, <2>2 DEF Handles
  <2> QED BY <1>5, <2>1, <2>2
<1>7. output' = IF n.running \/ n.aborted THEN output ELSE Append(output, Failed)
  BY DEF n
<1>8. IsStack(output')
  BY <1>1, <1>7, StackPush
<1>9. Balanced(n, output')
  <2>1. CASE n.aborted = TRUE /\ n.running = FALSE
    BY <2>1 DEF Balanced
  <2>2. CASE n.error_count = vm.error_count + 1 /\ n.running = FALSE
    <3>1. n.error_count # 0
      BY <1>4, <2>2
    <3> QED BY <3>1 DEF Balanced
  <2>3. CASE /\ n.running = vm.running /\ n.aborted = vm.aborted /\ n.error_count = vm.error_count
             /\ n.forbid = vm.forbid /\ n.temp_roots = vm.temp_roots
    <3>1. output' = output
      BY <1>1, <1>7, <2>3
    <3> QED BY <1>1, <2>3, <3>1 DEF Balanced
  <2> QED BY <1>6, <2>1, <2>2, <2>3
<1> QED BY <1>0, <1>6, <1>8, <1>9 DEF InvIn, RootsBalanced, n

\* Each instruction reads as many values as it asserts to be there.
LEMMA InstructionKeeps ==
    ASSUME NEW scope, InvIn(scope), Instructions
    PROVE  InvIn(scope)' /\ \E op \in OpNames : Round(op)
<1> DEFINE p == Advance(vm, 1)
           shown == output' = IF vm'.running \/ vm'.aborted THEN output ELSE Append(output, Failed)
<1>1. vm.running /\ ~Finished(vm) /\ shown
  BY DEF Instructions, Executes, EndOp, PopOp, NilOp, TrueOp, ConstOp, AppendOp, FindOp, MakeFunOp, CallOp, MbtrCallOp, JnOp, LetOp, PushEnvOp, PopEnvOp, CarOp, CdrOp, SetCarOp, SetCdrOp
<1>2. /\ SoundIn(scope, p) /\ Len(p.call_stack) > 0 /\ p.running = TRUE /\ p.stack = vm.stack
      /\ Len(vm.stack) \in Nat
  BY <1>1, Fetching
<1>3. CASE EndOp
  <2>1. Operands("END") = 1
    BY DEF Operands
  <2>2. /\ Current(vm).op = "END"
        /\ vm' \in IF Len(vm.stack) < 1 THEN {Abort(vm)} ELSE End(p)
    BY <1>3 DEF EndOp, Executes, Handled, Operands
  <2> HIDE DEF p
  <2>3. \A n \in End(p) : ~(Len(vm.stack) < 1) => Handles(scope, p, n) /\ (n.running => Does(p, n, "END"))
    BY <1>2, EndHandles DEF Does, Pushed
  <2>4. InvIn(scope)' /\ Round("END")
    BY <1>1, <2>1, <2>2, <2>3, RoundKeeps DEF p
  <2> QED BY <2>4 DEF OpNames
<1>4. CASE PopOp
  <2>1. Operands("POP") = 1
    BY DEF Operands
  <2>2. /\ Current(vm).op = "POP"
        /\ vm' \in IF Len(vm.stack) < 1 THEN {Abort(vm)} ELSE Discard(p)
    BY <1>4 DEF PopOp, Executes, Handled, Operands
  <2> HIDE DEF p
  <2>3. \A n \in Discard(p) : ~(Len(vm.stack) < 1) => Handles(scope, p, n) /\ (n.running => Does(p, n, "POP"))
    BY <1>2, DiscardHandles DEF Does, Pushed
  <2>4. InvIn(scope)' /\ Round("POP")
    BY <1>1, <2>1, <2>2, <2>3, RoundKeeps DEF p
  <2> QED BY <2>4 DEF OpNames
<1>5. CASE NilOp
  <2>1. Operands("NIL") = 0
    BY DEF Operands
  <2>2. /\ Current(vm).op = "NIL"
        /\ vm' \in IF Len(vm.stack) < 0 THEN {Abort(vm)} ELSE PushNil(p)
    BY <1>5 DEF NilOp, Executes, Handled, Operands
  <2> HIDE DEF p
  <2>3. \A n \in PushNil(p) : ~(Len(vm.stack) < 0) => Handles(scope, p, n) /\ (n.running => Does(p, n, "NIL"))
    BY <1>2, AtomHandles DEF Does, Pushed
  <2>4. InvIn(scope)' /\ Round("NIL")
    BY <1>1, <2>1, <2>2, <2>3, RoundKeeps DEF p
  <2> QED BY <2>4 DEF OpNames
<1>6. CASE TrueOp
  <2>1. Operands("TRUE") = 0
    BY DEF Operands
  <2>2. /\ Current(vm).op = "TRUE"
        /\ vm' \in IF Len(vm.stack) < 0 THEN {Abort(vm)} ELSE PushTrue(p)
    BY <1>6 DEF TrueOp, Executes, Handled, Operands
  <2> HIDE DEF p
  <2>3. \A n \in PushTrue(p) : ~(Len(vm.stack) < 0) => Handles(scope, p, n) /\ (n.running => Does(p, n, "TRUE"))
    BY <1>2, AtomHandles DEF Does, Pushed
  <2>4. InvIn(scope)' /\ Round("TRUE")
    BY <1>1, <2>1, <2>2, <2>3, RoundKeeps DEF p
  <2> QED BY <2>4 DEF OpNames
<1>7. CASE ConstOp
  <2>1. Operands("CONST") = 0
    BY DEF Operands
  <2>2. /\ Current(vm).op = "CONST"
        /\ vm' \in IF Len(vm.stack) < 0 THEN {Abort(vm)} ELSE Constant(p)
    BY <1>7 DEF ConstOp, Executes, Handled, Operands
  <2> HIDE DEF p
  <2>3. \A n \in Constant(p) : ~(Len(vm.stack) < 0) => Handles(scope, p, n) /\ (n.running => Does(p, n, "CONST"))
    BY <1>2, ConstantHandles DEF Does, Pushed
  <2>4. InvIn(scope)' /\ Round("CONST")
    BY <1>1, <2>1, <2>2, <2>3, RoundKeeps DEF p
  <2> QED BY <2>4 DEF OpNames
<1>8. CASE AppendOp
  <2>1. Operands("APPEND") = 3
    BY DEF Operands
  <2>2. /\ Current(vm).op = "APPEND"
        /\ vm' \in IF Len(vm.stack) < 3 THEN {Abort(vm)} ELSE AppendElement(p)
    BY <1>8 DEF AppendOp, Executes, Handled, Operands
  <2> HIDE DEF p
  <2>3. \A n \in AppendElement(p) : ~(Len(vm.stack) < 3) => Handles(scope, p, n) /\ (n.running => Does(p, n, "APPEND"))
    BY <1>2, AppendElementHandles DEF Does, Pushed
  <2>4. InvIn(scope)' /\ Round("APPEND")
    BY <1>1, <2>1, <2>2, <2>3, RoundKeeps DEF p
  <2> QED BY <2>4 DEF OpNames
<1>9. CASE FindOp
  <2>1. Operands("FIND") = 1
    BY DEF Operands
  <2>2. /\ Current(vm).op = "FIND"
        /\ vm' \in IF Len(vm.stack) < 1 THEN {Abort(vm)} ELSE Find(p)
    BY <1>9 DEF FindOp, Executes, Handled, Operands
  <2> HIDE DEF p
  <2>3. \A n \in Find(p) : ~(Len(vm.stack) < 1) => Handles(scope, p, n) /\ (n.running => Does(p, n, "FIND"))
    BY <1>2, FindHandles DEF Does, Pushed
  <2>4. InvIn(scope)' /\ Round("FIND")
    BY <1>1, <2>1, <2>2, <2>3, RoundKeeps DEF p
  <2> QED BY <2>4 DEF OpNames
<1>10. CASE MakeFunOp
  <2>1. Operands("MAKEFUN") = 0
    BY DEF Operands
  <2>2. /\ Current(vm).op = "MAKEFUN"
        /\ vm' \in IF Len(vm.stack) < 0 THEN {Abort(vm)} ELSE MakeFunction(p)
    BY <1>10 DEF MakeFunOp, Executes, Handled, Operands
  <2> HIDE DEF p
  <2>3. \A n \in MakeFunction(p) : ~(Len(vm.stack) < 0) => Handles(scope, p, n) /\ (n.running => Does(p, n, "MAKEFUN"))
    BY <1>2, MakeFunctionHandles DEF Does, Pushed
  <2>4. InvIn(scope)' /\ Round("MAKEFUN")
    BY <1>1, <2>1, <2>2, <2>3, RoundKeeps DEF p
  <2> QED BY <2>4 DEF OpNames
<1>11. CASE CallOp
  <2>1. Operands("CALL") = 2
    BY DEF Operands
  <2>2. /\ Current(vm).op = "CALL"
        /\ vm' \in IF Len(vm.stack) < 2 THEN {Abort(vm)} ELSE Call(p)
    BY <1>11 DEF CallOp, Executes, Handled, Operands
  <2> HIDE DEF p
  <2>3. ASSUME NEW n \in Call(p), ~(Len(vm.stack) < 2)
        PROVE  Handles(scope, p, n) /\ (n.running => Does(p, n, "CALL"))
    <3>1. n \in CallWith(p, FALSE)
      BY <2>3 DEF Call
    <3>2. Len(p.stack) > 1
      BY <1>2, <2>3
    <3> QED BY <1>2, <3>1, <3>2, CallHandles DEF Does
  <2>4. InvIn(scope)' /\ Round("CALL")
    BY <1>1, <2>1, <2>2, <2>3, RoundKeeps DEF p
  <2> QED BY <2>4 DEF OpNames
<1>12. CASE MbtrCallOp
  <2>1. Operands("MBTRCALL") = 2
    BY DEF Operands
  <2>2. /\ Current(vm).op = "MBTRCALL"
        /\ vm' \in IF Len(vm.stack) < 2 THEN {Abort(vm)} ELSE MaybeTailCall(p)
    BY <1>12 DEF MbtrCallOp, Executes, Handled, Operands
  <2> HIDE DEF p
  <2>3. ASSUME NEW n \in MaybeTailCall(p), ~(Len(vm.stack) < 2)
        PROVE  Handles(scope, p, n) /\ (n.running => Does(p, n, "MBTRCALL"))
    <3>1. n \in CallWith(p, TRUE)
      BY <2>3 DEF MaybeTailCall
    <3>2. Len(p.stack) > 1
      BY <1>2, <2>3
    <3> QED BY <1>2, <3>1, <3>2, CallHandles DEF Does
  <2>4. InvIn(scope)' /\ Round("MBTRCALL")
    BY <1>1, <2>1, <2>2, <2>3, RoundKeeps DEF p
  <2> QED BY <2>4 DEF OpNames
<1>13. CASE JnOp
  <2>1. Operands("JN") = 1
    BY DEF Operands
  <2>2. /\ Current(vm).op = "JN"
        /\ vm' \in IF Len(vm.stack) < 1 THEN {Abort(vm)} ELSE JumpIfNil(p)
    BY <1>13 DEF JnOp, Executes, Handled, Operands
  <2> HIDE DEF p
  <2>3. \A n \in JumpIfNil(p) : ~(Len(vm.stack) < 1) => Handles(scope, p, n) /\ (n.running => Does(p, n, "JN"))
    BY <1>2, JumpHandles DEF Does, Pushed
  <2>4. InvIn(scope)' /\ Round("JN")
    BY <1>1, <2>1, <2>2, <2>3, RoundKeeps DEF p
  <2> QED BY <2>4 DEF OpNames
<1>14. CASE LetOp
  <2>1. Operands("LET") = 2
    BY DEF Operands
  <2>2. /\ Current(vm).op = "LET"
        /\ vm' \in IF Len(vm.stack) < 2 THEN {Abort(vm)} ELSE Define(p)
    BY <1>14 DEF LetOp, Executes, Handled, Operands
  <2> HIDE DEF p
  <2>3. \A n \in Define(p) : ~(Len(vm.stack) < 2) => Handles(scope, p, n) /\ (n.running => Does(p, n, "LET"))
    BY <1>2, DefineHandles DEF Does, Pushed
  <2>4. InvIn(scope)' /\ Round("LET")
    BY <1>1, <2>1, <2>2, <2>3, RoundKeeps DEF p
  <2> QED BY <2>4 DEF OpNames
<1>15. CASE PushEnvOp
  <2>1. Operands("PUSHENV") = 0
    BY DEF Operands
  <2>2. /\ Current(vm).op = "PUSHENV"
        /\ vm' \in IF Len(vm.stack) < 0 THEN {Abort(vm)} ELSE PushEnv(p)
    BY <1>15 DEF PushEnvOp, Executes, Handled, Operands
  <2> HIDE DEF p
  <2>3. \A n \in PushEnv(p) : ~(Len(vm.stack) < 0) => Handles(scope, p, n) /\ (n.running => Does(p, n, "PUSHENV"))
    BY <1>2, PushEnvHandles DEF Does, Pushed
  <2>4. InvIn(scope)' /\ Round("PUSHENV")
    BY <1>1, <2>1, <2>2, <2>3, RoundKeeps DEF p
  <2> QED BY <2>4 DEF OpNames
<1>16. CASE PopEnvOp
  <2>1. Operands("POPENV") = 0
    BY DEF Operands
  <2>2. /\ Current(vm).op = "POPENV"
        /\ vm' \in IF Len(vm.stack) < 0 THEN {Abort(vm)} ELSE PopEnv(p)
    BY <1>16 DEF PopEnvOp, Executes, Handled, Operands
  <2> HIDE DEF p
  <2>3. \A n \in PopEnv(p) : ~(Len(vm.stack) < 0) => Handles(scope, p, n) /\ (n.running => Does(p, n, "POPENV"))
    BY <1>2, PopEnvHandles DEF Does, Pushed
  <2>4. InvIn(scope)' /\ Round("POPENV")
    BY <1>1, <2>1, <2>2, <2>3, RoundKeeps DEF p
  <2> QED BY <2>4 DEF OpNames
<1>17. CASE CarOp
  <2>1. Operands("CAR") = 1
    BY DEF Operands
  <2>2. /\ Current(vm).op = "CAR"
        /\ vm' \in IF Len(vm.stack) < 1 THEN {Abort(vm)} ELSE TakeCar(p)
    BY <1>17 DEF CarOp, Executes, Handled, Operands
  <2> HIDE DEF p
  <2>3. \A n \in TakeCar(p) : ~(Len(vm.stack) < 1) => Handles(scope, p, n) /\ (n.running => Does(p, n, "CAR"))
    BY <1>2, TakeFieldHandles DEF TakeCar, Does, Pushed
  <2>4. InvIn(scope)' /\ Round("CAR")
    BY <1>1, <2>1, <2>2, <2>3, RoundKeeps DEF p
  <2> QED BY <2>4 DEF OpNames
<1>18. CASE CdrOp
  <2>1. Operands("CDR") = 1
    BY DEF Operands
  <2>2. /\ Current(vm).op = "CDR"
        /\ vm' \in IF Len(vm.stack) < 1 THEN {Abort(vm)} ELSE TakeCdr(p)
    BY <1>18 DEF CdrOp, Executes, Handled, Operands
  <2> HIDE DEF p
  <2>3. \A n \in TakeCdr(p) : ~(Len(vm.stack) < 1) => Handles(scope, p, n) /\ (n.running => Does(p, n, "CDR"))
    BY <1>2, TakeFieldHandles DEF TakeCdr, Does, Pushed
  <2>4. InvIn(scope)' /\ Round("CDR")
    BY <1>1, <2>1, <2>2, <2>3, RoundKeeps DEF p
  <2> QED BY <2>4 DEF OpNames
<1>19. CASE SetCarOp
  <2>1. Operands("SETCAR") = 2
    BY DEF Operands
  <2>2. /\ Current(vm).op = "SETCAR"
        /\ vm' \in IF Len(vm.stack) < 2 THEN {Abort(vm)} ELSE SetCar(p)
    BY <1>19 DEF SetCarOp, Executes, Handled, Operands
  <2> HIDE DEF p
  <2>3. \A n \in SetCar(p) : ~(Len(vm.stack) < 2) => Handles(scope, p, n) /\ (n.running => Does(p, n, "SETCAR"))
    BY <1>2, SetFieldHandles DEF SetCar, Does, Pushed
  <2>4. InvIn(scope)' /\ Round("SETCAR")
    BY <1>1, <2>1, <2>2, <2>3, RoundKeeps DEF p
  <2> QED BY <2>4 DEF OpNames
<1>20. CASE SetCdrOp
  <2>1. Operands("SETCDR") = 2
    BY DEF Operands
  <2>2. /\ Current(vm).op = "SETCDR"
        /\ vm' \in IF Len(vm.stack) < 2 THEN {Abort(vm)} ELSE SetCdr(p)
    BY <1>20 DEF SetCdrOp, Executes, Handled, Operands
  <2> HIDE DEF p
  <2>3. \A n \in SetCdr(p) : ~(Len(vm.stack) < 2) => Handles(scope, p, n) /\ (n.running => Does(p, n, "SETCDR"))
    BY <1>2, SetFieldHandles DEF SetCdr, Does, Pushed
  <2>4. InvIn(scope)' /\ Round("SETCDR")
    BY <1>1, <2>1, <2>2, <2>3, RoundKeeps DEF p
  <2> QED BY <2>4 DEF OpNames
<1> QED BY <1>3, <1>4, <1>5, <1>6, <1>7, <1>8, <1>9, <1>10, <1>11, <1>12, <1>13, <1>14, <1>15, <1>16, <1>17, <1>18, <1>19, <1>20 DEF Instructions

\* A step keeps what is known in any scope.
LEMMA StepKeeps ==
    ASSUME NEW scope, InvIn(scope), [ExecutionNext]_execution
    PROVE  InvIn(scope)'
<1>1. ASSUME UNCHANGED execution PROVE InvIn(scope)'
  BY <1>1 DEF InvIn, execution, RootsBalanced
<1> QED BY <1>1, FinishKeeps, InstructionKeeps DEF ExecutionNext

\* Before and after each instruction the machine is sound and its roots are balanced.
THEOREM ExecutionInv == ExecutionSpec => []Inv
<1>1. ASSUME Inv, [ExecutionNext]_execution PROVE Inv'
  <2>1. PICK scope : scope = Whole(vm)
    OBVIOUS
  <2>2. InvIn(scope) /\ InvIn(scope)'
    BY <1>1, <2>1, StepKeeps DEF Inv
  <2>3. vm.codes = scope.codes /\ vm'.codes = scope.codes
    BY <2>2, SoundIs DEF InvIn
  <2>4. Whole(vm)' = scope
    BY <2>1, <2>3 DEF Whole
  <2>5. InvIn(Whole(vm)')
    BY <2>2, <2>4 DEF InvIn
  <2> QED BY <2>2, <2>4, <2>5 DEF Inv, InvIn
<1> QED BY <1>1, EnterStarts, PTL DEF ExecutionSpec

\* Between two instructions of any program the only temp root is the program,
\* and collections are allowed: each handler of hll_interpret_bytecode pops what
\* it pushed and allows what it forbade, whatever the bytecode.
THEOREM RootsBalancedAlways == ExecutionSpec => []RootsBalanced
<1>1. Inv => RootsBalanced
  BY DEF Inv, InvIn
<1> QED BY <1>1, ExecutionInv, PTL

\* No program, whatever its bytecode, frees an object it can still reach, and
\* the function of a frame that runs is there with the bytecode it runs: the
\* handlers of hll_interpret_bytecode and the builtins keep what they use rooted
\* over each allocation that may collect.
THEOREM NoDanglingAlways == ExecutionSpec => []NoDangling
<1>1. Inv => NoDangling
  BY SoundNoDangling DEF Inv, InvIn
<1> QED BY <1>1, ExecutionInv, PTL

-----------------------------------------------------------------------------
(* A new machine. *)

\* hll_add_binding, over its four allocations.
LEMMA AddBinding ==
    ASSUME NEW scope, NEW m, SoundIn(scope, m), KindOf(m, GlobalEnv) = "env",
           NEW name, NEW n \in hll_add_binding(m, name)
    PROVE  SoundIn(scope, n) /\ Changes(m, n, {"heap", "next"}) /\ KindOf(n, GlobalEnv) = "env"
<1> DEFINE bind == Fresh(m)
           symb(p) == Fresh(p)
<1>1. PICK m1 \in New(m, BindObj(name)) :
        \E m2 \in New(PushTemp(m1, bind), SymbObj(name)) :
        \E m3 \in hll_add_variable(PushTemp(m2, Fresh(PushTemp(m1, bind))), GlobalEnv,
                                   Fresh(PushTemp(m1, bind)), bind) :
            n = PopTemp(PopTemp(m3))
  BY DEF hll_add_binding
<1>2. PICK p : p = PushTemp(m1, bind)
  OBVIOUS
<1>3. PICK m2 \in New(p, SymbObj(name)) :
        \E m3 \in hll_add_variable(PushTemp(m2, symb(p)), GlobalEnv, symb(p), bind) :
            n = PopTemp(PopTemp(m3))
  BY <1>1, <1>2
<1>4. PICK q : q = PushTemp(m2, symb(p))
  OBVIOUS
<1>5. PICK m3 \in hll_add_variable(q, GlobalEnv, symb(p), bind) : n = PopTemp(PopTemp(m3))
  BY <1>3, <1>4
<1>6. PICK r : r = PopTemp(m3)
  OBVIOUS
<1>7. ASSUME NEW x, SoundIn(scope, x) PROVE ObjectHeld(scope, x, BindObj(name)) /\ ObjectHeld(scope, x, SymbObj(name))
  BY DEF ObjectHeld, BindObj, SymbObj, ObjectFields, References
<1>8. SoundIn(scope, m1) /\ Keeps(m, m1) /\ Changes(m, m1, {"heap", "next"}) /\ Live(scope, m1, bind)
  BY <1>7, NewIs
<1>9. /\ SoundIn(scope, p) /\ Held(scope, p, bind) /\ Changes(m1, p, {"temp_roots"})
      /\ p.temp_roots = Append(m1.temp_roots, bind)
      /\ \A w : Held(scope, m1, w) => Held(scope, p, w)
      /\ \A w : KindOf(p, w) = KindOf(m1, w)
  <2> HIDE DEF bind
  <2> QED BY <1>2, <1>8, PushTempSound, PushTempIs, SoundIs
<1>10. /\ SoundIn(scope, m2) /\ Keeps(p, m2) /\ Changes(p, m2, {"heap", "next"}) /\ Live(scope, m2, symb(p))
       /\ KindOf(m2, symb(p)) = "symb"
  <2>1. /\ SoundIn(scope, m2) /\ Keeps(p, m2) /\ Changes(p, m2, {"heap", "next"}) /\ Live(scope, m2, symb(p))
        /\ m2.heap[p.next] = SymbObj(name)
    BY <1>3, <1>7, <1>9, NewIs
  <2> QED BY <2>1, Refs DEF KindOf, At, Fresh, SymbObj
<1>11. /\ SoundIn(scope, q) /\ Held(scope, q, symb(p)) /\ Changes(m2, q, {"temp_roots"})
       /\ q.temp_roots = Append(m2.temp_roots, symb(p))
       /\ \A w : Held(scope, m2, w) => Held(scope, q, w)
       /\ \A w : KindOf(q, w) = KindOf(m2, w)
  <2> HIDE DEF symb
  <2> QED BY <1>4, <1>10, PushTempSound, PushTempIs, SoundIs
<1>12. Held(scope, q, bind)
  BY <1>9, <1>10, <1>11, HeldKept
<1>13. Held(scope, q, GlobalEnv) /\ KindOf(q, GlobalEnv) = "env"
  <2>1. Held(scope, m, GlobalEnv)
    BY HeldRoots DEF RootValues
  <2>2. Held(scope, m1, GlobalEnv) /\ KindOf(m1, GlobalEnv) = "env"
    BY <1>8, <2>1, HeldKept
  <2>3. Held(scope, p, GlobalEnv) /\ KindOf(p, GlobalEnv) = "env"
    BY <1>9, <2>2
  <2>4. Held(scope, m2, GlobalEnv) /\ KindOf(m2, GlobalEnv) = "env"
    BY <1>9, <1>10, <2>3, HeldKept
  <2> QED BY <1>11, <2>4
<1> HIDE DEF bind, symb
<1>14. SoundIn(scope, m3) /\ Keeps(q, m3) /\ m3.aborted = q.aborted /\ m3.running = q.running
  BY <1>5, <1>10, <1>11, <1>12, <1>13, AddVariable
<1>15. Changes(q, m3, {"heap", "next"}) /\ KindOf(m3, GlobalEnv) = "env"
  <2>1. KindOf(m3, GlobalEnv) = "env"
    BY <1>11, <1>13, <1>14, HeldKept
  <2> QED BY <1>14, <2>1 DEF Keeps, Changes
<1>16. SoundIn(scope, r) /\ Changes(m3, r, {"temp_roots"}) /\ r.temp_roots = Front(m3.temp_roots)
  BY <1>6, <1>14, PopTempSound, PopTempIs, SoundIs
<1>17. SoundIn(scope, n) /\ Changes(r, n, {"temp_roots"}) /\ n.temp_roots = Front(r.temp_roots)
  BY <1>5, <1>6, <1>16, PopTempSound, PopTempIs, SoundIs
<1>18. n.temp_roots = m.temp_roots
  <2>1. /\ m1.temp_roots = m.temp_roots /\ m2.temp_roots = p.temp_roots /\ m3.temp_roots = q.temp_roots
        /\ IsStack(m.temp_roots)
    BY <1>8, <1>10, <1>15 DEF Changes, MachineFields, SoundIn
  <2>2. IsStack(p.temp_roots) /\ Front(p.temp_roots) = m.temp_roots
    BY <1>9, <2>1, StackPush
  <2>3. Front(q.temp_roots) = p.temp_roots
    BY <1>11, <2>1, <2>2, StackPush
  <2> QED BY <1>16, <1>17, <2>1, <2>2, <2>3
<1>19. Changes(m, n, {"heap", "next"})
  <2>1. Changes(m, n, {"heap", "next", "temp_roots"})
    BY <1>8, <1>9, <1>10, <1>11, <1>15, <1>16, <1>17 DEF Changes
  <2> QED BY <1>18, <2>1 DEF Changes
<1>20. KindOf(n, GlobalEnv) = "env"
  <2>1. n.heap = m3.heap
    BY <1>16, <1>17 DEF Changes, MachineFields
  <2> QED BY <1>15, <2>1 DEF KindOf, At
<1> QED BY <1>17, <1>19, <1>20

\* The machines that hll_make_vm has added the first k bindings to.
MadeBuilt(made, bindings, k) ==
    made = [n \in 0 .. k |-> IF n = 0 THEN {EmptyMachine}
                             ELSE UNION {hll_add_binding(m, bindings[n]) : m \in made[n - 1]}]

LEMMA MadeExists ==
    ASSUME NEW bindings, NEW k \in Nat
    PROVE  \E f : MadeBuilt(f, bindings, k)
<1> DEFINE S == {n \in Nat : \E f : MadeBuilt(f, bindings, n)}
           Added(ms, n) == UNION {hll_add_binding(m, bindings[n]) : m \in ms}
<1>1. 0 \in S
  <2> DEFINE f == [n \in 0 .. 0 |-> {EmptyMachine}]
  <2>1. MadeBuilt(f, bindings, 0)
    BY DEF MadeBuilt
  <2> QED BY <2>1
<1>2. ASSUME NEW n \in 0 .. (k - 1), n \in S PROVE n + 1 \in S
  <2>1. PICK f : MadeBuilt(f, bindings, n)
    BY <1>2
  <2> DEFINE g == [i \in 0 .. (n + 1) |-> IF i = n + 1 THEN Added(f[n], n + 1) ELSE f[i]]
  <2>2. \A i \in 0 .. n : f[i] = IF i = 0 THEN {EmptyMachine} ELSE Added(f[i - 1], i)
    BY <2>1 DEF MadeBuilt
  <2> HIDE DEF Added
  <2>3. ASSUME NEW i \in 0 .. (n + 1)
        PROVE  g[i] = IF i = 0 THEN {EmptyMachine} ELSE Added(g[i - 1], i)
    <3>1. CASE i = n + 1
      <4>1. i - 1 = n /\ i # 0 /\ g[n] = f[n]
        BY <3>1
      <4>2. g[i] = Added(f[n], n + 1)
        BY <3>1
      <4> QED BY <3>1, <4>1, <4>2
    <3>2. CASE i # n + 1
      <4>1. i \in 0 .. n /\ (i # 0 => i - 1 \in 0 .. n)
        BY <3>2
      <4>2. g[i] = f[i] /\ (i # 0 => g[i - 1] = f[i - 1])
        BY <3>2, <4>1
      <4> QED BY <2>2, <4>1, <4>2
    <3> QED BY <3>1, <3>2
  <2>4. MadeBuilt(g, bindings, n + 1)
    BY <2>3 DEF MadeBuilt, Added
  <2> QED BY <2>4
<1>3. \A n \in 0 .. k : n \in S
  <2> HIDE DEF S
  <2> QED BY <1>1, <1>2, UpTo
<1> QED BY <1>3

\* What a program may be started on.
Ready(m) ==
    /\ Sound(m) /\ Balanced(m, <<>>) /\ ~m.running /\ ~m.aborted
    /\ m.env = GlobalEnv /\ KindOf(m, GlobalEnv) = "env"

LEMMA EmptyReady == Ready(EmptyMachine)
<1> DEFINE m == EmptyMachine
           e == EnvObj(Nil, Nil)
<1>1. DOMAIN m = MachineFields
  BY DEF EmptyMachine, MachineFields
<1>2. /\ m.next = 3 /\ m.codes = <<>> /\ m.stack = <<>> /\ m.call_stack = <<>> /\ m.temp_roots = <<>>
      /\ m.forbid = 0 /\ m.error_count = 0 /\ m.env = GlobalEnv /\ m.running = FALSE /\ m.aborted = FALSE
      /\ m.heap = <<e, e>>
  BY DEF EmptyMachine
<1> HIDE DEF m
<1>3. DOMAIN m.heap = {1, 2} /\ \A a \in {1, 2} : m.heap[a] = e
  BY <1>2
<1>4. /\ e.kind = "env" /\ DOMAIN e = {"kind"} \cup ObjectFields[e.kind] /\ e.kind \in DOMAIN ObjectFields
      /\ \A v \in References(m, e) : v = Nil
  BY DEF EnvObj, ObjectFields, References
<1> HIDE DEF e
<1> DEFINE scope == Whole(m)
<1>5. scope.garbage = {} /\ scope.objects = <<>> /\ scope.codes = m.codes
  BY DEF Whole
<1>6. DOMAIN scope.objects = {}
  BY <1>5
<1> HIDE DEF scope
<1>7. Addressed(scope, m) = {1, 2}
  BY <1>3, <1>5 DEF Addressed
<1>8. /\ IsRef(GlobalEnv) /\ GlobalEnv[2] = 1 /\ IsRef(MacroEnv) /\ MacroEnv[2] = 2
      /\ KindOf(m, GlobalEnv) = "env"
  BY <1>3, <1>4 DEF GlobalEnv, MacroEnv, IsRef, KindOf, At
<1>9. Live(scope, m, GlobalEnv) /\ Live(scope, m, MacroEnv)
  BY <1>3, <1>5, <1>8 DEF Live
<1>10. \A v \in RootValues(m) : v \in {GlobalEnv, MacroEnv}
  BY <1>2, EmptyStack DEF RootValues
<1>11. \A a \in {1, 2} : ObjectSound(scope, m, m.heap[a])
  BY <1>3, <1>4, Atoms DEF ObjectSound
<1>12. SoundIn(scope, m)
  BY <1>1, <1>2, <1>3, <1>5, <1>6, <1>7, <1>8, <1>9, <1>10, <1>11, EmptyStack DEF SoundIn
<1>13. Balanced(m, <<>>)
  BY <1>2 DEF Balanced
<1> QED BY <1>2, <1>8, <1>12, <1>13 DEF Ready, Sound, scope, m

\* The machine of hll_make_vm can be given a program, whatever builtins it is
\* made with and whenever their bindings are added under a collection: it is
\* sound, it has no temp roots left, and no assertion of hll_add_variable fails.
THEOREM MakeVmSound ==
    ASSUME NEW Names, NEW bindings \in Seq(Names), NEW m \in hll_make_vm(bindings)
    PROVE  /\ Sound(m) /\ Balanced(m, <<>>) /\ ~m.running /\ ~m.aborted
           /\ m.env = GlobalEnv /\ KindOf(m, GlobalEnv) = "env"
<1> DEFINE k == Len(bindings)
           made == CHOOSE f : MadeBuilt(f, bindings, k)
<1>1. k \in Nat
  OBVIOUS
<1>2. MadeBuilt(made, bindings, k)
  BY <1>1, MadeExists
<1>3. m \in made[k]
  BY DEF hll_make_vm, MadeBuilt
<1> HIDE DEF made, k
<1> DEFINE S == {n \in 0 .. k : \A p \in made[n] : Ready(p)}
<1>4. 0 \in S
  BY <1>1, <1>2, EmptyReady DEF MadeBuilt
<1>5. ASSUME NEW n \in 0 .. (k - 1), n \in S PROVE n + 1 \in S
  <2>1. made[n + 1] = UNION {hll_add_binding(p, bindings[n + 1]) : p \in made[n]}
    <3>1. n + 1 \in 0 .. k /\ n + 1 # 0 /\ (n + 1) - 1 = n
      BY <1>1
    <3> QED BY <1>2, <3>1 DEF MadeBuilt
  <2>2. ASSUME NEW q \in made[n + 1] PROVE Ready(q)
    <3>1. PICK p \in made[n] : q \in hll_add_binding(p, bindings[n + 1])
      BY <2>1
    <3>2. Ready(p)
      BY <1>5
    <3>3. PICK scope : scope = Whole(p)
      OBVIOUS
    <3>4. SoundIn(scope, p) /\ KindOf(p, GlobalEnv) = "env"
      BY <3>2, <3>3 DEF Ready, Sound
    <3>5. SoundIn(scope, q) /\ Changes(p, q, {"heap", "next"}) /\ KindOf(q, GlobalEnv) = "env"
      BY <3>1, <3>4, AddBinding
    <3>6. /\ q.codes = p.codes /\ q.forbid = p.forbid /\ q.temp_roots = p.temp_roots /\ q.env = p.env
          /\ q.running = p.running /\ q.aborted = p.aborted /\ q.error_count = p.error_count
      BY <3>5 DEF Changes, MachineFields
    <3>7. Whole(q) = scope
      BY <3>3, <3>6 DEF Whole
    <3> QED BY <3>2, <3>5, <3>6, <3>7 DEF Ready, Sound, Balanced
  <2> QED BY <1>1, <2>2
<1>6. k \in S
  <2>1. \A n \in 0 .. k : n \in S
    <3> HIDE DEF S
    <3> QED BY <1>1, <1>4, <1>5, UpTo
  <2> QED BY <1>1, <2>1
<1> QED BY <1>3, <1>6 DEF Ready
=============================================================================
