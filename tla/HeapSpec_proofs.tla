--------------------------- MODULE HeapSpec_proofs ---------------------------
(* The abstract heap never loses an accessible object. *)
EXTENDS HeapSpec, TLAPS

-----------------------------------------------------------------------------
(* What the proofs about the heap need to know of Reach. *)

\* The roots are reachable.
LEMMA ReachRoots ==
    ASSUME NEW e, NEW R \in SUBSET Obj
    PROVE  R \subseteq Reach(e, R)
BY DEF Reach, ClosedAbove

\* What a reachable object refers to is reachable.
LEMMA ReachClosed ==
    ASSUME NEW e \in [Obj -> SUBSET Obj], NEW R \in SUBSET Obj, NEW o \in Reach(e, R)
    PROVE  e[o] \subseteq Reach(e, R)
<1> SUFFICES ASSUME NEW p \in e[o], NEW S \in ClosedAbove(e, R)
             PROVE  p \in S
    BY DEF Reach
<1> QED BY DEF Reach, ClosedAbove

\* A closed set above the roots contains everything reachable.
LEMMA ReachLeast ==
    ASSUME NEW e, NEW R, NEW S \in SUBSET Obj,
           R \subseteq S, \A o \in S : e[o] \subseteq S
    PROVE  Reach(e, R) \subseteq S
BY DEF Reach, ClosedAbove

\* Changing the graph within a set of objects that has all the new roots and
\* keeps its references to itself reaches nothing outside the set.
LEMMA ReachSame ==
    ASSUME NEW e \in [Obj -> SUBSET Obj], NEW g \in [Obj -> SUBSET Obj],
           NEW R \in SUBSET Obj,
           \A o \in Reach(e, R) : g[o] = e[o]
    PROVE  Reach(g, R) = Reach(e, R)
<1>1. Reach(g, R) \subseteq Reach(e, R)
  <2>1. Reach(e, R) \in SUBSET Obj
    BY DEF Reach
  <2>2. \A o \in Reach(e, R) : g[o] \subseteq Reach(e, R)
    BY ReachClosed
  <2> QED BY <2>1, <2>2, ReachRoots, ReachLeast
<1>2. Reach(e, R) \subseteq Reach(g, R)
  <2>1. Reach(g, R) \in SUBSET Obj
    BY DEF Reach
  <2>2. \A o \in Reach(g, R) : e[o] \subseteq Reach(g, R)
    BY <1>1, ReachClosed
  <2> QED BY <2>1, <2>2, ReachRoots, ReachLeast
<1> QED BY <1>1, <1>2

-----------------------------------------------------------------------------
(* The steps of the abstract heap. *)

\* Rearranging accessible objects reaches nothing new.
LEMMA MutateStep ==
    ASSUME TypeOK, NoDangling, Mutate PROVE NoDangling'
<1>1. Access \in SUBSET Obj
  BY DEF Access, Reach
<1>2. \A o \in Access : edges'[o] \subseteq Access
  BY DEF Mutate
<1>3. Access' \subseteq Access
  BY <1>1, <1>2, ReachLeast DEF Mutate, Access
<1> QED BY <1>3 DEF NoDangling, Mutate

\* A new object reaches itself and accessible objects only.
LEMMA AllocateStep ==
    ASSUME TypeOK, NoDangling, NEW o \in Obj, Allocate(o) PROVE NoDangling'
<1>1. Access \cup {o} \in SUBSET Obj
  BY DEF Access, Reach
<1>2. \A p \in Access : edges'[p] \subseteq Access
  BY ReachClosed DEF Allocate, Access, TypeOK
<1>3. \A p \in Access \cup {o} : edges'[p] \subseteq Access \cup {o}
  BY <1>2 DEF Allocate
<1>4. roots' \subseteq Access \cup {o}
  BY DEF Allocate
<1>5. Reach(edges', roots') \subseteq Access \cup {o}
  BY <1>1, <1>3, <1>4, ReachLeast
<1>6. Access' \subseteq Access \cup {o}
  BY <1>5 DEF Access
<1> QED BY <1>6 DEF NoDangling, Allocate

\* Taking an inaccessible object away leaves the accessible ones.
LEMMA ReclaimStep ==
    ASSUME TypeOK, NoDangling, NEW o \in Obj, Reclaim(o) PROVE NoDangling'
<1>1. Access' = Access
  BY ReachSame DEF Reclaim, Access, TypeOK
<1> QED BY <1>1 DEF NoDangling, Reclaim

\* After the end of the heap nothing is accessible.
LEMMA ShutdownStep ==
    ASSUME Shutdown PROVE NoDangling'
<1>1. \A S \in SUBSET Obj : S = {} => roots' \subseteq S /\ \A o \in S : edges'[o] \subseteq S
  BY DEF Shutdown
<1>2. Access' \subseteq {}
  BY <1>1, ReachLeast DEF Access
<1> QED BY <1>2 DEF NoDangling

\* Every step of the abstract heap is a step of graphs.
LEMMA TypeStep == TypeOK /\ [Next]_vars => TypeOK'
BY DEF TypeOK, Next, vars, Mutate, Allocate, Reclaim, Shutdown, Access, Reach

\* Every step of the abstract heap keeps the accessible objects.
LEMMA NoDanglingStep == TypeOK /\ NoDangling /\ [Next]_vars => NoDangling'
<1> SUFFICES ASSUME TypeOK, NoDangling, [Next]_vars PROVE NoDangling'
  OBVIOUS
<1>1. CASE Mutate
  BY <1>1, MutateStep
<1>2. ASSUME NEW o \in Obj, Allocate(o) PROVE NoDangling'
  BY <1>2, AllocateStep
<1>3. ASSUME NEW o \in Obj, Reclaim(o) PROVE NoDangling'
  BY <1>3, ReclaimStep
<1>4. CASE Shutdown
  BY <1>4, ShutdownStep
<1>5. CASE UNCHANGED vars
  BY <1>5 DEF vars, NoDangling, Access
<1> QED BY <1>1, <1>2, <1>3, <1>4, <1>5 DEF Next

\* The promise itself: whatever a client and a collector do within HeapSpec,
\* no accessible object is reclaimed.
THEOREM AbstractSafety == Spec => [](TypeOK /\ NoDangling)
<1>1. Init => TypeOK /\ NoDangling
  BY DEF Init, TypeOK
<1> QED BY <1>1, TypeStep, NoDanglingStep, PTL DEF Spec
=============================================================================
