------------------------------ MODULE GC_proofs ------------------------------
(***************************************************************************)
(* Proofs about GC: its type correctness and its safety for every heap,    *)
(* every configuration and every order of marking and sweeping.            *)
(***************************************************************************)
EXTENDS GC, FiniteSetTheorems, TLAPS

HP == INSTANCE HeapSpec_proofs
          WITH live <- Live, edges <- Graph, roots <- Roots \cup locals

Sharers(c) == {o \in Obj : code[o] = c}

\* The reference graph of the heap, as Reachability wants it.
LEMMA GraphType ==
    ASSUME TypeOK
    PROVE  /\ Graph \in [Obj -> SUBSET Obj]
           /\ Roots \in SUBSET Obj
           /\ Live \in SUBSET Obj
           /\ Rooted \in SUBSET Obj
           /\ Accessible \in SUBSET Obj
<1>1. \A o \in Obj : Refs(o) \subseteq Obj
  BY DEF TypeOK, HeapTypeOK, Refs
<1>2. Graph \in [Obj -> SUBSET Obj]
  BY <1>1 DEF Graph
<1>3. Roots \in SUBSET Obj
  BY ObjAssumption DEF TypeOK, Roots
<1> QED BY <1>2, <1>3 DEF Live, Rooted, Accessible, Reach

\* The same of the graph after a step.
LEMMA GraphTypeNext ==
    ASSUME TypeOK' PROVE Graph' \in [Obj -> SUBSET Obj]
<1>1. \A o \in Obj : Refs(o)' \subseteq Obj
  BY DEF TypeOK, HeapTypeOK, Refs
<1> QED BY <1>1 DEF Graph

\* A new object: one more sharer of the bytecode of a function.
LEMMA ConstructRefcount ==
    ASSUME HeapTypeOK, RefcountMatches, NEW r \in AnyRequest, NEW kept \in SUBSET Obj,
           Construct(r, kept)
    PROVE  /\ refcount' \in [Code -> Nat]
           /\ RefcountMatches'
<1>0. PICK o \in Obj \ Live : code' = [code EXCEPT ![o] = r.code]
  BY DEF Construct
<1>1. o \in Obj /\ code[o] \notin Code
  BY DEF Live, HeapTypeOK
<1>2. refcount' = IF r.kind = "func" THEN IncRefcount(r.code) ELSE refcount
  BY DEF Construct
<1>3. ASSUME NEW c \in Code
      PROVE  refcount'[c] = Cardinality(Sharers(c)') /\ refcount'[c] \in Nat
  <2>1. refcount[c] = Cardinality(Sharers(c)) /\ refcount[c] \in Nat
    BY DEF RefcountMatches, HeapTypeOK, Sharers
  <2>2. CASE r.kind = "func" /\ r.code = c
    <3>1. Sharers(c)' = Sharers(c) \cup {o}
      BY <2>2, <1>0, <1>1 DEF Sharers, HeapTypeOK
    <3>2. o \notin Sharers(c) /\ IsFiniteSet(Sharers(c))
      BY <1>1, ObjAssumption, FS_Subset DEF Sharers
    <3>3. Cardinality(Sharers(c) \cup {o}) = Cardinality(Sharers(c)) + 1
      BY <3>2, FS_AddElement
    <3>4. refcount'[c] = refcount[c] + 1
      BY <1>2, <2>2 DEF IncRefcount, HeapTypeOK
    <3> QED BY <3>1, <3>3, <3>4, <2>1
  <2>3. CASE ~(r.kind = "func" /\ r.code = c)
    <3>1. r.code # c
      BY <2>3 DEF AnyRequest
    <3>2. Sharers(c)' = Sharers(c)
      BY <3>1, <1>0, <1>1 DEF Sharers, HeapTypeOK
    <3>3. refcount'[c] = refcount[c]
      BY <1>2, <2>3, <3>1 DEF IncRefcount, HeapTypeOK
    <3> QED BY <3>2, <3>3, <2>1
  <2> QED BY <2>2, <2>3
<1>4. refcount' = [c \in Code |-> refcount'[c]]
  BY <1>2 DEF IncRefcount, HeapTypeOK
<1> QED BY <1>3, <1>4 DEF RefcountMatches, Sharers

\* A freed object: one sharer less, and no underflow of the count.
LEMMA FreeRefcount ==
    ASSUME HeapTypeOK, RefcountMatches, NEW o \in Live, Free(o)
    PROVE  /\ refcount' \in [Code -> Nat]
           /\ RefcountMatches'
<1>1. o \in Obj /\ kind[o] # "free" /\ code' = [code EXCEPT ![o] = NoCode]
  BY DEF Live, Free
<1>2. ASSUME NEW c \in Code
      PROVE  refcount'[c] = Cardinality(Sharers(c)') /\ refcount'[c] \in Nat
  <2>1. refcount[c] = Cardinality(Sharers(c)) /\ refcount[c] \in Nat
    BY DEF RefcountMatches, HeapTypeOK, Sharers
  <2>2. IsFiniteSet(Sharers(c))
    BY ObjAssumption, FS_Subset DEF Sharers
  <2>3. Sharers(c)' = Sharers(c) \ {o}
    BY <1>1, CodeAssumption DEF Sharers, HeapTypeOK
  <2>4. Cardinality(Sharers(c)') = IF o \in Sharers(c) THEN refcount[c] - 1 ELSE refcount[c]
    BY <2>1, <2>2, <2>3, FS_RemoveElement
  <2>5. Cardinality(Sharers(c)') \in Nat
    BY <2>2, <2>3, FS_RemoveElement, FS_CardinalityType
  <2>6. refcount'[c] = IF o \in Sharers(c) THEN refcount[c] - 1 ELSE refcount[c]
    <3>1. CASE kind[o] = "func"
      BY <1>1, <3>1 DEF Free, Sharers, HeapTypeOK
    <3>2. CASE kind[o] # "func"
      BY <1>1, <3>2 DEF Free, Sharers, HeapTypeOK
    <3> QED BY <3>1, <3>2
  <2> QED BY <2>4, <2>5, <2>6
<1>3. refcount' = [c \in Code |-> refcount'[c]]
  BY DEF Free, HeapTypeOK
<1> QED BY <1>2, <1>3 DEF RefcountMatches, Sharers

\* With the heap every reference goes away.
LEMMA DeleteRefcount ==
    ASSUME HeapTypeOK, RefcountMatches, GiveUpHeap
    PROVE  /\ refcount' \in [Code -> Nat]
           /\ RefcountMatches'
<1>1. ASSUME NEW c \in Code
      PROVE  refcount'[c] = Cardinality(Sharers(c)') /\ refcount'[c] \in Nat
  <2>1. {o \in Live : code[o] = c} = Sharers(c)
    BY DEF Live, Sharers, HeapTypeOK
  <2>2. refcount[c] = Cardinality(Sharers(c)) /\ refcount[c] \in Nat
    BY DEF RefcountMatches, HeapTypeOK, Sharers
  <2>3. refcount'[c] = refcount[c] - Cardinality({o \in Live : code[o] = c})
    BY DEF GiveUpHeap
  <2>4. Sharers(c)' = {}
    BY CodeAssumption DEF Sharers, GiveUpHeap
  <2>5. refcount'[c] = 0
    BY <2>1, <2>2, <2>3
  <2>6. Cardinality(Sharers(c)') = 0
    BY <2>4, FS_EmptySet
  <2> QED BY <2>5, <2>6
<1>2. refcount' = [c \in Code |-> refcount'[c]]
  BY DEF GiveUpHeap
<1> QED BY <1>1, <1>2 DEF RefcountMatches, Sharers

-----------------------------------------------------------------------------
(* Type correctness. *)

\* The counts of bytes stay within the machine word (hll_gc.c 103 to 112).
LEMMA BytesType ==
    \A n \in Nat, m \in Nat :
        /\ Plus(n, m) \in 0 .. (Word - 1)
        /\ Minus(n, m) \in 0 .. (Word - 1)
        /\ NextGc(n) \in 0 .. (Word - 1)
<1> TAKE n \in Nat, m \in Nat
<1>1. Word \in Nat \ {0} /\ MinHeapSize \in 0 .. (Word - 1) /\ HeapGrowPercent \in Nat
  BY ConfigAssumption
<1>2. \A i \in Int : i % Word \in 0 .. (Word - 1)
  BY <1>1
<1>3. n * HeapGrowPercent \in Int
  BY <1>1
<1>4. ((n * HeapGrowPercent) % Word) \div 100 \in Int
  BY <1>2, <1>3
<1>5. Plus(n, ((n * HeapGrowPercent) % Word) \div 100) \in 0 .. (Word - 1)
  BY <1>2, <1>4 DEF Plus
<1>6. NextGc(n) \in 0 .. (Word - 1)
  BY <1>1, <1>5 DEF NextGc
<1>7. Plus(n, m) \in 0 .. (Word - 1) /\ Minus(n, m) \in 0 .. (Word - 1)
  BY <1>2 DEF Plus, Minus
<1> QED BY <1>6, <1>7

\* A constructor leaves a well-formed heap.
LEMMA ConstructType ==
    ASSUME TypeOK, RefcountMatches, NEW r \in AnyRequest, NEW kept \in SUBSET Obj,
           Construct(r, kept)
    PROVE  HeapTypeOK' /\ RefcountMatches' /\ locals' \in SUBSET Obj
<1>1. PICK o \in Obj \ Live :
        /\ kind' = [kind EXCEPT ![o] = r.kind]
        /\ body' = [body EXCEPT ![o] = r.body]
        /\ code' = [code EXCEPT ![o] = r.code]
        /\ pool' = pool
        /\ locals' = kept \cup {o}
  BY DEF Construct
<1>2. refcount' \in [Code -> Nat] /\ RefcountMatches'
  BY ConstructRefcount DEF TypeOK
<1>3. /\ r.kind \in ObjKind
      /\ r.body \in Body
      /\ DOMAIN r.body = FieldsOf(r.kind)
      /\ r.code \in Code \cup {NoCode}
      /\ r.code \in Code <=> r.kind = "func"
  BY ConfigAssumption DEF AnyRequest
<1>4. HeapTypeOK'
  BY <1>1, <1>2, <1>3 DEF TypeOK, HeapTypeOK
<1> QED BY <1>1, <1>2, <1>4

\* hll_free_obj leaves a well-formed heap.
LEMMA FreeType ==
    ASSUME TypeOK, RefcountMatches, NEW o \in Live, Free(o)
    PROVE  HeapTypeOK' /\ RefcountMatches'
<1>1. refcount' \in [Code -> Nat] /\ RefcountMatches'
  BY FreeRefcount DEF TypeOK
<1>2. NoBody \in Body /\ DOMAIN NoBody = FieldsOf("free")
  BY DEF NoBody, Body, FieldsOf, ObjKind
<1>3. o \in Obj
  BY DEF Live
<1>4. pool' \in [Code -> SUBSET Obj]
  BY DEF Free, TypeOK, HeapTypeOK
<1>5. code' \in [Obj -> Code \cup {NoCode}]
  BY <1>3 DEF Free, TypeOK, HeapTypeOK
<1>6. \A p \in Obj : code'[p] \in Code <=> kind'[p] = "func"
  BY <1>3, CodeAssumption DEF Free, TypeOK, HeapTypeOK
<1>7. /\ kind' \in [Obj -> ObjKind \cup {"free"}]
      /\ body' \in [Obj -> Body]
      /\ \A p \in Obj : DOMAIN body'[p] = FieldsOf(kind'[p])
  BY <1>2, <1>3 DEF Free, TypeOK, HeapTypeOK
<1> QED BY <1>1, <1>4, <1>5, <1>6, <1>7 DEF HeapTypeOK

\* What a client asks for is well-formed.
LEMMA RequestType ==
    ASSUME TypeOK, NEW r \in Requests
    PROVE  r \in AnyRequest
<1>1. PICK k \in Kinds : r \in RequestsOf(k, MayUse)
  BY DEF Requests
<1>2. MayUse \in SUBSET Obj
  BY GraphType DEF MayUse
<1>3. k \in ObjKind
  BY ConfigAssumption
<1>4. r.kind = k /\ r.body \in [FieldsOf(k) -> Value]
  BY <1>1, <1>2 DEF RequestsOf, Value
<1>5. r.body \in Body /\ DOMAIN r.body = FieldsOf(k)
  BY <1>3, <1>4 DEF Body
<1>6. MayRun(MayUse) \subseteq Code
  BY <1>2 DEF MayRun, TypeOK, HeapTypeOK
<1>7. r.code \in Code \cup {NoCode} /\ (r.code \in Code <=> k = "func")
  BY <1>1, <1>6, CodeAssumption DEF RequestsOf
<1>8. r = [kind |-> r.kind, body |-> r.body, code |-> r.code]
  BY <1>1 DEF RequestsOf
<1> QED BY <1>4, <1>5, <1>7, <1>8 DEF AnyRequest

(***************************************************************************)
(* The part of the invariant that is about types and counts.  The sweep    *)
(* frees only what is allocated, or a reference count would underflow.     *)
(***************************************************************************)
Base == /\ TypeOK
        /\ RefcountMatches
        /\ unswept \subseteq Live
        /\ pc # "sweep" => unswept = {}
        /\ pc = "deleted" => Live = {} /\ locals = {}

\* The machine starts in a well-formed state.
LEMMA BaseInit == Init => Base
<1> SUFFICES ASSUME Init PROVE Base
  OBVIOUS
<1>1. kind \in [Obj -> ObjKind \cup {"free"}]
  BY DEF Init, ObjKind
<1>2. /\ body \in [Obj -> Body]
      /\ \A o \in Obj : DOMAIN body[o] = FieldsOf(kind[o])
  <2>1. NoBody \in Body /\ DOMAIN NoBody = FieldsOf("free")
    BY DEF NoBody, Body, FieldsOf, ObjKind
  <2>2. [f \in FieldsOf("env") |-> Imm] \in Body
    BY DEF Body, ObjKind, Value
  <2> QED BY <2>1, <2>2 DEF Init
<1>3. code \in [Obj -> Code \cup {NoCode}] /\ \A o \in Obj : code[o] = NoCode
  BY DEF Init
<1>4. \A o \in Obj : code[o] \in Code <=> kind[o] = "func"
  BY <1>3, CodeAssumption DEF Init
<1>5. pool \in [Code -> SUBSET Obj] /\ refcount \in [Code -> Nat]
  BY DEF Init
<1>6. HeapTypeOK
  BY <1>1, <1>2, <1>3, <1>4, <1>5 DEF HeapTypeOK
<1>7. RefcountMatches
  <2> SUFFICES ASSUME NEW c \in Code PROVE refcount[c] = Cardinality(Sharers(c))
    BY DEF RefcountMatches, Sharers
  <2>1. Sharers(c) = {}
    BY <1>3, CodeAssumption DEF Sharers
  <2> QED BY <2>1, FS_EmptySet DEF Init
<1>8. held \in [RootClass -> SUBSET Obj]
  BY ObjAssumption DEF Init
<1>9. bytes_allocated \in 0 .. (Word - 1) /\ next_gc \in 0 .. (Word - 1)
  <2>1. Header \in Nat /\ Payload["env"] \in Nat
    BY ConfigAssumption DEF ObjKind
  <2>2. SizeOf("env") \in Nat /\ BlackenedSize("env") = SizeOf("env")
    BY <2>1 DEF SizeOf, BlackenedSize
  <2>3. 2 * SizeOf("env") <= HeapSize /\ HeapSize \in 0 .. (Word - 1)
    BY ConfigAssumption DEF SizeOf
  <2>4. 2 * SizeOf("env") \in 0 .. (Word - 1) /\ SizeOf("env") \in 0 .. (Word - 1)
    BY <2>2, <2>3, ConfigAssumption
  <2>5. bytes_allocated \in 0 .. (Word - 1)
    BY <2>2, <2>4 DEF Init
  <2>6. NextGc(BlackenedSize("env")) \in 0 .. (Word - 1)
    BY <2>2, BytesType
  <2> QED BY <2>3, <2>5, <2>6 DEF Init
<1>10. TypeOK
  BY <1>6, <1>8, <1>9 DEF Init, TypeOK
<1> QED BY <1>7, <1>10 DEF Init, Base

\* Every step leaves a well-formed state, as long as what is queued for
\* marking has not been freed.
LEMMA BaseStep == Base /\ gray_objs \subseteq Live /\ [Next]_vars => Base'
<1> SUFFICES ASSUME Base, gray_objs \subseteq Live, [Next]_vars PROVE Base'
  OBVIOUS
<1> USE DEF Base
<1>s. ASSUME NEW k \in ObjKind
      PROVE  SizeOf(k) \in Nat /\ BlackenedSize(k) \in Nat
  BY ConfigAssumption DEF SizeOf, BlackenedSize
<1>1. CASE Allocate
  <2>1. PICK r \in Requests : /\ bytes_allocated' = Counted(r)
                              /\ Construct(r, IF forbid = 0 THEN {} ELSE locals)
    BY <1>1 DEF Allocate
  <2>2. r \in AnyRequest
    BY RequestType
  <2>3. HeapTypeOK' /\ RefcountMatches' /\ locals' \in SUBSET Obj
    BY <2>1, <2>2, ConstructType DEF TypeOK
  <2>4. bytes_allocated' \in 0 .. (Word - 1)
    <3>1. r.kind \in ObjKind
      BY <2>2, ConfigAssumption DEF AnyRequest
    <3>2. bytes_allocated \in Nat
      BY DEF TypeOK
    <3> QED BY <2>1, <3>1, <3>2, <1>s, BytesType DEF Counted
  <2>5. pc = "run" /\ UNCHANGED <<held, forbid, next_gc, pc, collector>>
    BY <1>1 DEF Allocate
  <2>6. TypeOK'
    BY <2>3, <2>4, <2>5 DEF TypeOK, collector, AnyRequest
  <2>7. Live \subseteq Live'
    BY <2>1 DEF Construct, Live, TypeOK, HeapTypeOK
  <2> QED BY <2>3, <2>5, <2>6, <2>7 DEF collector
<1>2. CASE StartCollection
  BY <1>2, GraphType, RequestType, ConfigAssumption
  DEF StartCollection, TypeOK, HeapTypeOK, RefcountMatches, heap, AnyRequest, Live
<1>3. ASSUME NEW o \in Obj, Blacken(o) PROVE Base'
  <2>1. GrayedBy(o) \subseteq Obj
    BY DEF GrayedBy
  <2>2. bytes_allocated' \in 0 .. (Word - 1)
    <3>1. kind[o] \in ObjKind
      BY <1>3 DEF Blacken, Live, TypeOK, HeapTypeOK
    <3>2. bytes_allocated \in Nat
      BY DEF TypeOK
    <3> QED BY <1>3, <1>s, <3>1, <3>2, BytesType DEF Blacken
  <2> QED BY <1>3, <2>1, <2>2
          DEF Blacken, TypeOK, HeapTypeOK, RefcountMatches, heap, client, AnyRequest, Live
<1>4. CASE StartSweep
  BY <1>4 DEF StartSweep, TypeOK, HeapTypeOK, RefcountMatches, heap, client, bytes,
              AnyRequest, Live
<1>5. ASSUME NEW o \in Obj, Sweep(o) PROVE Base'
  <2>1. o \in Live
    BY <1>5 DEF Sweep
  <2>2. CASE o \in dark
    BY <1>5, <2>2 DEF Sweep, TypeOK, HeapTypeOK, RefcountMatches, heap, client,
                      AnyRequest, Live
  <2>3. CASE o \notin dark
    <3>1. Free(o) /\ dark' = dark
      BY <1>5, <2>3 DEF Sweep
    <3>2. HeapTypeOK' /\ RefcountMatches'
      BY <2>1, <3>1, FreeType
    <3>3. bytes_allocated' \in 0 .. (Word - 1)
      <4>1. kind[o] \in ObjKind
        BY <2>1 DEF Live, TypeOK, HeapTypeOK
      <4>2. bytes_allocated \in Nat
        BY DEF TypeOK
      <4> QED BY <1>s, <3>1, <4>1, <4>2, BytesType DEF Free
    <3>4. TypeOK'
      BY <1>5, <3>1, <3>2, <3>3 DEF Sweep, TypeOK, client, AnyRequest
    <3>5. unswept' \subseteq Live'
      BY <1>5, <3>1 DEF Sweep, Free, Live, TypeOK, HeapTypeOK
    <3> QED BY <1>5, <3>2, <3>4, <3>5 DEF Sweep
  <2> QED BY <2>2, <2>3
<1>6. CASE FinishCollection
  <2>1. request \in AnyRequest
    BY <1>6 DEF FinishCollection, TypeOK
  <2>2. HeapTypeOK' /\ RefcountMatches' /\ locals' \in SUBSET Obj
    BY <1>6, <2>1, ConstructType DEF FinishCollection
  <2>3. next_gc' \in 0 .. (Word - 1)
    BY <1>6, BytesType DEF FinishCollection, TypeOK
  <2> QED BY <1>6, <2>2, <2>3 DEF FinishCollection, TypeOK, Live
<1>7. CASE Store
  <2>1. PICK o \in Accessible, v \in Accessible \cup {Imm} :
        \E f \in DOMAIN body[o] : body' = [body EXCEPT ![o][f] = v]
    BY <1>7 DEF Store
  <2>2. PICK f \in DOMAIN body[o] : body' = [body EXCEPT ![o][f] = v]
    BY <2>1
  <2>3. o \in Obj /\ v \in Value
    BY <2>1, GraphType DEF Value
  <2>4. PICK k \in ObjKind : body[o] \in [FieldsOf(k) -> Value]
    BY <2>3 DEF TypeOK, HeapTypeOK, Body
  <2>5. body' = [body EXCEPT ![o] = [body[o] EXCEPT ![f] = v]]
    BY <2>2, <2>3 DEF TypeOK, HeapTypeOK
  <2>6. [body[o] EXCEPT ![f] = v] \in [FieldsOf(k) -> Value]
    BY <2>2, <2>3, <2>4
  <2>7. /\ body' \in [Obj -> Body]
        /\ \A p \in Obj : DOMAIN body'[p] = DOMAIN body[p]
    BY <2>3, <2>4, <2>5, <2>6 DEF TypeOK, HeapTypeOK, Body
  <2> QED BY <1>7, <2>7 DEF Store, TypeOK, HeapTypeOK, RefcountMatches, client, bytes,
                            collector, AnyRequest, Live
<1>8. CASE AddConstant
  <2>1. pool' \in [Code -> SUBSET Obj]
    BY <1>8, GraphType DEF AddConstant, TypeOK, HeapTypeOK
  <2> QED BY <1>8, <2>1 DEF AddConstant, TypeOK, HeapTypeOK, RefcountMatches, client,
                            bytes, collector, AnyRequest, Live
<1>9. CASE Hold
  <2>1. held' \in [RootClass -> SUBSET Obj]
    BY <1>9, GraphType, ConfigAssumption DEF Hold, TypeOK
  <2> QED BY <1>9, <2>1 DEF Hold, TypeOK, HeapTypeOK, RefcountMatches, heap, bytes,
                            collector, AnyRequest, Live
<1>10. CASE Drop
  <2>1. held' \in [RootClass -> SUBSET Obj] /\ locals' \in SUBSET Obj
    BY <1>10, ConfigAssumption DEF Drop, TypeOK
  <2> QED BY <1>10, <2>1 DEF Drop, TypeOK, HeapTypeOK, RefcountMatches, heap, bytes,
                             collector, AnyRequest, Live
<1>11. CASE PushForbid
  BY <1>11 DEF PushForbid, TypeOK, HeapTypeOK, RefcountMatches, heap, bytes, collector,
               AnyRequest, Live
<1>12. CASE PopForbid
  BY <1>12 DEF PopForbid, TypeOK, HeapTypeOK, RefcountMatches, heap, bytes, collector,
               AnyRequest, Live
<1>13. CASE DeleteGc \/ OutOfMemory
  <2>0. GiveUpHeap /\ unswept = {}
    BY <1>13 DEF DeleteGc, OutOfMemory
  <2>1. refcount' \in [Code -> Nat] /\ RefcountMatches'
    BY <2>0, DeleteRefcount DEF TypeOK
  <2>2. NoBody \in Body /\ DOMAIN NoBody = FieldsOf("free")
    BY DEF NoBody, Body, FieldsOf, ObjKind
  <2>3. pool' \in [Code -> SUBSET Obj]
    BY <2>0 DEF GiveUpHeap, TypeOK, HeapTypeOK
  <2>4. HeapTypeOK'
    BY <2>0, <2>1, <2>2, <2>3, CodeAssumption DEF GiveUpHeap, HeapTypeOK
  <2>5. TypeOK'
    BY <2>0, <2>4 DEF GiveUpHeap, TypeOK, bytes
  <2> QED BY <2>0, <2>1, <2>5 DEF GiveUpHeap, Live
<1>14. CASE UNCHANGED vars
  BY <1>14 DEF vars, TypeOK, HeapTypeOK, RefcountMatches, heap, client, bytes, collector,
               AnyRequest, Live
<1> QED BY <1>1, <1>2, <1>3, <1>4, <1>5, <1>6, <1>7, <1>8, <1>9, <1>10, <1>11, <1>12,
           <1>13, <1>14 DEF Next, Collect, Client, Deleted

-----------------------------------------------------------------------------
(***************************************************************************)
(* Every step of the collector and its client is a step of HeapSpec.       *)
(***************************************************************************)
SafeInv == Base /\ MarkSweepInv /\ NoDangling

\* HeapSpec means by accessible what GC means by it.
LEMMA AbstractReach == \A e, R : HP!Reach(e, R) = Reach(e, R)
BY DEF HP!Reach, HP!ClosedAbove, Reach, ClosedAbove

\* The same of what is accessible.
LEMMA AbstractAccess == HP!Access = Accessible
BY AbstractReach DEF HP!Access, Accessible

\* What the roots reach is accessible; both sets are closed.
LEMMA RootsSplit ==
    ASSUME TypeOK
    PROVE  /\ Rooted \subseteq Accessible
           /\ Roots \subseteq Rooted
           /\ Roots \cup locals \subseteq Accessible
           /\ \A o \in Rooted : Refs(o) \subseteq Rooted
           /\ \A o \in Accessible : Refs(o) \subseteq Accessible
           /\ locals = {} => Accessible = Rooted
<1>1. /\ Graph \in [Obj -> SUBSET Obj]
      /\ Roots \in SUBSET Obj
      /\ Roots \cup locals \in SUBSET Obj
      /\ Accessible \in SUBSET Obj
      /\ Rooted \in SUBSET Obj
  BY GraphType DEF TypeOK
<1>2. Roots \subseteq Rooted /\ Roots \cup locals \subseteq Accessible
  BY <1>1, HP!ReachRoots, AbstractReach DEF Rooted, Accessible
<1>3. \A o \in Rooted : Graph[o] \subseteq Rooted
  BY <1>1, HP!ReachClosed, AbstractReach DEF Rooted
<1>4. \A o \in Accessible : Graph[o] \subseteq Accessible
  BY <1>1, HP!ReachClosed, AbstractReach DEF Accessible
<1>5. Rooted \subseteq Accessible
  BY <1>1, <1>2, <1>4, HP!ReachLeast, AbstractReach DEF Rooted
<1>6. locals = {} => Roots \cup locals = Roots
  OBVIOUS
<1> QED BY <1>1, <1>2, <1>3, <1>4, <1>5, <1>6 DEF Graph, Rooted, Accessible

\* A constructor points only to what its caller may use.
LEMMA RequestWanted ==
    ASSUME Base, MarkSweepInv, NEW r \in Requests
    PROVE  Wanted(r) \subseteq MayUse
<1> USE DEF Base
<1>1. PICK k \in Kinds : r \in RequestsOf(k, MayUse)
  BY DEF Requests
<1>2. \A f \in DOMAIN r.body : r.body[f] \in MayUse \cup {Imm}
  BY <1>1 DEF RequestsOf
<1>3. ASSUME r.code # NoCode PROVE pool[r.code] \subseteq MayUse
  <2>1. r.code \in MayRun(MayUse)
    BY <1>1, <1>3 DEF RequestsOf
  <2>2. CASE \E f \in MayUse : code[f] = r.code
    <3>1. PICK f \in MayUse : code[f] = r.code
      BY <2>2
    <3>2. pool[r.code] \subseteq Refs(f)
      BY <1>3, <3>1 DEF Refs
    <3>3. Refs(f) \subseteq MayUse
      BY <3>1, RootsSplit DEF MayUse
    <3> QED BY <3>2, <3>3
  <2>3. CASE r.code \in Code /\ refcount[r.code] = 0
    BY <2>3 DEF MarkSweepInv
  <2> QED BY <2>1, <2>2, <2>3 DEF MayRun
<1> QED BY <1>2, <1>3, ObjAssumption DEF Wanted

\* Constructing an object out of what is reachable from the roots and the
\* variables the client keeps is an allocation of HeapSpec.
LEMMA ConstructMaps ==
    ASSUME Base, Base', NoDangling, NEW r \in AnyRequest, NEW kept \in SUBSET locals,
           Construct(r, kept), Wanted(r) \subseteq Accessible, Roots' = Roots
    PROVE  \E o \in Obj : HP!Allocate(o)
<1> USE DEF Base
<1>1. PICK o \in Obj \ Live :
        /\ kind' = [kind EXCEPT ![o] = r.kind]
        /\ body' = [body EXCEPT ![o] = r.body]
        /\ code' = [code EXCEPT ![o] = r.code]
        /\ pool' = pool
        /\ locals' = kept \cup {o}
  BY DEF Construct
<1>2. o \notin Accessible
  BY <1>1 DEF NoDangling
<1>3. Live' = Live \cup {o}
  BY <1>1, ConfigAssumption DEF Live, TypeOK, HeapTypeOK, AnyRequest, ObjKind
<1>4. \A p \in Obj \ {o} : Refs(p)' = Refs(p)
  BY <1>1 DEF Refs, TypeOK, HeapTypeOK
<1>5. Refs(o)' = Wanted(r)
  BY <1>1 DEF Refs, Wanted, TypeOK, HeapTypeOK
<1>6. Graph' \in [Obj -> SUBSET Obj]
  BY GraphTypeNext
<1>7. \A p \in Accessible : Graph'[p] = Graph[p]
  BY <1>2, <1>4, GraphType DEF Graph
<1>8. Graph'[o] \subseteq Accessible
  BY <1>5 DEF Graph
<1>9. (Roots \cup locals)' \subseteq Accessible \cup {o}
  <2>1. Roots \cup locals \subseteq Accessible
    BY RootsSplit
  <2>2. (Roots \cup locals)' = Roots \cup kept \cup {o}
    BY <1>1
  <2>3. Roots \cup kept \cup {o} \subseteq Accessible \cup {o}
    BY <2>1
  <2> QED BY <2>2, <2>3
<1> QED BY <1>1, <1>3, <1>6, <1>7, <1>8, <1>9, AbstractAccess
       DEF HP!Allocate

\* Between two allocations the client moves accessible objects around.
LEMMA MutateMaps ==
    ASSUME Base, Base', Live' = Live,
           \A o \in Accessible : Refs(o)' \subseteq Accessible,
           (Roots \cup locals)' \subseteq Accessible
    PROVE  HP!Mutate
<1>1. Graph' \in [Obj -> SUBSET Obj]
  BY GraphTypeNext DEF Base
<1>2. \A o \in Accessible : Graph'[o] \subseteq Accessible
  BY GraphType DEF Graph, Base
<1> QED BY <1>1, <1>2, AbstractAccess DEF HP!Mutate

\* Freeing an object that is not accessible changes no reference of an
\* accessible one: the last sharer of a bytecode frees its constants, but an
\* accessible function would be another sharer.
LEMMA FreeKeepsRefs ==
    ASSUME Base, NEW o \in Live \ Accessible, Free(o), NEW p \in Accessible
    PROVE  Refs(p)' = Refs(p)
<1> USE DEF Base
<1>1. p \in Obj /\ o \in Obj /\ p # o
  BY GraphType
<1>2. body'[p] = body[p] /\ code'[p] = code[p]
  BY <1>1 DEF Free, TypeOK, HeapTypeOK
<1>3. code[p] # NoCode => pool'[code[p]] = pool[code[p]]
  <2> SUFFICES ASSUME kind[o] = "func", refcount[code[o]] = 1, code[p] = code[o]
               PROVE  FALSE
    BY <1>1 DEF Free, TypeOK, HeapTypeOK
  <2>1. code[o] \in Code
    BY <1>1 DEF TypeOK, HeapTypeOK
  <2>2. IsFiniteSet(Sharers(code[o])) /\ Cardinality(Sharers(code[o])) = 1
    BY <2>1, ObjAssumption, FS_Subset DEF Sharers, RefcountMatches
  <2>3. o \in Sharers(code[o]) /\ p \in Sharers(code[o])
    BY <1>1 DEF Sharers
  <2> QED BY <2>2, <2>3, <1>1, FS_Singleton
<1> QED BY <1>2, <1>3 DEF Refs

\* hll_free_obj of an object that is not accessible is a Reclaim of HeapSpec.
LEMMA FreeMaps ==
    ASSUME Base, Base', NEW o \in Live \ Accessible, Free(o), UNCHANGED <<Roots, locals>>
    PROVE  HP!Reclaim(o) /\ Accessible' = Accessible
<1>1. Live' = Live \ {o}
  BY DEF Free, Live, Base, TypeOK, HeapTypeOK
<1>2. Graph \in [Obj -> SUBSET Obj] /\ Graph' \in [Obj -> SUBSET Obj]
  BY GraphType, GraphTypeNext DEF Base
<1>3. \A p \in Accessible : Graph'[p] = Graph[p]
  BY FreeKeepsRefs, GraphType DEF Graph, Base
<1>4. (Roots \cup locals)' = Roots \cup locals
  OBVIOUS
<1>5. HP!Reclaim(o)
  BY <1>1, <1>2, <1>3, <1>4, AbstractAccess DEF HP!Reclaim
<1>6. Roots \cup locals \in SUBSET Obj
  BY GraphType DEF Base, TypeOK
<1>7. Reach(Graph', Roots \cup locals) = Reach(Graph, Roots \cup locals)
  BY <1>2, <1>3, <1>6, HP!ReachSame, AbstractReach DEF Accessible
<1> QED BY <1>4, <1>5, <1>7 DEF Accessible

\* The refinement, step by step.
LEMMA StepMaps ==
    ASSUME SafeInv, Base', [Next]_vars
    PROVE  [HP!Next]_HP!vars
<1> USE DEF SafeInv
<1>1. CASE Allocate
  <2>1. PICK r \in Requests : Construct(r, IF forbid = 0 THEN {} ELSE locals)
    BY <1>1 DEF Allocate
  <2>2. r \in AnyRequest /\ Wanted(r) \subseteq Accessible
    BY RequestType, RequestWanted, RootsSplit DEF Base, MayUse
  <2>3. Roots' = Roots
    BY <1>1 DEF Allocate, Roots
  <2>4. \E o \in Obj : HP!Allocate(o)
    BY <2>1, <2>2, <2>3, ConstructMaps
  <2> QED BY <2>4 DEF HP!Next
<1>2. CASE StartCollection
  <2>1. Roots' = Roots /\ locals' = {} /\ UNCHANGED heap
    BY <1>2 DEF StartCollection, Roots
  <2>2. (Roots \cup locals)' \subseteq Accessible
    BY <2>1, RootsSplit DEF Base
  <2>3. Live' = Live /\ \A o \in Accessible : Refs(o)' \subseteq Accessible
    BY <2>1, RootsSplit DEF Base, heap, Live, Refs
  <2>4. HP!Mutate
    BY <2>2, <2>3, MutateMaps
  <2> QED BY <2>4 DEF HP!Next
<1>3. ASSUME NEW o \in Obj, Blacken(o) PROVE UNCHANGED HP!vars
  BY <1>3 DEF Blacken, heap, client, HP!vars, Live, Graph, Refs, Roots
<1>4. CASE StartSweep
  BY <1>4 DEF StartSweep, heap, client, HP!vars, Live, Graph, Refs, Roots
<1>5. ASSUME NEW o \in Obj, Sweep(o) PROVE [HP!Next]_HP!vars
  <2>1. CASE o \in dark
    BY <1>5, <2>1 DEF Sweep, heap, client, HP!vars, Live, Graph, Refs, Roots
  <2>2. CASE o \notin dark
    <3>1. o \in Live \ Accessible
      BY <1>5, <2>2, RootsSplit DEF Sweep, Base, MarkSweepInv
    <3>2. Free(o) /\ UNCHANGED <<Roots, locals>>
      BY <1>5, <2>2 DEF Sweep, client, Roots
    <3>3. HP!Reclaim(o)
      BY <3>1, <3>2, FreeMaps
    <3> QED BY <3>3 DEF HP!Next
  <2> QED BY <2>1, <2>2
<1>6. CASE FinishCollection
  <2>1. Construct(request, {}) /\ Roots' = Roots
    BY <1>6 DEF FinishCollection, Roots
  <2>2. request \in AnyRequest /\ Wanted(request) \subseteq Accessible
    BY <1>6, RootsSplit DEF FinishCollection, Base, TypeOK, MarkSweepInv
  <2>3. \E o \in Obj : HP!Allocate(o)
    BY <2>1, <2>2, ConstructMaps
  <2> QED BY <2>3 DEF HP!Next
<1>7. CASE Store
  <2>0. PICK o \in Accessible, v \in Accessible \cup {Imm} :
           \E f \in DOMAIN body[o] : body' = [body EXCEPT ![o][f] = v]
    BY <1>7 DEF Store
  <2>1. PICK f \in DOMAIN body[o] : body' = [body EXCEPT ![o][f] = v]
    BY <2>0
  <2>2. UNCHANGED <<kind, code, pool, Roots, locals>>
    BY <1>7 DEF Store, client, Roots
  <2>3. ASSUME NEW p \in Accessible PROVE Refs(p)' \subseteq Accessible
    <3>1. Refs(p) \subseteq Accessible /\ p \in Obj
      BY RootsSplit, GraphType DEF Base
    <3>2. DOMAIN body'[p] = DOMAIN body[p]
      BY <2>1, <3>1 DEF Base, TypeOK, HeapTypeOK
    <3>3. \A g \in DOMAIN body[p] : body'[p][g] \in {body[p][g], v}
      BY <2>1, <3>1 DEF Base, TypeOK, HeapTypeOK
    <3>4. \A g \in DOMAIN body[p] : body[p][g] \in Obj => body[p][g] \in Accessible
      BY <3>1 DEF Refs
    <3>5. \A g \in DOMAIN body'[p] : body'[p][g] \in Obj => body'[p][g] \in Accessible
      BY <2>1, <3>2, <3>3, <3>4, ObjAssumption
    <3>6. code[p] # NoCode => pool[code[p]] \subseteq Accessible
      BY <3>1 DEF Refs
    <3> QED BY <2>2, <3>5, <3>6 DEF Refs
  <2>4. Live' = Live /\ (Roots \cup locals)' \subseteq Accessible
    BY <2>2, RootsSplit DEF Live, Base
  <2>5. HP!Mutate
    BY <2>3, <2>4, MutateMaps
  <2> QED BY <2>5 DEF HP!Next
<1>8. CASE AddConstant
  <2>1. PICK f \in Accessible, v \in Accessible :
           pool' = [pool EXCEPT ![code[f]] = @ \cup {v}]
    BY <1>8 DEF AddConstant
  <2>2. UNCHANGED <<kind, body, code, Roots, locals>>
    BY <1>8 DEF AddConstant, client, Roots
  <2>3. ASSUME NEW p \in Accessible PROVE Refs(p)' \subseteq Accessible
    <3>1. Refs(p) \subseteq Accessible /\ p \in Obj
      BY RootsSplit, GraphType DEF Base
    <3>2. code[p] # NoCode => pool'[code[p]] \subseteq pool[code[p]] \cup {v}
      BY <2>1, <3>1 DEF Base, TypeOK, HeapTypeOK
    <3> QED BY <2>1, <2>2, <3>1, <3>2 DEF Refs
  <2>4. Live' = Live /\ (Roots \cup locals)' \subseteq Accessible
    BY <2>2, RootsSplit DEF Live, Base
  <2>5. HP!Mutate
    BY <2>3, <2>4, MutateMaps
  <2> QED BY <2>5 DEF HP!Next
<1>g. ASSUME UNCHANGED heap, (Roots \cup locals)' \subseteq Accessible
      PROVE  HP!Mutate
  <2>1. Live' = Live /\ \A o \in Accessible : Refs(o)' \subseteq Accessible
    BY <1>g, RootsSplit DEF Base, heap, Live, Refs
  <2> QED BY <1>g, <2>1, MutateMaps
<1>9. CASE Hold
  <2>1. PICK o \in Accessible, c \in RootClass :
           held' = [held EXCEPT ![c] = IF c = "env" THEN {o} ELSE @ \cup {o}]
    BY <1>9, ConfigAssumption DEF Hold
  <2>2. UNCHANGED heap /\ pc = "run" /\ pc' = pc /\ locals' = locals
    BY <1>9 DEF Hold
  <2>3. Roots \cup locals \subseteq Accessible
    BY RootsSplit DEF Base
  <2>4. \A d \in RootClass : held'[d] \subseteq held[d] \cup {o}
    BY <2>1 DEF Base, TypeOK
  <2>5. Roots' \subseteq Roots \cup {o}
    BY <2>2, <2>4 DEF Roots
  <2>6. (Roots \cup locals)' \subseteq Accessible
    BY <2>1, <2>2, <2>3, <2>5
  <2> QED BY <1>g, <2>2, <2>6 DEF HP!Next
<1>10. CASE Drop
  <2>1. PICK c \in RootClass : \E o \in held[c] :
           /\ held' = [held EXCEPT ![c] = @ \ {o}]
           /\ locals' \in {locals, locals \cup {o}}
    BY <1>10, ConfigAssumption DEF Drop
  <2>2. PICK o \in held[c] : /\ held' = [held EXCEPT ![c] = @ \ {o}]
                             /\ locals' \in {locals, locals \cup {o}}
    BY <2>1
  <2>3. UNCHANGED heap /\ pc = "run" /\ pc' = pc
    BY <1>10 DEF Drop
  <2>4. Roots \cup locals \subseteq Accessible
    BY RootsSplit DEF Base
  <2>5. \A d \in RootClass : held'[d] \subseteq held[d]
    BY <2>2 DEF Base, TypeOK
  <2>6. Roots' \subseteq Roots /\ o \in Roots
    BY <2>2, <2>3, <2>5 DEF Roots
  <2>7. (Roots \cup locals)' \subseteq Accessible
    BY <2>2, <2>4, <2>6
  <2> QED BY <1>g, <2>3, <2>7 DEF HP!Next
<1>11. CASE PushForbid \/ PopForbid
  BY <1>11 DEF PushForbid, PopForbid, heap, HP!vars, Live, Graph, Refs, Roots
<1>12. CASE DeleteGc \/ OutOfMemory
  <2>1. Live' = {} /\ (Roots \cup locals)' = {}
    BY <1>12 DEF DeleteGc, OutOfMemory, GiveUpHeap, Live, Roots
  <2>2. Graph' \in [Obj -> SUBSET Obj]
    BY GraphTypeNext DEF Base
  <2>3. HP!Shutdown
    BY <2>1, <2>2 DEF HP!Shutdown
  <2> QED BY <2>3 DEF HP!Next
<1>13. CASE UNCHANGED vars
  BY <1>13 DEF vars, heap, client, HP!vars, Live, Graph, Refs, Roots
<1> QED BY <1>1, <1>2, <1>3, <1>4, <1>5, <1>6, <1>7, <1>8, <1>9, <1>10, <1>11, <1>12,
           <1>13 DEF Next, Collect, Client, Deleted

-----------------------------------------------------------------------------
(* Marking and sweeping. *)

\* hll_blacken_value grays every reference of a live object.
LEMMA GrayedByRefs ==
    ASSUME TypeOK, NEW o \in Live PROVE GrayedBy(o) = Refs(o)
<1>1. o \in Obj /\ kind[o] \in ObjKind /\ DOMAIN body[o] = FieldsOf(kind[o])
  BY DEF Live, TypeOK, HeapTypeOK
<1>2. code[o] \in Code <=> kind[o] = "func"
  BY <1>1 DEF TypeOK, HeapTypeOK
<1>3. code[o] \in Code \cup {NoCode}
  BY <1>1 DEF TypeOK, HeapTypeOK
<1>4. kind[o] = "func" => pool[code[o]] \subseteq Obj
  BY <1>1, <1>2 DEF TypeOK, HeapTypeOK
<1>5. CASE kind[o] = "cons"
  <2>1. {body[o][f] : f \in DOMAIN body[o]} = {body[o]["car"], body[o]["cdr"]}
    BY <1>1, <1>5 DEF FieldsOf
  <2> QED BY <2>1, <1>2, <1>3, <1>5 DEF GrayedBy, Refs
<1>6. CASE kind[o] = "env"
  <2>1. {body[o][f] : f \in DOMAIN body[o]} = {body[o]["vars"], body[o]["up"]}
    BY <1>1, <1>6 DEF FieldsOf
  <2> QED BY <2>1, <1>2, <1>3, <1>6 DEF GrayedBy, Refs
<1>7. CASE kind[o] = "func"
  <2>1. {body[o][f] : f \in DOMAIN body[o]} = {body[o]["param_names"], body[o]["env"]}
    BY <1>1, <1>7 DEF FieldsOf
  <2>2. code[o] # NoCode
    BY <1>2, <1>7, CodeAssumption
  <2> QED BY <2>1, <2>2, <1>4, <1>7 DEF GrayedBy, Refs
<1>8. CASE kind[o] \in {"symb", "bind"}
  <2>1. {body[o][f] : f \in DOMAIN body[o]} = {}
    BY <1>1, <1>8 DEF FieldsOf
  <2> QED BY <2>1, <1>2, <1>3, <1>8 DEF GrayedBy, Refs
<1> QED BY <1>1, <1>5, <1>6, <1>7, <1>8 DEF ObjKind

\* Bytecode without a function has no constants left.
FreshPool == \A c \in Code : refcount[c] = 0 => pool[c] = {}

\* Bytecode that no function uses has no constants, after any step.
LEMMA FreshPoolStep ==
    ASSUME SafeInv, Base', [Next]_vars PROVE FreshPool'
<1> USE DEF SafeInv, Base
<1>0. FreshPool /\ refcount \in [Code -> Nat] /\ pool \in [Code -> SUBSET Obj]
  BY DEF FreshPool, MarkSweepInv, TypeOK, HeapTypeOK
<1>1. ASSUME NEW r, NEW kept, Construct(r, kept) PROVE FreshPool'
  BY <1>0, <1>1 DEF Construct, FreshPool, IncRefcount
<1>2. ASSUME NEW o \in Live, Free(o) PROVE FreshPool'
  BY <1>0, <1>2 DEF Free, FreshPool
<1>3. ASSUME UNCHANGED <<refcount, pool>> PROVE FreshPool'
  BY <1>0, <1>3 DEF FreshPool
<1>4. CASE AddConstant
  BY <1>0, <1>4 DEF AddConstant, FreshPool
<1>5. CASE DeleteGc \/ OutOfMemory
  BY <1>0, <1>5 DEF DeleteGc, OutOfMemory, GiveUpHeap, FreshPool
<1>6. ASSUME NEW o \in Obj, Sweep(o) PROVE FreshPool'
  <2>1. o \in Live
    BY <1>6 DEF Sweep
  <2> QED BY <1>2, <1>3, <1>6, <2>1 DEF Sweep, heap
<1>7. CASE Allocate \/ FinishCollection
  BY <1>1, <1>7 DEF Allocate, FinishCollection
<1>8. ASSUME NEW o \in Obj, Blacken(o) PROVE FreshPool'
  BY <1>3, <1>8 DEF Blacken, heap
<1>9. CASE StartCollection \/ StartSweep \/ Store \/ Hold \/ Drop \/ PushForbid \/ PopForbid
  BY <1>3, <1>9 DEF StartCollection, StartSweep, Store, Hold, Drop, PushForbid, PopForbid, heap
<1>10. CASE UNCHANGED vars
  BY <1>3, <1>10 DEF vars, heap
<1> QED BY <1>4, <1>5, <1>6, <1>7, <1>8, <1>9, <1>10 DEF Next, Collect, Client, Deleted

\* The conjuncts of MarkSweepInv that a phase of the collection owns.
MarkInv == /\ forbid = 0
           /\ locals = {}
           /\ Wanted(request) \subseteq Rooted
           /\ Roots \subseteq dark
           /\ dark \subseteq Rooted
           /\ gray_objs \subseteq dark
           /\ \A o \in dark \ gray_objs : Refs(o) \subseteq dark

SweepInv == /\ forbid = 0
            /\ locals = {}
            /\ Wanted(request) \subseteq Rooted
            /\ gray_objs = {}
            /\ dark = Rooted \cap unswept
            /\ Live \subseteq Rooted \cup unswept

\* MarkSweepInv, one conjunct per phase of hll_collect_garbage.
LEMMA Phases ==
    MarkSweepInv <=> /\ FreshPool
                     /\ pc \in {"run", "deleted"} => dark = {} /\ gray_objs = {}
                     /\ pc = "mark" => MarkInv
                     /\ pc = "sweep" => SweepInv
BY DEF MarkSweepInv, FreshPool, MarkInv, SweepInv

\* A step that leaves payloads and roots alone leaves reachability alone.
LEMMA SameGraph ==
    ASSUME UNCHANGED heap, Roots' = Roots
    PROVE  /\ Rooted' = Rooted
           /\ Live' = Live
           /\ \A o \in Obj : Refs(o)' = Refs(o)
BY DEF heap, Rooted, Live, Graph, Refs

\* Graying the roots establishes the invariant of the marking loop.
LEMMA StartCollectionStep ==
    ASSUME SafeInv, Base', StartCollection PROVE MarkInv' /\ pc' = "mark"
<1> USE DEF SafeInv
<1>0. dark = {}
  BY Phases DEF StartCollection
<1>1. /\ UNCHANGED heap /\ UNCHANGED forbid /\ Roots' = Roots
      /\ dark' = Roots /\ gray_objs' = Roots /\ locals' = {} /\ pc' = "mark"
  BY <1>0 DEF StartCollection, Roots
<1>2. request' \in Requests /\ forbid = 0
  BY DEF StartCollection, Collects
<1>3. Wanted(request') \subseteq Rooted
  BY <1>2, RequestWanted DEF MayUse
<1>4. Wanted(request)' \subseteq Rooted'
  BY <1>1, <1>3, SameGraph DEF Wanted, heap
<1>5. Roots \subseteq Rooted
  BY RootsSplit DEF Base
<1> QED BY <1>1, <1>2, <1>4, <1>5, SameGraph DEF MarkInv

\* One round of the marking loop keeps its invariant.
LEMMA BlackenStep ==
    ASSUME SafeInv, NEW o \in Obj, Blacken(o) PROVE MarkInv' /\ pc' = "mark"
<1> USE DEF SafeInv
<1>1. MarkInv /\ pc = "mark" /\ o \in gray_objs
  BY Phases DEF Blacken
<1>2. /\ UNCHANGED heap /\ Roots' = Roots
      /\ UNCHANGED <<forbid, locals, request, pc>>
  BY DEF Blacken, client, Roots
<1>3. Rooted \subseteq Live
  BY RootsSplit DEF Base, NoDangling
<1>4. GrayedBy(o) = Refs(o) /\ Refs(o) \subseteq Rooted
  BY <1>1, <1>3, GrayedByRefs, RootsSplit DEF MarkInv, Base
<1>5. /\ dark' = dark \cup Refs(o)
      /\ gray_objs' = (gray_objs \ {o}) \cup (Refs(o) \ dark)
  BY <1>4 DEF Blacken
<1>6. /\ Roots \subseteq dark'
      /\ dark' \subseteq Rooted
      /\ gray_objs' \subseteq dark'
  BY <1>1, <1>4, <1>5 DEF MarkInv
<1>7. \A p \in dark' \ gray_objs' : Refs(p) \subseteq dark'
  BY <1>1, <1>5 DEF MarkInv
<1>8. dark' \subseteq Obj
  BY <1>6, GraphType DEF Base
<1>9. Wanted(request)' = Wanted(request)
  BY <1>2 DEF Wanted, heap
<1> QED BY <1>1, <1>2, <1>6, <1>7, <1>8, <1>9, SameGraph DEF MarkInv

\* When nothing is queued any more, what is dark is closed: it is exactly
\* what the roots reach.
LEMMA StartSweepStep ==
    ASSUME SafeInv, StartSweep PROVE SweepInv' /\ pc' = "sweep"
<1> USE DEF SafeInv
<1>1. MarkInv /\ gray_objs = {}
  BY Phases DEF StartSweep
<1>2. /\ UNCHANGED heap /\ Roots' = Roots
      /\ UNCHANGED <<forbid, locals, request, dark, gray_objs>>
      /\ unswept' = Live /\ pc' = "sweep"
  BY DEF StartSweep, client, Roots
<1>3. Rooted \subseteq Live
  BY RootsSplit DEF Base, NoDangling
<1>4. dark \in SUBSET Obj /\ \A o \in dark : Graph[o] \subseteq dark
  BY <1>1 DEF MarkInv, Base, TypeOK, Graph
<1>5. Rooted \subseteq dark
  BY <1>1, <1>4, HP!ReachLeast, AbstractReach DEF MarkInv, Rooted
<1>6. Wanted(request)' = Wanted(request)
  BY <1>2 DEF Wanted, heap
<1> QED BY <1>1, <1>2, <1>3, <1>5, <1>6, SameGraph DEF MarkInv, SweepInv

\* One round of the sweep keeps its invariant.
LEMMA SweepStep ==
    ASSUME SafeInv, Base', NEW o \in Obj, Sweep(o) PROVE SweepInv' /\ pc' = "sweep"
<1> USE DEF SafeInv
<1>1. SweepInv /\ pc = "sweep" /\ o \in unswept /\ unswept' = unswept \ {o}
  BY Phases DEF Sweep
<1>2. Roots' = Roots /\ UNCHANGED <<forbid, locals, request, gray_objs, pc>>
  BY DEF Sweep, client, Roots
<1>3. CASE o \in dark
  <2>1. UNCHANGED heap /\ dark' = dark \ {o}
    BY <1>3 DEF Sweep
  <2>2. Wanted(request)' = Wanted(request)
    BY <1>2, <2>1 DEF Wanted, heap
  <2> QED BY <1>1, <1>2, <1>3, <2>1, <2>2, SameGraph DEF SweepInv
<1>4. CASE o \notin dark
  <2>1. Free(o) /\ dark' = dark
    BY <1>4 DEF Sweep
  <2>2. o \in Live \ Accessible
    BY <1>1, <1>4, RootsSplit DEF SweepInv, Base
  <2>3. Accessible' = Accessible
    BY <1>2, <2>1, <2>2, FreeMaps
  <2>4. Rooted' = Rooted
    <3>1. Roots \cup locals = Roots /\ (Roots \cup locals)' = Roots'
      BY <1>1, <1>2 DEF SweepInv
    <3> QED BY <2>3, <3>1 DEF Accessible, Rooted
  <2>5. Live' = Live \ {o}
    BY <2>1, <2>2 DEF Free, Live, Base, TypeOK, HeapTypeOK
  <2>6. Wanted(request)' \subseteq Wanted(request)
    <3>1. \A c \in Code : pool'[c] \subseteq pool[c]
      BY <2>1 DEF Free, Base, TypeOK, HeapTypeOK
    <3>2. request.code \in Code \cup {NoCode}
      BY <1>1 DEF Base, TypeOK, AnyRequest
    <3> QED BY <1>2, <3>1, <3>2 DEF Wanted
  <2>7. o \notin Rooted
    BY <2>2, RootsSplit DEF Base
  <2> QED BY <1>1, <1>2, <2>1, <2>4, <2>5, <2>6, <2>7 DEF SweepInv
<1> QED BY <1>3, <1>4

\* Every step keeps the invariants of the phases.
LEMMA MarkSweepStep ==
    ASSUME SafeInv, Base', [Next]_vars PROVE MarkSweepInv'
<1>f. FreshPool'
  BY FreshPoolStep
<1>0. pc \in {"run", "deleted"} => dark = {} /\ gray_objs = {}
  BY Phases DEF SafeInv
<1>p. SUFFICES /\ pc' \in {"run", "deleted"} => dark' = {} /\ gray_objs' = {}
               /\ pc' = "mark" => MarkInv'
               /\ pc' = "sweep" => SweepInv'
  BY <1>f DEF MarkSweepInv, FreshPool, MarkInv, SweepInv
<1>1. CASE StartCollection
  BY <1>1, StartCollectionStep
<1>2. ASSUME NEW o \in Obj, Blacken(o) PROVE MarkInv' /\ pc' = "mark"
  BY <1>2, BlackenStep
<1>3. CASE StartSweep
  BY <1>3, StartSweepStep
<1>4. ASSUME NEW o \in Obj, Sweep(o) PROVE SweepInv' /\ pc' = "sweep"
  BY <1>4, SweepStep
<1>5. CASE FinishCollection
  <2>1. dark = {} /\ gray_objs = {}
    BY <1>5, Phases DEF FinishCollection, SafeInv, SweepInv
  <2> QED BY <1>5, <2>1 DEF FinishCollection
<1>6. CASE Allocate \/ Store \/ AddConstant \/ Hold \/ Drop \/ PushForbid \/ PopForbid
  BY <1>6, <1>0 DEF Allocate, Store, AddConstant, Hold, Drop, PushForbid, PopForbid, collector
<1>7. CASE DeleteGc \/ OutOfMemory
  <2>1. dark = {} /\ gray_objs = {}
    BY <1>7, <1>0, Phases DEF DeleteGc, OutOfMemory, SafeInv, SweepInv, Base
  <2> QED BY <1>7, <2>1 DEF DeleteGc, OutOfMemory, GiveUpHeap
<1>8. CASE UNCHANGED vars
  <2>1. UNCHANGED heap /\ Roots' = Roots
        /\ UNCHANGED <<forbid, locals, request, dark, gray_objs, unswept, pc>>
    BY <1>8 DEF vars, client, collector, Roots
  <2>2. Wanted(request)' = Wanted(request)
    BY <2>1 DEF Wanted, heap
  <2>3. (pc = "mark" => MarkInv) /\ (pc = "sweep" => SweepInv)
    BY Phases DEF SafeInv
  <2>4. dark \subseteq Obj
    BY DEF SafeInv, Base, TypeOK
  <2> QED BY <1>0, <2>1, <2>2, <2>3, <2>4, SameGraph DEF MarkInv, SweepInv
<1> QED BY <1>1, <1>2, <1>3, <1>4, <1>5, <1>6, <1>7, <1>8 DEF Next, Collect, Client, Deleted

-----------------------------------------------------------------------------
(* The theorems. *)

\* The inductive invariant holds when hll_make_vm returns.
LEMMA SafeInit == Init => SafeInv
<1> SUFFICES ASSUME Init PROVE SafeInv
  OBVIOUS
<1>1. Base
  BY BaseInit
<1>2. Live = {GlobalEnv, MacroEnv} /\ Roots \cup locals \subseteq Live
  BY ObjAssumption DEF Init, Live, Roots
<1>3. \A o \in Obj : Graph[o] = {}
  BY ObjAssumption, CodeAssumption DEF Init, Graph, Refs, NoBody
<1>4. NoDangling
  <2>1. Live \in SUBSET Obj /\ \A o \in Live : Graph[o] \subseteq Live
    BY <1>2, <1>3, ObjAssumption
  <2>2. HP!Reach(Graph, Roots \cup locals) \subseteq Live
    BY <1>2, <2>1, HP!ReachLeast
  <2> QED BY <2>2, AbstractReach DEF NoDangling, Accessible
<1>5. MarkSweepInv
  BY DEF Init, MarkSweepInv
<1> QED BY <1>1, <1>4, <1>5 DEF SafeInv

\* What is queued for marking has not been freed.
LEMMA GrayLive ==
    ASSUME SafeInv PROVE gray_objs \subseteq Live
<1>1. Rooted \subseteq Live
  BY RootsSplit DEF SafeInv, Base, NoDangling
<1>2. CASE pc = "mark"
  BY <1>1, <1>2, Phases DEF SafeInv, MarkInv
<1>3. CASE pc \in {"run", "sweep", "deleted"}
  BY <1>3, Phases DEF SafeInv, SweepInv
<1> QED BY <1>2, <1>3 DEF SafeInv, Base, TypeOK

\* The inductive invariant is inductive: no step of the collector or of its
\* client breaks it.
LEMMA SafeStep == SafeInv /\ [Next]_vars => SafeInv'
<1> SUFFICES ASSUME SafeInv, [Next]_vars PROVE SafeInv'
  OBVIOUS
<1>1. Base'
  BY BaseStep, GrayLive DEF SafeInv
<1>2. MarkSweepInv'
  BY <1>1, MarkSweepStep
<1>3. [HP!Next]_HP!vars
  BY <1>1, StepMaps
<1>4. HP!TypeOK /\ HP!NoDangling
  <2>1. Roots \cup locals \in SUBSET Obj
    BY GraphType DEF SafeInv, Base, TypeOK
  <2> QED BY <2>1, GraphType, AbstractAccess
          DEF HP!TypeOK, HP!NoDangling, SafeInv, Base, NoDangling
<1>5. HP!NoDangling'
  BY <1>3, <1>4, HP!NoDanglingStep
<1>6. NoDangling'
  BY <1>5 DEF HP!NoDangling, HP!Access, HP!Reach, HP!ClosedAbove,
              NoDangling, Accessible, Reach, ClosedAbove
<1> QED BY <1>1, <1>2, <1>6 DEF SafeInv

\* The collector is safe: its inductive invariant always holds.
THEOREM Safety == Spec => []SafeInv
BY SafeInit, SafeStep, PTL DEF Spec

\* Every variable keeps its type; in particular reference counts never go
\* below zero and counts of bytes stay within the machine word.
THEOREM TypeCorrect == Spec => []TypeOK
BY Safety, PTL DEF SafeInv, Base

\* hll_collect_garbage never frees what the interpreter can still get at.
THEOREM NothingDangles == Spec => []NoDangling
BY Safety, PTL DEF SafeInv

\* A bytecode lives exactly as long as a function uses it.
THEOREM RefcountCorrect == Spec => []RefcountMatches
BY Safety, PTL DEF SafeInv, Base

\* The marking loop's invariant and the sweep's.
THEOREM MarkSweepCorrect == Spec => []MarkSweepInv
BY Safety, PTL DEF SafeInv

\* The collector implements HeapSpec: its safety part for any liveness.
THEOREM Refinement == Spec => KeepsPromise
<1>1. SafeInv => Accessible \subseteq Live
  BY DEF SafeInv, NoDangling
<1>2. H!Access = Accessible
  BY DEF H!Access, H!Reach, H!ClosedAbove, Accessible, Reach, ClosedAbove
<1>3. SafeInv => H!Init
  <2> SUFFICES ASSUME SafeInv PROVE H!Init
    OBVIOUS
  <2>1. Roots \cup locals \in SUBSET Obj
    BY GraphType DEF SafeInv, Base, TypeOK
  <2> QED BY <1>1, <1>2, <2>1, GraphType DEF H!Init, H!NoDangling, SafeInv, Base
<1>4. [HP!Next]_HP!vars => [H!Next]_H!vars
  BY <1>2, AbstractAccess
  DEF HP!Next, HP!vars, HP!Mutate, HP!Allocate, HP!Reclaim, HP!Shutdown,
      H!Next, H!vars, H!Mutate, H!Allocate, H!Reclaim, H!Shutdown
<1>5. SafeInv /\ SafeInv' /\ [Next]_vars => [H!Next]_H!vars
  BY <1>4, StepMaps DEF SafeInv
<1> QED BY <1>3, <1>5, SafeInit, Safety, PTL DEF Spec, KeepsPromise, H!Spec

\* No object is freed between hll_push_forbid_gc and hll_pop_forbid_gc.
THEOREM ForbidCorrect == Spec => ForbidRespected
<1>1. ASSUME SafeInv, [Next]_vars, forbid > 0, pc' # "deleted"
      PROVE  Live \subseteq Live'
  <2> USE <1>1
  <2>1. pc \notin {"mark", "sweep"}
    BY Phases DEF SafeInv, MarkInv, SweepInv
  <2>2. ASSUME NEW r, NEW kept, Construct(r, kept) PROVE Live \subseteq Live'
    BY <2>2 DEF Construct, Live, SafeInv, Base, TypeOK, HeapTypeOK
  <2>3. CASE Allocate
    BY <2>2, <2>3 DEF Allocate
  <2>4. CASE ~Allocate
    BY <2>1, <2>4 DEF Next, Collect, Client, Deleted, StartCollection, Blacken, Sweep,
       StartSweep, FinishCollection, Store, AddConstant, Hold, Drop, PushForbid, PopForbid,
       DeleteGc, OutOfMemory, GiveUpHeap, vars, heap, Live
  <2> QED BY <2>3, <2>4
<1>2. SafeInv /\ [Next]_vars => [forbid > 0 /\ pc' # "deleted" => Live \subseteq Live']_vars
  BY <1>1
<1> QED BY <1>2, Safety, PTL DEF Spec, ForbidRespected

\* A collection keeps nothing that was not reachable.
THEOREM CollectionExact == Spec => NoFloatingGarbage
<1>1. ASSUME SafeInv, [Next]_vars, pc = "sweep", pc' = "run" PROVE Live = Rooted
  <2> USE <1>1
  <2>1. FinishCollection
    BY DEF Next, Collect, Client, Deleted, Allocate, StartCollection, Blacken, Sweep,
       StartSweep, Store, AddConstant, Hold, Drop, PushForbid, PopForbid, DeleteGc,
       OutOfMemory, GiveUpHeap, vars
  <2>2. Live \subseteq Rooted
    BY <2>1, Phases DEF SafeInv, SweepInv, FinishCollection
  <2>3. Rooted \subseteq Live
    BY RootsSplit DEF SafeInv, Base, NoDangling
  <2> QED BY <2>2, <2>3
<1>2. SafeInv /\ [Next]_vars => [pc = "sweep" /\ pc' = "run" => Live = Rooted]_vars
  BY <1>1
<1> QED BY <1>2, Safety, PTL DEF Spec, NoFloatingGarbage
=============================================================================
