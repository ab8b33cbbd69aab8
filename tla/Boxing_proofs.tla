---------------------------- MODULE Boxing_proofs ----------------------------
(***************************************************************************)
(* Proofs about the boxing of values, for parts of any size that satisfy   *)
(* Sizes, those of the code among them.                                    *)
(***************************************************************************)
EXTENDS Boxing, TLAPS

TypeOK == /\ heap \in [Pointer -> ObjKinds \cup {Free}]
          /\ value \in Word
          /\ meant \in Kinds

\* How a value of each kind is represented.
Boxed ==
    \/ meant = NUM /\ value.high # HighMax
    \/ meant \in {NIL, TRUE_} /\ value = nan_box_singleton(meant)
    \/ /\ meant \in ObjKinds
       /\ \E ptr \in Pointer : value = nan_box_ptr(ptr) /\ heap[ptr] = meant

IInv == TypeOK /\ Boxed

-----------------------------------------------------------------------------
(* The representation is an inductive invariant: what is on the heap keeps *)
(* its kind, since an address is given out only while it is free.          *)

LEMMA InitBoxed == ASSUME Sizes PROVE Init => IInv
<1>1. 0 \in 0 .. 1 /\ HighMax \in 0 .. HighMax /\ NIL \in 0 .. (LowSize - 1)
  BY DEF Sizes, NIL
<1>2. SUFFICES ASSUME Init PROVE IInv
  OBVIOUS
<1>3. value \in Word
  BY <1>1, <1>2 DEF Init, hll_nil, nan_box_singleton, Word
<1>4. TypeOK
  BY <1>2, <1>3 DEF Init, TypeOK, Kinds, NIL
<1>5. Boxed
  BY <1>2 DEF Init, Boxed, hll_nil, NIL
<1> QED
  BY <1>4, <1>5 DEF IInv

LEMMA NextBoxed == ASSUME Sizes PROVE IInv /\ [Next]_vars => IInv'
<1>1. /\ 0 \in 0 .. 1 /\ 1 \in 0 .. 1 /\ HighMax \in 0 .. HighMax
      /\ NIL \in 0 .. (LowSize - 1) /\ TRUE_ \in 0 .. (LowSize - 1)
  BY DEF Sizes, NIL, TRUE_
<1>2. SUFFICES ASSUME IInv, [Next]_vars PROVE IInv'
  OBVIOUS
<1>3. CASE MakeNum
  <2>1. TypeOK'
    BY <1>2, <1>3 DEF IInv, TypeOK, MakeNum, Kinds, NUM
  <2>2. Boxed'
    BY <1>3 DEF MakeNum, Boxed
  <2> QED
    BY <2>1, <2>2 DEF IInv
<1>4. CASE MakeNil
  <2>1. TypeOK'
    BY <1>1, <1>2, <1>4 DEF IInv, TypeOK, MakeNil, Kinds, NIL, Word, hll_nil, nan_box_singleton
  <2>2. Boxed'
    BY <1>4 DEF MakeNil, Boxed, hll_nil
  <2> QED
    BY <2>1, <2>2 DEF IInv
<1>5. CASE MakeTrue
  <2>1. TypeOK'
    BY <1>1, <1>2, <1>5
    DEF IInv, TypeOK, MakeTrue, Kinds, TRUE_, Word, hll_true, nan_box_singleton
  <2>2. Boxed'
    BY <1>5 DEF MakeTrue, Boxed, hll_true
  <2> QED
    BY <2>1, <2>2 DEF IInv
<1>6. CASE MakeObj
  <2>1. PICK ptr \in Pointer, kind \in ObjKinds :
           /\ heap' = [heap EXCEPT ![ptr] = kind]
           /\ value' = nan_box_ptr(ptr)
           /\ meant' = kind
    BY <1>6 DEF MakeObj
  <2>2. value' \in Word
    BY <1>1, <2>1 DEF Word, nan_box_ptr, Pointer
  <2>3. kind \in Kinds
    BY DEF ObjKinds, Kinds
  <2>4. TypeOK'
    BY <1>2, <2>1, <2>2, <2>3 DEF IInv, TypeOK
  <2>5. heap'[ptr] = kind
    BY <1>2, <2>1 DEF IInv, TypeOK
  <2>6. Boxed'
    BY <2>1, <2>5 DEF Boxed, nan_box_ptr
  <2> QED
    BY <2>4, <2>6 DEF IInv
<1>7. CASE UNCHANGED vars
  BY <1>2, <1>7 DEF IInv, TypeOK, Boxed, vars, nan_box_ptr, nan_box_singleton
<1> QED
  BY <1>2, <1>3, <1>4, <1>5, <1>6, <1>7 DEF Next

\* Every value is represented as its kind demands.
THEOREM Representation == ASSUME Sizes PROVE Spec => []IInv
<1>1. Init => IInv
  BY InitBoxed
<1>2. IInv /\ [Next]_vars => IInv'
  BY NextBoxed
<1> QED
  BY <1>1, <1>2, PTL DEF Spec

-----------------------------------------------------------------------------
LEMMA BoxedTests == ASSUME Sizes, IInv PROVE TestsExact
<1>1. CASE meant = NUM /\ value.high # HighMax
  BY <1>1 DEF TestsExact, hll_is_num, hll_is_obj, hll_is_nil, hll_is_cons, hll_is_symb,
       hll_nil, nan_box_singleton, NUM, NIL, CONS, ObjKinds
<1>2. CASE meant \in {NIL, TRUE_} /\ value = nan_box_singleton(meant)
  BY <1>2 DEF TestsExact, hll_is_num, hll_is_obj, hll_is_nil, hll_is_cons, hll_is_symb,
       hll_nil, nan_box_singleton, NUM, NIL, TRUE_, CONS, ObjKinds
<1>3. CASE /\ meant \in ObjKinds
           /\ \E ptr \in Pointer : value = nan_box_ptr(ptr) /\ heap[ptr] = meant
  <2>1. PICK ptr \in Pointer : value = nan_box_ptr(ptr) /\ heap[ptr] = meant
    BY <1>3
  <2>2. value.sign = 1 /\ value.high = HighMax /\ nan_unbox_ptr(value) = ptr
    BY <2>1 DEF nan_box_ptr, nan_unbox_ptr
  <2>3. value # hll_nil
    BY <2>2 DEF hll_nil, nan_box_singleton
  <2> QED
    BY <1>3, <2>1, <2>2, <2>3 DEF TestsExact, hll_is_num, hll_is_obj, hll_is_nil, hll_is_cons,
       hll_is_symb, NUM, NIL, CONS, ObjKinds
<1> QED
  BY <1>1, <1>2, <1>3 DEF IInv, Boxed

LEMMA BoxedKinds == ASSUME Sizes, IInv PROVE KindsKept
<1>1. CASE meant = NUM /\ value.high # HighMax
  <2>1. hll_get_value_kind(value) = value.low % KindSize
    BY <1>1 DEF hll_get_value_kind, hll_is_obj, nan_unbox_singleton
  <2> QED
    BY <1>1, <2>1 DEF KindsKept, NUM
<1>2. CASE meant \in {NIL, TRUE_} /\ value = nan_box_singleton(meant)
  <2>1. hll_get_value_kind(value) = meant % KindSize
    BY <1>2 DEF hll_get_value_kind, hll_is_obj, nan_unbox_singleton, nan_box_singleton
  <2>2. meant % KindSize = meant
    <3>1. meant \in 1 .. 2 /\ KindSize \in Nat /\ 7 < KindSize
      BY <1>2 DEF NIL, TRUE_, Sizes
    <3> QED
      BY <3>1
  <2> QED
    BY <2>1, <2>2 DEF KindsKept
<1>3. CASE /\ meant \in ObjKinds
           /\ \E ptr \in Pointer : value = nan_box_ptr(ptr) /\ heap[ptr] = meant
  <2>1. hll_get_value_kind(value) = meant
    BY <1>3 DEF hll_get_value_kind, hll_is_obj, nan_box_ptr, nan_unbox_ptr
  <2> QED
    BY <2>1 DEF KindsKept
<1> QED
  BY <1>1, <1>2, <1>3 DEF IInv, Boxed

\* hll_is_num, hll_is_obj, hll_is_nil, hll_is_cons and hll_is_symb are true of
\* the values made so and of no other, whatever the double or the address.
THEOREM ExactTests == ASSUME Sizes PROVE Spec => []TestsExact
<1>1. IInv => TestsExact
  BY BoxedTests
<1> QED
  BY <1>1, Representation, PTL

\* hll_get_value_kind is wrong about some doubles only, and those are no
\* integers of fewer than 45 bits.
THEOREM KindsAreKept == ASSUME Sizes PROVE Spec => []KindsKept
<1>1. IInv => KindsKept
  BY BoxedKinds
<1> QED
  BY <1>1, Representation, PTL
=============================================================================
