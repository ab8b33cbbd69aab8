------------------------------- MODULE Boxing -------------------------------
(***************************************************************************)
(* hll_value.c: a value is a 64-bit word.  A double is stored as it is; a  *)
(* singleton or a pointer is hidden in a NaN that no arithmetic makes.     *)
(*                                                                         *)
(* A word is taken apart at the bits of HLL_QNAN: the sign, the thirteen   *)
(* bits below it ("high"), all set in HLL_QNAN, and the other fifty        *)
(* ("low").  The constants are the sizes of the parts, so that TLC can     *)
(* have words of a few bits and the proofs words of any size.              *)
(***************************************************************************)
EXTENDS Integers

CONSTANTS
    HighMax,        \* 2^13 - 1
    LowSize,        \* 2^50
    KindSize        \* 2^8: hll_value_kind is an uint8_t

\* hll_value_kind
NUM == 0
NIL == 1
TRUE_ == 2
CONS == 3
ObjKinds == 3 .. 7

Kinds == 0 .. 7

\* What the sizes have to be; those of the code are.
Sizes == /\ HighMax \in Nat \ {0}
         /\ LowSize \in Nat
         /\ KindSize \in Nat
         /\ 7 < KindSize
         /\ KindSize <= LowSize

Word == [sign : 0 .. 1, high : 0 .. HighMax, low : 0 .. (LowSize - 1)]
Pointer == 0 .. (LowSize - 1)

\* No object at this address.
Free == 8

VARIABLES
    heap,           \* the kind of the object at each address
    value,          \* some value of the interpreter
    meant           \* the kind it was made with

vars == <<heap, value, meant>>

-----------------------------------------------------------------------------
hll_is_num(word) == word.high # HighMax
hll_is_obj(word) == word.sign = 1 /\ word.high = HighMax

nan_box_singleton(kind) == [sign |-> 0, high |-> HighMax, low |-> kind]
nan_box_ptr(ptr) == [sign |-> 1, high |-> HighMax, low |-> ptr]
nan_unbox_ptr(word) == word.low

\* The word without the bits of HLL_QNAN, cut to the size of a kind.
nan_unbox_singleton(word) == word.low % KindSize

hll_nil == nan_box_singleton(NIL)
hll_true == nan_box_singleton(TRUE_)

hll_get_value_kind(word) ==
    IF hll_is_obj(word) THEN heap[nan_unbox_ptr(word)] ELSE nan_unbox_singleton(word)

hll_is_nil(word) == word = hll_nil
hll_is_cons(word) == hll_is_obj(word) /\ heap[nan_unbox_ptr(word)] = CONS
hll_is_symb(word) == hll_is_obj(word) /\ heap[nan_unbox_ptr(word)] = 4

\* What the switch of hll_print_value comes to.
Shown(word) == IF hll_get_value_kind(word) \in Kinds THEN hll_get_value_kind(word)
               ELSE "HLL_UNREACHABLE"

-----------------------------------------------------------------------------
Init == /\ heap = [p \in Pointer |-> Free]
        /\ value = hll_nil
        /\ meant = NIL

\* hll_num of a double.  A NaN that arithmetic makes has the first bit of its
\* mantissa set and the second clear, so that high is HighMax - 1.
MakeNum ==
    /\ \E double \in Word : double.high # HighMax /\ value' = double
    /\ meant' = NUM
    /\ UNCHANGED heap

MakeNil == value' = hll_nil /\ meant' = NIL /\ UNCHANGED heap
MakeTrue == value' = hll_true /\ meant' = TRUE_ /\ UNCHANGED heap

\* One of the constructors of objects, wherever its memory is.
MakeObj ==
    \E ptr \in Pointer, kind \in ObjKinds :
       /\ heap[ptr] = Free
       /\ heap' = [heap EXCEPT ![ptr] = kind]
       /\ value' = nan_box_ptr(ptr)
       /\ meant' = kind

Next == MakeNum \/ MakeNil \/ MakeTrue \/ MakeObj

Spec == Init /\ [][Next]_vars

-----------------------------------------------------------------------------
(* Properties. *)

(***************************************************************************)
(* readme.md:13 has among the data types "Numbers (internally represented  *)
(* as IEEE754 doubles)".  So every double is a number to                   *)
(* hll_get_value_kind, by which builtins tell numbers and hll_print_value  *)
(* chooses what to print.                                                  *)
(***************************************************************************)
DoublesAreNumbers == meant = NUM => Shown(value) = NUM

(***************************************************************************)
(* hll_is_num, hll_is_obj, hll_is_nil, hll_is_cons and hll_is_symb are     *)
(* true of the values that were made so, and of no other: neither a double *)
(* nor the address of an object is taken for something else by them.       *)
(***************************************************************************)
TestsExact ==
    /\ hll_is_num(value) <=> meant = NUM
    /\ hll_is_obj(value) <=> meant \in ObjKinds
    /\ hll_is_nil(value) <=> meant = NIL
    /\ hll_is_cons(value) <=> meant = CONS
    /\ hll_is_symb(value) <=> meant = 4

(***************************************************************************)
(* hll_get_value_kind gives the kind a value was made with, unless it is a *)
(* double whose low byte is not zero.  Integers of fewer than 45 bits end  *)
(* in a zero byte, which is why the other modules may take the kind of a   *)
(* number for granted.                                                     *)
(***************************************************************************)
KindsKept ==
    hll_get_value_kind(value) # meant => meant = NUM /\ value.low % KindSize # 0
=============================================================================
