-------------------------------- MODULE Lisp --------------------------------
(***************************************************************************)
(* S-expressions: what the reader hands to the compiler and what           *)
(* hll_print_value shows.  An expression is a tree; the names of symbols   *)
(* are strings that nothing takes apart.                                   *)
(***************************************************************************)
EXTENDS Integers, Sequences, SequencesExt

Nil == <<"nil">>
T == <<"true">>
Num(n) == <<"num", n>>
Sym(name) == <<"symb", name>>
Pair(a, d) == <<"cons", a, d>>

\* What hll_print_value shows of a function, and of any other object.
Opaque(kind) == <<kind>>

Kind(x) == x[1]
IsPair(x) == x[1] = "cons"
IsSym(x) == x[1] = "symb"
Car(x) == x[2]
Cdr(x) == x[3]

DottedList(xs, end) == FoldRight(Pair, xs, end)
List(xs) == DottedList(xs, Nil)
Quote(x) == List(<<Sym("quote"), x>>)
=============================================================================
