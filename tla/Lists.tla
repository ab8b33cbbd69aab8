------------------------------- MODULE Lists --------------------------------
(***************************************************************************)
(* The lists of module Lisp taken apart, as the compiler takes the list it *)
(* compiles and a built-in the list of its arguments.                      *)
(***************************************************************************)
EXTENDS Lisp

\* The conses of a list, in order: what a loop "for hll_is_cons(obj)" visits.
RECURSIVE Conses(_)
Conses(x) == IF IsPair(x) THEN <<x>> \o Conses(Cdr(x)) ELSE <<>>

\* hll_list_length
Length(x) == Len(Conses(x))

\* What a list of conses ends in.
RECURSIVE EndOf(_)
EndOf(x) == IF IsPair(x) THEN EndOf(Cdr(x)) ELSE x

Elements(x) == [i \in DOMAIN Conses(x) |-> Car(Conses(x)[i])]
=============================================================================
