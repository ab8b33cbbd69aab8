---------------------------- MODULE Reachability ----------------------------
(* Reachability in the graph of references between heap objects. *)
CONSTANT Obj

(***************************************************************************)
(* The least set that contains R and is closed under the graph e.  It is   *)
(* the intersection of the closed sets above R, rather than the limit of a *)
(* recursion, so that it can be reasoned about without induction.          *)
(***************************************************************************)
ClosedAbove(e, R) ==
    {S \in SUBSET Obj : R \subseteq S /\ \A o \in S : e[o] \subseteq S}

Reach(e, R) ==
    LET closed == ClosedAbove(e, R)
    IN  {o \in Obj : \A S \in closed : o \in S}
=============================================================================
