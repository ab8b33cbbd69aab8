-------------------------------- MODULE MCGC --------------------------------
(* Instances of GC for TLC. *)
EXTENDS GC, TLC, FiniteSetsExt

CONSTANTS ge, me, o1, o2, o3

\* In units of eight bytes; a symbol of up to seven characters.
MCPayload == [cons |-> 2, symb |-> 3, bind |-> 1, env |-> 2, func |-> 3]

\* A stress build collects whatever the count says: leave it out.
MCNoSize == [k \in ObjKind |-> 0]

\* The addresses that are free when the interpreter starts.
Fresh == Obj \ {GlobalEnv, MacroEnv}

Symmetry == Permutations(Fresh)

(***************************************************************************)
(* hll_gc.h:14 says of bytes_allocated: "Count all allocated bytes to know *)
(* when to trigger garbage collection."  While the interpreter runs it     *)
(* would then be the size of all the objects on all_objs.                  *)
(***************************************************************************)
CountsAllBytes ==
    pc = "run" => bytes_allocated = MapThenSumSet(LAMBDA o : SizeOf(kind[o]), Live)
=============================================================================
