------------------------------ MODULE HeapSpec ------------------------------
(***************************************************************************)
(* What the garbage collector of hololisp promises to the rest of the      *)
(* interpreter, without saying how it collects: an object the interpreter  *)
(* can still get at is never taken away, and nothing but an object it can  *)
(* no longer get at is.                                                    *)
(*                                                                         *)
(* The heap is a graph. live is the set of allocated objects, edges[o] the *)
(* objects that o's payload points to, roots the objects the interpreter   *)
(* holds directly.                                                         *)
(***************************************************************************)
EXTENDS Reachability

VARIABLES live, edges, roots

vars == <<live, edges, roots>>

Access == Reach(edges, roots)

TypeOK == /\ live \in SUBSET Obj
          /\ edges \in [Obj -> SUBSET Obj]
          /\ roots \in SUBSET Obj

(***************************************************************************)
(* Safety: no accessible object has been reclaimed.                        *)
(***************************************************************************)
NoDangling == Access \subseteq live

-----------------------------------------------------------------------------
Init == /\ edges \in [Obj -> SUBSET Obj]
        /\ roots \in SUBSET Obj
        /\ live \in SUBSET Obj
        /\ NoDangling

\* The interpreter rearranges roots and payloads out of what it can access.
Mutate == /\ edges' \in [Obj -> SUBSET Obj]
          /\ roots' \in SUBSET Access
          /\ \A o \in Access : edges'[o] \subseteq Access
          /\ live' = live

\* A new object points to accessible objects only.
Allocate(o) == /\ o \notin live
               /\ live' = live \cup {o}
               /\ edges' \in [Obj -> SUBSET Obj]
               /\ \A p \in Access : edges'[p] = edges[p]
               /\ edges'[o] \subseteq Access
               /\ roots' \in SUBSET (Access \cup {o})

\* The collector takes back an object nobody can access.
Reclaim(o) == /\ o \in live \ Access
              /\ live' = live \ {o}
              /\ edges' \in [Obj -> SUBSET Obj]
              /\ \A p \in Access : edges'[p] = edges[p]
              /\ roots' = roots

\* The interpreter gives up the whole heap.
Shutdown == /\ live' = {}
            /\ roots' = {}
            /\ edges' \in [Obj -> SUBSET Obj]

Next == \/ Mutate
        \/ \E o \in Obj : Allocate(o) \/ Reclaim(o)
        \/ Shutdown

Spec == Init /\ [][Next]_vars
=============================================================================
