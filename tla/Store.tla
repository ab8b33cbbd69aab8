------------------------------- MODULE Store --------------------------------
(***************************************************************************)
(* The part of hll_vm that outlives an instruction: objects, roots,        *)
(* environments.  A machine is a record whose fields are those of hll_vm   *)
(* and hll_gc; each operator takes one and returns one, or the set of      *)
(* those the operation may end in.                                         *)
(*                                                                         *)
(* Module GC shows that a collection frees exactly what is not reachable   *)
(* from the roots, and that it may happen at any allocation while it is    *)
(* not forbidden.  That is all this module keeps of it: an allocation      *)
(* either collects first, as one step, or does not.  An address is never   *)
(* used twice, so a reference to a freed object is seen to dangle.         *)
(***************************************************************************)
EXTENDS Lisp, FiniteSets, Functions, TLC

\* vm->global_env and vm->macro_env, the first objects hll_make_vm allocates.
GlobalEnv == <<"obj", 1>>
MacroEnv == <<"obj", 2>>

(* Values: Nil, T and Num of module Lisp, or a reference to an object. *)
Ref(a) == <<"obj", a>>
IsRef(v) == v[1] = "obj"

(* Objects: hll_obj. *)
ConsObj(a, d) == [kind |-> "cons", car |-> a, cdr |-> d]
SymbObj(n) == [kind |-> "symb", name |-> n]
BindObj(f) == [kind |-> "bind", bind |-> f]
EnvObj(vars, up) == [kind |-> "env", vars |-> vars, up |-> up]
FuncObj(params, code) ==
    [kind |-> "func", param_names |-> params, bytecode |-> code, env |-> Nil]

At(m, v) == m.heap[v[2]]

\* hll_get_value_kind
KindOf(m, v) == IF IsRef(v) THEN At(m, v).kind ELSE v[1]

IsCons(m, v) == KindOf(m, v) = "cons"

\* What is found from each object on, if from is what is found a step further.
Longer(m, kind, field, from) ==
    [a \in DOMAIN m.heap |->
        IF m.heap[a].kind # kind THEN <<>>
        ELSE LET w == m.heap[a][field]
             IN  <<Ref(a)>> \o (IF IsRef(w) THEN from[w[2]] ELSE <<>>)]

\* The objects of a kind from v on, each referred to by the field of the one
\* before.  There are fewer than m.next objects in the heap.
Along(m, v, kind, field) ==
    LET from[n \in 0 .. m.next] ==
            IF n = 0 THEN [a \in DOMAIN m.heap |-> <<>>]
            ELSE Longer(m, kind, field, from[n - 1])
    IN  IF IsRef(v) THEN from[m.next][v[2]] ELSE <<>>

\* The conses of the list v, as hll_is_cons loops visit them.
Cells(m, v) == Along(m, v, "cons", "cdr")

Items(m, v) == [i \in DOMAIN Cells(m, v) |-> At(m, Cells(m, v)[i]).car]

\* hll_print_value: what a value looks like.
Tree(m, v) ==
    LET tree[a \in DOMAIN m.heap] ==
            LET o == m.heap[a]
                Of(w) == IF IsRef(w) THEN tree[w[2]] ELSE w
            IN  CASE o.kind = "cons" -> Pair(Of(o.car), Of(o.cdr))
                  [] o.kind = "symb" -> Sym(o.name)
                  [] OTHER -> Opaque(o.kind)
    IN  IF IsRef(v) THEN tree[v[2]] ELSE v

-----------------------------------------------------------------------------
(* Roots and allocation. *)

Addresses(values) == {v[2] : v \in {w \in values : IsRef(w)}}

\* The values in an object: see GrayedBy in module GC.
References(m, o) ==
    CASE o.kind = "cons" -> {o.car, o.cdr}
      [] o.kind = "env"  -> {o.vars, o.up}
      [] o.kind = "func" -> {o.param_names, o.env}
                            \cup Range(m.codes[o.bytecode].constant_pool)
      [] OTHER -> {}

Pointees(m, a) ==
    IF a \in DOMAIN m.heap THEN Addresses(References(m, m.heap[a])) ELSE {}

\* hll_collect_garbage, lines 71 to 84.
RootValues(m) == {GlobalEnv, MacroEnv, m.env}
                 \cup Range(m.temp_roots)
                 \cup Range(m.stack)
                 \cup {f.env : f \in Range(m.call_stack)}
                 \cup {f.func : f \in Range(m.call_stack)}

Roots(m) == Addresses(RootValues(m))

\* What the objects of a set refer to is marked, too.
Blackened(m, marked) == marked \cup UNION {Pointees(m, a) : a \in marked}

\* Each set of marks with what is marked in the end, if from has it for a
\* generation less.
Marking(m, sets, from) ==
    [marked \in sets |-> IF Blackened(m, marked) = marked THEN marked
                         ELSE from[Blackened(m, marked)]]

\* The objects that can be reached from some, freed ones included: the loop
\* over gc->gray_objs, a generation of gray objects at a time.  There are
\* fewer generations than objects.
Reached(m, objects) ==
    LET sets == SUBSET (objects \cup UNION {Pointees(m, a) : a \in DOMAIN m.heap})
        marking[n \in 0 .. m.next] ==
            IF n = 0 THEN [marked \in sets |-> marked]
            ELSE Marking(m, sets, marking[n - 1])
    IN  marking[m.next][objects]

Rooted(m) == Reached(m, Roots(m))

Collected(m) == [m EXCEPT !.heap = Restrict(@, Rooted(m) \cap DOMAIN m.heap)]

\* The address the next object gets.
Fresh(m) == Ref(m.next)

\* A heap with more objects.
With(heap, more) == [a \in DOMAIN heap \cup DOMAIN more |->
                        IF a \in DOMAIN more THEN more[a] ELSE heap[a]]

Place(m, object) ==
    [m EXCEPT !.heap = With(@, [a \in {m.next} |-> object]), !.next = @ + 1]

\* hll_gc_alloc of a new object: it may collect first.
New(m, object) ==
    {Place(m, object)}
    \cup (IF m.forbid = 0 THEN {Place(Collected(m), object)} ELSE {})

PushTemp(m, v) == [m EXCEPT !.temp_roots = Append(@, v)]
PopTemp(m) == [m EXCEPT !.temp_roots = Front(@)]

Forbid(m) == [m EXCEPT !.forbid = @ + 1]
Allow(m) == [m EXCEPT !.forbid = @ - 1]

\* An assertion of the code fails, or what C leaves undefined happens; nothing
\* is modelled past it.
Abort(m) == [m EXCEPT !.aborted = TRUE, !.running = FALSE]

-----------------------------------------------------------------------------
(* Variables. *)

\* The new (name . value) slot goes to the front of the environment.
hll_add_variable(m, env, name, value) ==
    LET slot == Fresh(m)
        Linked(m1) ==
            {PopTemp([m2 EXCEPT !.heap[env[2]].vars = Fresh(m1)]) :
                m2 \in New(m1, ConsObj(slot, At(m1, env).vars))}
    IN  IF KindOf(m, name) # "symb" \/ KindOf(m, env) # "env" THEN {Abort(m)}
        ELSE UNION {Linked(PushTemp(m1, slot)) : m1 \in New(m, ConsObj(name, value))}

\* What a slot of an environment is asserted to be.
IsVariable(m, slot) == IsCons(m, slot) /\ KindOf(m, At(m, slot).car) = "symb"

\* The slot of the variable, or Nil, or the slot the search ends at because it
\* is no variable.  The code compares 32-bit hashes; no two names here have the
\* same one.
hll_find_var(m, env, name) ==
    LET Names(slot) == IsVariable(m, slot) => At(m, At(m, slot).car).name = name
        Home(e) == \E slot \in Range(Items(m, At(m, e).vars)) : Names(slot)
        envs == Along(m, env, "env", "up")
        home == SelectInSeq(envs, Home)
        slots == Items(m, At(m, envs[home]).vars)
    IN  IF home = 0 THEN Nil ELSE slots[SelectInSeq(slots, Names)]
=============================================================================
