--------------------------------- MODULE GC ---------------------------------
(***************************************************************************)
(* The mark and sweep collector of hll_gc.c, the constructors of           *)
(* hll_value.c that drive it and the reference counts of hll_bytecode.c.   *)
(*                                                                         *)
(* Everything runs on one thread.  A constructor asks hll_gc_realloc for   *)
(* memory; that may first run a whole collection, which the model takes    *)
(* apart: StartCollection (reset and gray the roots), Blacken (one pass of *)
(* the marking loop), Sweep (one object of all_objs), FinishCollection     *)
(* (compute next_gc, then construct the object that was asked for).  The   *)
(* marking loop reads gray_objs in order and the sweep reads all_objs in   *)
(* order; the model lets both choose any member.                           *)
(*                                                                         *)
(* The interpreter is any client that keeps the collector's contract: what *)
(* it holds only in C variables ("locals") it does not use after an        *)
(* allocation, unless collections are forbidden.  That hll_vm.c keeps the  *)
(* contract is the subject of module VM.                                   *)
(***************************************************************************)
EXTENDS Integers, FiniteSets, Reachability

CONSTANTS           \* and Obj: the addresses of heap objects
    Imm,            \* a value that is no object: nil, t or a number
    Code,           \* hll_bytecode structures
    NoCode,
    GlobalEnv,      \* vm->global_env
    MacroEnv,       \* vm->macro_env
    Kinds,          \* bound: the kinds of object the client allocates and writes
    Classes,        \* bound: the root lists the client uses
    Stress,         \* HLL_STRESS_GC
    Header,         \* sizeof(hll_obj)
    Payload,        \* kind -> size of the object's payload
    Word,           \* 2^(width of size_t)
    HeapSize, MinHeapSize, HeapGrowPercent,     \* hll_config
    MaxForbid,      \* bound on the nesting of hll_push_forbid_gc
    MaxHeld         \* bound on the number of root entries

ObjKind == {"cons", "symb", "bind", "env", "func"}

\* The root lists hll_collect_garbage walks.
RootClass == {"temp_roots", "stack", "call_stack", "env"}

ASSUME ObjAssumption == /\ IsFiniteSet(Obj)
                        /\ Imm \notin Obj
                        /\ GlobalEnv \in Obj
                        /\ MacroEnv \in Obj
                        /\ GlobalEnv # MacroEnv
ASSUME CodeAssumption == NoCode \notin Code
ASSUME ConfigAssumption == /\ Kinds \subseteq ObjKind
                           /\ Classes \subseteq RootClass
                           /\ Stress \in BOOLEAN
                           /\ Word \in Nat \ {0}
                           /\ Header \in Nat
                           /\ Payload \in [ObjKind -> Nat]
                           /\ HeapSize \in 0 .. (Word - 1)
                           /\ MinHeapSize \in 0 .. (Word - 1)
                           /\ HeapGrowPercent \in Nat
                           /\ 2 * (Header + Payload["env"]) <= HeapSize
                           /\ MaxForbid \in Nat
                           /\ MaxHeld \in Nat

Value == Obj \cup {Imm}

\* The values the payload of a kind holds: the structures of hll_value.h.
FieldsOf(k) == CASE k = "cons" -> {"car", "cdr"}
                 [] k = "env"  -> {"vars", "up"}
                 [] k = "func" -> {"param_names", "env"}
                 [] OTHER      -> {}

\* The kinds of object a field or a root list points to.  No expression of
\* the language evaluates to an environment.
Datum == ObjKind \ {"env"}

FieldHolds == [car |-> Datum, cdr |-> Datum, vars |-> {"cons"}, up |-> {"env"},
               param_names |-> {"cons"}, env |-> {"env"}]

ListHolds == [temp_roots |-> ObjKind, stack |-> Datum,
              call_stack |-> {"env", "func"}, env |-> {"env"}]

NoBody == [f \in {} |-> Imm]

VARIABLES
    kind,           \* obj->kind, or "free" when the address is not allocated
    body,           \* the values in obj->as
    code,           \* hll_obj_func.bytecode
    pool,           \* bytecode->constant_pool, as a set
    refcount,       \* bytecode->refcount
    held,           \* root class -> objects on that list
    locals,         \* objects held in C variables only
    forbid,         \* gc->forbid
    bytes_allocated, next_gc,
    pc,             \* "run", "mark", "sweep", or "deleted" when all is over
    dark,           \* objects with is_dark set
    gray_objs,      \* the part of gc->gray_objs not blackened yet
    unswept,        \* the rest of all_objs the sweep has not visited
    request         \* the object being allocated while a collection runs

heap == <<kind, body, code, pool, refcount>>
client == <<held, locals, forbid>>
collector == <<dark, gray_objs, unswept, request>>
bytes == <<bytes_allocated, next_gc>>
vars == <<heap, client, bytes, pc, collector>>

Live == {o \in Obj : kind[o] # "free"}

NoRequest == [kind |-> "none", body |-> NoBody, code |-> NoCode]

-----------------------------------------------------------------------------
(* The reference graph. *)

\* Every object that o's payload points to.
Refs(o) == ({body[o][f] : f \in DOMAIN body[o]} \cap Obj)
           \cup (IF code[o] = NoCode THEN {} ELSE pool[code[o]])

Graph == [o \in Obj |-> Refs(o)]

\* hll_collect_garbage, lines 71 to 84; none are left after hll_delete_vm.
Roots == IF pc = "deleted" THEN {}
         ELSE {GlobalEnv, MacroEnv} \cup UNION {held[c] : c \in RootClass}

H == INSTANCE HeapSpec WITH live <- Live, edges <- Graph, roots <- Roots \cup locals

Rooted == Reach(Graph, Roots)
Accessible == Reach(Graph, Roots \cup locals)

-----------------------------------------------------------------------------
(* Sizes. *)

SizeOf(k) == Header + Payload[k]

\* hll_blacken_value counts the payload of every kind but a cons.
BlackenedSize(k) == Header + (IF k = "cons" THEN 0 ELSE Payload[k])

Plus(n, m) == (n + m) % Word
Minus(n, m) == (n - m) % Word

\* hll_collect_garbage, lines 103 to 107.
NextGc(n) ==
    LET grown == Plus(n, ((n * HeapGrowPercent) % Word) \div 100)
    IN  IF grown < MinHeapSize THEN MinHeapSize ELSE grown

-----------------------------------------------------------------------------
(* Construction: hll_new_symbol, hll_new_cons, hll_new_bind, hll_new_env,  *)
(* hll_new_func.                                                           *)

\* Mutant: hll_new_func forgets hll_bytecode_inc_refcount.
IncRefcountForgotten(c) == refcount

\* hll_bytecode_inc_refcount of a new function's bytecode.
IncRefcount(c) == [refcount EXCEPT ![c] = @ + 1]

\* kept are the C variables the client may still use after the call.
Construct(r, kept) ==
    \E o \in Obj \ Live :
        /\ kind' = [kind EXCEPT ![o] = r.kind]
        /\ body' = [body EXCEPT ![o] = r.body]
        /\ code' = [code EXCEPT ![o] = r.code]
        /\ refcount' = IF r.kind = "func" THEN IncRefcount(r.code) ELSE refcount
        /\ pool' = pool
        /\ locals' = kept \cup {o}

\* What a client may pass to a constructor.  While collections are allowed
\* it has to be rooted: the constructor may run the collector first.
MayUse == IF forbid = 0 THEN Rooted ELSE Accessible

Fits(f, v) == v \in {Imm} \cup {o \in Obj : kind[o] \in FieldHolds[f]}

\* HLL_BC_MAKEFUN shares the bytecode of a function it can use; hll_compile_ast
\* has just made an empty one.
MayRun(use) == {code[f] : f \in {o \in use : kind[o] = "func"}}
               \cup (IF forbid > 0 THEN {c \in Code : refcount[c] = 0} ELSE {})

\* The env of a function is set only after hll_new_func.
RequestsOf(k, use) ==
    [kind : {k},
     body : {b \in [FieldsOf(k) -> use \cup {Imm}] :
               /\ \A f \in FieldsOf(k) : Fits(f, b[f])
               /\ k = "func" => b["env"] = Imm},
     code : IF k = "func" THEN MayRun(use) ELSE {NoCode}]

Requests == LET use == MayUse IN UNION {RequestsOf(k, use) : k \in Kinds}

\* hll_gc_realloc with new_size > 0: lines 111 to 119.
Counted(r) == Plus(bytes_allocated, SizeOf(r.kind))

\* Mutant: hll_gc_realloc does not look at gc->forbid.
CollectsAlways(r) == Stress \/ Counted(r) > next_gc

Collects(r) == forbid = 0 /\ (Stress \/ Counted(r) > next_gc)

\* An allocation that does not collect.
Allocate ==
    /\ pc = "run"
    /\ \E r \in Requests :
        /\ ~Collects(r)
        /\ bytes_allocated' = Counted(r)
        /\ Construct(r, IF forbid = 0 THEN {} ELSE locals)
    /\ UNCHANGED <<held, forbid, next_gc, pc, collector>>

-----------------------------------------------------------------------------
(* The collection: hll_collect_garbage. *)

\* Lines 65 to 84: reset the count, gray the roots that are not dark already.
StartCollection ==
    /\ pc = "run"
    /\ request' \in {r \in Requests : Collects(r)}
    /\ pc' = "mark"
    /\ bytes_allocated' = 0
    /\ dark' = dark \cup Roots
    /\ gray_objs' = Roots \ dark
    /\ unswept' = {}
    /\ locals' = {}
    /\ UNCHANGED <<heap, held, forbid, next_gc>>

\* Mutant: hll_blacken_value forgets the env of a function and the enclosing
\* environment of an environment.
GrayedByWithoutUp(o) ==
    Obj \cap CASE kind[o] = "cons" -> {body[o]["car"], body[o]["cdr"]}
               [] kind[o] = "env"  -> {body[o]["vars"]}
               [] kind[o] = "func" -> {body[o]["param_names"]} \cup pool[code[o]]
               [] OTHER -> {}

\* Mutant: hll_blacken_value forgets the constants of a function's bytecode.
GrayedByWithoutPool(o) ==
    Obj \cap CASE kind[o] = "cons" -> {body[o]["car"], body[o]["cdr"]}
               [] kind[o] = "env"  -> {body[o]["vars"], body[o]["up"]}
               [] kind[o] = "func" -> {body[o]["param_names"], body[o]["env"]}
               [] OTHER -> {}

\* The values hll_blacken_value grays.
GrayedBy(o) ==
    Obj \cap CASE kind[o] = "cons" -> {body[o]["car"], body[o]["cdr"]}
               [] kind[o] = "env"  -> {body[o]["vars"], body[o]["up"]}
               [] kind[o] = "func" -> {body[o]["param_names"], body[o]["env"]}
                                        \cup pool[code[o]]
               [] OTHER -> {}

\* Mutant: hll_gray_value queues an object that is dark already.
BlackenAgain(o) ==
    /\ pc = "mark"
    /\ o \in gray_objs
    /\ bytes_allocated' = Plus(bytes_allocated, BlackenedSize(kind[o]))
    /\ dark' = dark \cup GrayedBy(o)
    /\ gray_objs' = (gray_objs \ {o}) \cup GrayedBy(o)
    /\ UNCHANGED <<heap, client, next_gc, pc, unswept, request>>

\* One round of the loop of line 86; hll_gray_value skips what is dark.
Blacken(o) ==
    /\ pc = "mark"
    /\ o \in gray_objs
    /\ bytes_allocated' = Plus(bytes_allocated, BlackenedSize(kind[o]))
    /\ dark' = dark \cup GrayedBy(o)
    /\ gray_objs' = (gray_objs \ {o}) \cup (GrayedBy(o) \ dark)
    /\ UNCHANGED <<heap, client, next_gc, pc, unswept, request>>

StartSweep ==
    /\ pc = "mark"
    /\ gray_objs = {}
    /\ pc' = "sweep"
    /\ unswept' = Live
    /\ UNCHANGED <<heap, client, bytes, dark, gray_objs, request>>

\* Mutant: hll_free_obj frees a function without hll_bytecode_dec_refcount.
FreeWithoutDec(o) ==
    /\ kind' = [kind EXCEPT ![o] = "free"]
    /\ body' = [body EXCEPT ![o] = NoBody]
    /\ code' = [code EXCEPT ![o] = NoCode]
    /\ UNCHANGED <<refcount, pool>>
    /\ bytes_allocated' = Minus(bytes_allocated, SizeOf(kind[o]))

\* Mutant: the constants go with the first function that is freed.
FreePoolEarly(o) ==
    /\ kind' = [kind EXCEPT ![o] = "free"]
    /\ body' = [body EXCEPT ![o] = NoBody]
    /\ code' = [code EXCEPT ![o] = NoCode]
    /\ IF kind[o] = "func"
       THEN /\ refcount' = [refcount EXCEPT ![code[o]] = @ - 1]
            /\ pool' = [pool EXCEPT ![code[o]] = {}]
       ELSE UNCHANGED <<refcount, pool>>
    /\ bytes_allocated' = Minus(bytes_allocated, SizeOf(kind[o]))

\* hll_free_obj: hll_bytecode_dec_refcount, which frees the constant pool
\* with the last reference, then hll_gc_realloc with new_size 0.
Free(o) ==
    /\ kind' = [kind EXCEPT ![o] = "free"]
    /\ body' = [body EXCEPT ![o] = NoBody]
    /\ code' = [code EXCEPT ![o] = NoCode]
    /\ IF kind[o] = "func"
       THEN /\ refcount' = [refcount EXCEPT ![code[o]] = @ - 1]
            /\ pool' = IF refcount[code[o]] = 1
                       THEN [pool EXCEPT ![code[o]] = {}] ELSE pool
       ELSE UNCHANGED <<refcount, pool>>
    /\ bytes_allocated' = Minus(bytes_allocated, SizeOf(kind[o]))

\* Mutant: a survivor keeps its is_dark flag.
SweepKeepsDark(o) ==
    /\ pc = "sweep"
    /\ o \in unswept
    /\ unswept' = unswept \ {o}
    /\ dark' = dark
    /\ IF o \in dark THEN UNCHANGED <<heap, bytes_allocated>> ELSE Free(o)
    /\ UNCHANGED <<client, next_gc, pc, gray_objs, request>>

\* One round of the loop of line 92.
Sweep(o) ==
    /\ pc = "sweep"
    /\ o \in unswept
    /\ unswept' = unswept \ {o}
    /\ IF o \in dark
       THEN /\ dark' = dark \ {o}
            /\ UNCHANGED <<heap, bytes_allocated>>
       ELSE /\ Free(o)
            /\ dark' = dark
    /\ UNCHANGED <<client, next_gc, pc, gray_objs, request>>

\* Lines 103 to 107, then the rest of the constructor that asked.
FinishCollection ==
    /\ pc = "sweep"
    /\ unswept = {}
    /\ next_gc' = NextGc(bytes_allocated)
    /\ pc' = "run"
    /\ request' = NoRequest
    /\ Construct(request, {})
    /\ UNCHANGED <<held, forbid, bytes_allocated, dark, gray_objs, unswept>>

-----------------------------------------------------------------------------
(* The client between two allocations. *)

\* hll_setcar, hll_setcdr, and the assignments to hll_obj_env.vars
\* (hll_add_variable), hll_obj_func.param_names (compile_function_internal)
\* and hll_obj_func.env (HLL_BC_MAKEFUN).
Store ==
    /\ pc = "run"
    /\ LET use == Accessible IN
       \E o \in use, v \in use \cup {Imm} :
       \E f \in DOMAIN body[o] \ {"up"} :
           /\ kind[o] \in Kinds
           /\ Fits(f, v)
           /\ body' = [body EXCEPT ![o][f] = v]
    /\ UNCHANGED <<kind, code, pool, refcount, client, bytes, pc, collector>>

\* add_num_const, add_symb_const, quote and compile_function push on the
\* constant pool of the one function that is being compiled.
AddConstant ==
    /\ pc = "run"
    /\ forbid > 0
    /\ LET use == Accessible IN
       \E f, v \in use :
           /\ kind[f] = "func"
           /\ refcount[code[f]] = 1
           /\ kind[v] \in Datum
           /\ pool' = [pool EXCEPT ![code[f]] = @ \cup {v}]
    /\ UNCHANGED <<kind, body, code, refcount, client, bytes, pc, collector>>

Entries == {e \in RootClass \X Obj : e[2] \in held[e[1]]}

\* A push on one of the root lists, or an assignment to vm->env.
Hold ==
    /\ pc = "run"
    /\ Cardinality(Entries) < MaxHeld
    /\ \E o \in Accessible, c \in Classes :
        /\ o \notin held[c]
        /\ kind[o] \in ListHolds[c]
        /\ held' = [held EXCEPT ![c] = IF c = "env" THEN {o} ELSE @ \cup {o}]
    /\ UNCHANGED <<heap, locals, forbid, bytes, pc, collector>>

\* The last copy of an object leaves a root list; the popped value may stay
\* in a C variable.
Drop ==
    /\ pc = "run"
    /\ \E c \in Classes : \E o \in held[c] :
        /\ held' = [held EXCEPT ![c] = @ \ {o}]
        /\ locals' \in {locals, locals \cup {o}}
    /\ UNCHANGED <<heap, forbid, bytes, pc, collector>>

PushForbid ==
    /\ pc = "run"
    /\ forbid < MaxForbid
    /\ forbid' = forbid + 1
    /\ UNCHANGED <<heap, held, locals, bytes, pc, collector>>

PopForbid ==
    /\ pc = "run"
    /\ forbid > 0
    /\ forbid' = forbid - 1
    /\ UNCHANGED <<heap, held, locals, bytes, pc, collector>>

\* No object is left, nor the root lists and C variables that held them.
GiveUpHeap ==
    /\ pc' = "deleted"
    /\ kind' = [o \in Obj |-> "free"]
    /\ body' = [o \in Obj |-> NoBody]
    /\ code' = [o \in Obj |-> NoCode]
    /\ refcount' = [c \in Code |->
                       refcount[c] - Cardinality({o \in Live : code[o] = c})]
    /\ pool' = [c \in Code |-> IF refcount'[c] = 0 THEN {} ELSE pool[c]]
    /\ held' = [c \in RootClass |-> {}]
    /\ locals' = {}
    /\ request' = NoRequest
    /\ UNCHANGED <<forbid, bytes, dark, gray_objs, unswept>>

\* hll_delete_gc frees every object there is.
DeleteGc ==
    /\ pc = "run"
    /\ GiveUpHeap

\* hll_realloc exits when calloc returns NULL, after the collection if the
\* allocation has begun with one.
OutOfMemory ==
    /\ Live = Obj
    /\ \/ pc = "run" /\ \E r \in Requests : ~Collects(r)
       \/ pc = "sweep" /\ unswept = {}
    /\ GiveUpHeap

Deleted == pc = "deleted" /\ UNCHANGED vars

-----------------------------------------------------------------------------
\* hll_make_gc and hll_make_vm: gc->next_gc starts at heap_size and two
\* environments are allocated; a stress build collects before the second.
Init ==
    /\ kind = [o \in Obj |->
                 IF o \in {GlobalEnv, MacroEnv} THEN "env" ELSE "free"]
    /\ body = [o \in Obj |-> IF o \in {GlobalEnv, MacroEnv}
                             THEN [f \in FieldsOf("env") |-> Imm] ELSE NoBody]
    /\ code = [o \in Obj |-> NoCode]
    /\ pool = [c \in Code |-> {}]
    /\ refcount = [c \in Code |-> 0]
    /\ held = [c \in RootClass |-> IF c = "env" THEN {GlobalEnv} ELSE {}]
    /\ locals = {}
    /\ forbid = 0
    /\ bytes_allocated = IF Stress THEN BlackenedSize("env") ELSE 2 * SizeOf("env")
    /\ next_gc = IF Stress THEN NextGc(BlackenedSize("env")) ELSE HeapSize
    /\ pc = "run"
    /\ dark = {}
    /\ gray_objs = {}
    /\ unswept = {}
    /\ request = NoRequest

Collect == \/ \E o \in Obj : Blacken(o) \/ Sweep(o)
           \/ StartSweep
           \/ FinishCollection
           \/ OutOfMemory

Client == \/ Allocate
          \/ StartCollection
          \/ Store
          \/ AddConstant
          \/ Hold
          \/ Drop
          \/ PushForbid
          \/ PopForbid

Next == Collect \/ Client \/ DeleteGc \/ Deleted

\* A collection is a loop of the one thread there is: once begun, it runs.
Fairness == WF_vars(Collect)

Spec == Init /\ [][Next]_vars /\ Fairness

-----------------------------------------------------------------------------
(* Properties. *)

Body == UNION {[FieldsOf(k) -> Value] : k \in ObjKind}

AnyRequest ==
    {r \in [kind : Kinds, body : Body, code : Code \cup {NoCode}] :
        /\ DOMAIN r.body = FieldsOf(r.kind)
        /\ r.code \in Code <=> r.kind = "func"}

HeapTypeOK ==
    /\ kind \in [Obj -> ObjKind \cup {"free"}]
    /\ body \in [Obj -> Body]
    /\ \A o \in Obj : DOMAIN body[o] = FieldsOf(kind[o])
    /\ code \in [Obj -> Code \cup {NoCode}]
    /\ \A o \in Obj : code[o] \in Code <=> kind[o] = "func"
    /\ pool \in [Code -> SUBSET Obj]
    /\ refcount \in [Code -> Nat]

TypeOK ==
    /\ HeapTypeOK
    /\ held \in [RootClass -> SUBSET Obj]
    /\ locals \in SUBSET Obj
    /\ forbid \in Nat
    /\ bytes_allocated \in 0 .. (Word - 1)
    /\ next_gc \in 0 .. (Word - 1)
    /\ pc \in {"run", "mark", "sweep", "deleted"}
    /\ dark \in SUBSET Obj
    /\ gray_objs \in SUBSET Obj
    /\ unswept \in SUBSET Obj
    /\ request \in IF pc \in {"mark", "sweep"} THEN AnyRequest ELSE {NoRequest}

(***************************************************************************)
(* No value the interpreter can reach, through a root, a C variable it may *)
(* still use or the constant pool of a reachable function, points to an    *)
(* object the sweep of hll_collect_garbage has freed, in any state of a    *)
(* collection and for every order of marking and sweeping.                 *)
(***************************************************************************)
NoDangling == Accessible \subseteq Live

(***************************************************************************)
(* hll_bytecode.refcount is the number of function objects that share the  *)
(* bytecode, so hll_bytecode_dec_refcount frees ops and constant_pool with *)
(* the last closure and never before, and its assertion cannot fail.       *)
(***************************************************************************)
RefcountMatches ==
    \A c \in Code : refcount[c] = Cardinality({o \in Obj : code[o] = c})

\* What the object being allocated will point to.
Wanted(r) == ({r.body[f] : f \in DOMAIN r.body} \cap Obj)
             \cup (IF r.code = NoCode THEN {} ELSE pool[r.code])

(***************************************************************************)
(* Why the marking loop and the sweep are correct.  While marking, what is *)
(* dark is reachable and a dark object that is no longer queued has only   *)
(* dark references; while sweeping, is_dark tells exactly the reachable    *)
(* objects of the list that is left; in between, is_dark is clear.  The    *)
(* constructor that waits for the collection will point only to what the   *)
(* collection keeps, and bytecode that nobody runs has no constants.       *)
(***************************************************************************)
MarkSweepInv ==
    /\ \A c \in Code : refcount[c] = 0 => pool[c] = {}
    /\ pc \in {"run", "deleted"} => dark = {} /\ gray_objs = {}
    /\ pc \in {"mark", "sweep"} => /\ forbid = 0
                                  /\ locals = {}
                                  /\ Wanted(request) \subseteq Rooted
    /\ pc = "mark" => /\ Roots \subseteq dark
                      /\ dark \subseteq Rooted
                      /\ gray_objs \subseteq dark
                      /\ \A o \in dark \ gray_objs : Refs(o) \subseteq dark
    /\ pc = "sweep" => /\ gray_objs = {}
                       /\ dark = Rooted \cap unswept
                       /\ Live \subseteq Rooted \cup unswept

(***************************************************************************)
(* A collection leaves nothing behind: when hll_collect_garbage returns,   *)
(* every object left on all_objs was reachable from a root.  It would not  *)
(* be if an earlier collection had left an is_dark flag set.               *)
(***************************************************************************)
NoFloatingGarbage == [][pc = "sweep" /\ pc' = "run" => Live = Rooted]_vars

(***************************************************************************)
(* Between hll_push_forbid_gc and the matching hll_pop_forbid_gc no object *)
(* is freed, reachable or not: the reader and the compiler hold everything *)
(* they build in C variables only.                                         *)
(***************************************************************************)
ForbidRespected ==
    [][forbid > 0 /\ pc' # "deleted" => Live \subseteq Live']_vars

(***************************************************************************)
(* The collector keeps the promise of HeapSpec.                            *)
(***************************************************************************)
KeepsPromise == H!Spec

(***************************************************************************)
(* A collection ends, whatever cycles the heap has: hll_gray_value never   *)
(* queues an object twice.  What follows is the object that was asked for, *)
(* or the exit of hll_realloc when there is no memory for it.              *)
(***************************************************************************)
CollectionEnds == pc = "mark" ~> pc \in {"run", "deleted"}
=============================================================================
