------------------------------ MODULE Builtins ------------------------------
(***************************************************************************)
(* hll_builtins.c: C functions the language can call.  A builtin gets the  *)
(* list of its arguments and returns a value, or raises a runtime error.   *)
(* None of them calls back into the interpreter, and collections are       *)
(* forbidden while one runs.  Each operator gives the set of the outcomes  *)
(* the call may have; only that of random has more than one.               *)
(*                                                                         *)
(* Numbers are integers here, and a quotient that is none is kept as the   *)
(* pair that was divided; see module Boxing for what becomes of it.        *)
(***************************************************************************)
EXTENDS Store, FiniteSetsExt

Outcome(m, v, ok) == [m |-> m, value |-> v, ok |-> ok]
Returns(m, v) == {Outcome(m, v, TRUE)}
Raises(m) == {Outcome(m, Nil, FALSE)}

Aborts(m) == Returns(Abort(m), Nil)

IsNum(v) == v[1] = "num"
Truth(condition) == IF condition THEN T ELSE Nil
AllNums(xs) == \A i \in DOMAIN xs : IsNum(xs[i])
Nums(xs) == [i \in DOMAIN xs |-> IF IsNum(xs[i]) THEN xs[i][2] ELSE 0]

\* hll_print, of what the language prints: a line of values.
Prints(m, values) == [m EXCEPT !.printed = Append(@, values)]

builtin_print(m, args) ==
    LET xs == Items(m, args) IN
    Returns(Prints(m, [i \in DOMAIN xs |-> Tree(m, xs[i])]), Nil)

-----------------------------------------------------------------------------
(* Arithmetic. *)

\* A builtin that takes numbers only, least of them at least, and gives Result.
Numeric(m, args, least, Result(_)) ==
    LET xs == Items(m, args) IN
    IF Len(xs) < least \/ ~AllNums(xs) THEN Raises(m)
    ELSE Returns(m, Num(Result(Nums(xs))))

SumOf(nums) == FoldLeft(LAMBDA sum, n : sum + n, 0, nums)
ProductOf(nums) == FoldLeft(LAMBDA product, n : product * n, 1, nums)

builtin_add(m, args) == Numeric(m, args, 0, SumOf)

builtin_mul(m, args) == Numeric(m, args, 0, ProductOf)

builtin_sub(m, args) ==
    Numeric(m, args, 1, LAMBDA ns : IF Len(ns) = 1 THEN -ns[1]
                                    ELSE ns[1] - SumOf(Tail(ns)))

builtin_min(m, args) == Numeric(m, args, 1, LAMBDA ns : Min(Range(ns)))
builtin_max(m, args) == Numeric(m, args, 1, LAMBDA ns : Max(Range(ns)))

AbsOf(n) == IF n < 0 THEN -n ELSE n

\* What division and fmod of C give: the quotient is cut towards zero.
Quotient(x, y) == LET q == AbsOf(x) \div AbsOf(y) IN IF (x < 0) = (y < 0) THEN q ELSE -q
Remainder(x, y) == x - y * Quotient(x, y)

\* The quotient, or the pair that stands for a double that is no integer; such a
\* pair ends the chain of what is modelled.
Divide(x, y) == IF Remainder(x, y) = 0 THEN Quotient(x, y) ELSE <<x, y>>
QuotientOf(nums) == FoldLeft(Divide, nums[1], Tail(nums))

builtin_div(m, args) ==
    LET xs == Items(m, args) IN
    IF xs = <<>> \/ ~AllNums(xs) \/ 0 \in Range(Tail(Nums(xs))) THEN Raises(m)
    ELSE Returns(m, Num(QuotientOf(Nums(xs))))

NotANumber == Num("nan")

builtin_rem(m, args) ==
    LET xs == Items(m, args) IN
    IF Len(xs) # 2 \/ ~AllNums(xs) THEN Raises(m)
    ELSE Returns(m, IF xs[2] = Num(0) THEN NotANumber
                    ELSE Num(Remainder(xs[1][2], xs[2][2])))

\* One or two numbers: "from", 0 when there is one only, and "to".
BoundsOf(xs) == IF Len(xs) = 1 THEN [from |-> 0, to |-> xs[1][2]]
                ELSE [from |-> xs[1][2], to |-> xs[2][2]]

\* Any number of the interval: the state of the generator is not modelled.  An
\* empty interval is a division by zero, or an assertion.
builtin_random(m, args) ==
    LET xs == Items(m, args)
        bounds == BoundsOf(xs)
    IN  IF Len(xs) > 2 \/ ~AllNums(xs) THEN Raises(m)
        ELSE IF xs = <<>> THEN Returns(m, Num(<<1, 2>>))
        ELSE IF bounds.from < 0 \/ bounds.from >= bounds.to THEN Aborts(m)
        ELSE UNION {Returns(m, Num(n)) : n \in bounds.from .. (bounds.to - 1)}

-----------------------------------------------------------------------------
(* Comparisons.  They stop at the first argument that settles the answer,  *)
(* so a later one need not be a number.                                    *)

\* The answer of a comparison of xs[1] and of each later argument, where
\* Fails(i) says that argument i settles it.
Scan(m, xs, Fails(_), whenAllHold) ==
    LET settle == {i \in 2 .. Len(xs) : ~IsNum(xs[i]) \/ Fails(i)}
    IN  IF xs = <<>> \/ ~IsNum(xs[1]) THEN Raises(m)
        ELSE IF settle = {} THEN Returns(m, Truth(whenAllHold))
        ELSE IF IsNum(xs[Min(settle)]) THEN Returns(m, Nil)
        ELSE Raises(m)

\* Each number with the next.
Chain(m, args, Holds(_, _)) ==
    LET xs == Items(m, args)
        ns == Nums(xs)
    IN  Scan(m, xs, LAMBDA i : ~Holds(ns[i - 1], ns[i]), TRUE)

\* Each number with each later one.
Pairwise(m, args, Holds(_, _)) ==
    LET xs == Items(m, args)
        ns == Nums(xs)
    IN  Scan(m, xs, LAMBDA i : ~Holds(ns[1], ns[i]),
             \A i, j \in DOMAIN ns : i < j => Holds(ns[i], ns[j]))

builtin_num_lt(m, args) == Chain(m, args, LAMBDA a, b : a < b)
builtin_num_le(m, args) == Chain(m, args, LAMBDA a, b : a <= b)
builtin_num_gt(m, args) == Chain(m, args, LAMBDA a, b : a > b)
builtin_num_ge(m, args) == Chain(m, args, LAMBDA a, b : a >= b)
builtin_num_eq(m, args) == Pairwise(m, args, LAMBDA a, b : a = b)
builtin_num_ne(m, args) == Pairwise(m, args, LAMBDA a, b : a # b)

\* No pair of identical values: the name says the contrary.
builtin_eq(m, args) == Returns(m, Truth(IsInjective(Items(m, args))))

-----------------------------------------------------------------------------
(* Predicates of one argument. *)

Predicate(m, args, Holds(_)) ==
    LET xs == Items(m, args) IN
    IF Len(xs) # 1 THEN Raises(m) ELSE Returns(m, Truth(Holds(xs[1])))

NumberPredicate(m, args, Holds(_)) ==
    LET xs == Items(m, args) IN
    IF Len(xs) # 1 \/ ~AllNums(xs) THEN Raises(m)
    ELSE Returns(m, Truth(Holds(xs[1][2])))

builtin_listp(m, args) == Predicate(m, args, LAMBDA v : IsCons(m, v) \/ v = Nil)
builtin_null(m, args) == Predicate(m, args, LAMBDA v : v = Nil)
builtin_numberp(m, args) == Predicate(m, args, IsNum)
builtin_minusp(m, args) == NumberPredicate(m, args, LAMBDA n : n < 0)
builtin_plusp(m, args) == NumberPredicate(m, args, LAMBDA n : n > 0)
builtin_zerop(m, args) == NumberPredicate(m, args, LAMBDA n : n = 0)
builtin_even(m, args) == NumberPredicate(m, args, LAMBDA n : n % 2 = 0)
builtin_odd(m, args) == NumberPredicate(m, args, LAMBDA n : n % 2 # 0)

builtin_abs(m, args) ==
    IF Len(Items(m, args)) # 1 THEN Raises(m)
    ELSE Numeric(m, args, 1, LAMBDA ns : AbsOf(ns[1]))

-----------------------------------------------------------------------------
(* Lists. *)

\* The cdrs of a list, from the list itself to its end.
Cdrs(m, v) ==
    LET cells == Cells(m, v)
    IN  Append(cells, IF cells = <<>> THEN v ELSE At(m, Last(cells)).cdr)

\* hll_car
CarOf(m, v) == IF IsCons(m, v) THEN At(m, v).car ELSE Nil

\* What nth and nthcdr come to, or Nil past the end.
Walk(m, args, Result(_)) ==
    LET xs == Items(m, args) IN
    IF Len(xs) # 2 \/ ~IsNum(xs[1]) \/ Nums(xs)[1] < 0 THEN Raises(m)
    ELSE LET cdrs == Cdrs(m, xs[2])
             n == xs[1][2] + 1
         IN  Returns(m, IF n \in DOMAIN cdrs THEN Result(cdrs[n]) ELSE Nil)

builtin_nthcdr(m, args) == Walk(m, args, LAMBDA v : v)
builtin_nth(m, args) == Walk(m, args, LAMBDA v : CarOf(m, v))

builtin_length(m, args) == Returns(m, Num(Len(Cells(m, CarOf(m, args)))))

\* The conses of the list are linked the other way round, in place.
builtin_reverse(m, args) ==
    LET xs == Items(m, args) IN
    IF Len(xs) # 1 THEN Raises(m)
    ELSE IF Last(Cdrs(m, xs[1])) # Nil THEN Aborts(m)
    ELSE LET cells == Cells(m, xs[1])
             n == Len(cells)
             Before(a) == CHOOSE i \in 1 .. n : cells[i] = Ref(a)
             Linked == [a \in DOMAIN m.heap |->
                          IF Ref(a) \notin Range(cells) THEN m.heap[a]
                          ELSE [m.heap[a] EXCEPT !.cdr =
                                  IF Before(a) = 1 THEN Nil ELSE cells[Before(a) - 1]]]
         IN  Returns([m EXCEPT !.heap = Linked], IF n = 0 THEN Nil ELSE cells[n])

\* Where append goes on from: the last cons of a list, or what it ends in.
AppendEnd(m, v) ==
    LET cdrs == Cdrs(m, v) IN
    IF Len(cdrs) > 1 /\ Last(cdrs) = Nil THEN cdrs[Len(cdrs) - 1] ELSE Last(cdrs)

\* One argument more, in its slot of the argument list, is linked to the end of
\* those before; none is copied.  When they end in an atom the rest of the
\* argument list takes their place.
AppendSlot(joined) ==
    LET slot == joined.slot
        end == AppendEnd(joined.m, joined.tail)
        linked == IF IsCons(joined.m, end)
                  THEN [joined EXCEPT !.m.heap[end[2]].cdr = CarOf(joined.m, slot),
                                      !.tail = end]
                  ELSE [joined EXCEPT !.list = slot, !.tail = slot]
    IN  IF ~IsCons(joined.m, slot) THEN joined
        ELSE [linked EXCEPT !.slot = At(linked.m, slot).cdr]

\* The arguments before the first cons are skipped.  The slots that follow are
\* among the objects that the arguments refer to.
builtin_append(m, args) ==
    LET cells == Cells(m, args)
        lists == {i \in DOMAIN cells : IsCons(m, CarOf(m, cells[i]))}
        first == cells[Min(lists)]
        slots == Cardinality(Reached(m, Addresses({args})))
        joined[n \in 0 .. slots] ==
            IF n = 0 THEN [m |-> m, list |-> CarOf(m, first), tail |-> CarOf(m, first),
                           slot |-> At(m, first).cdr]
            ELSE AppendSlot(joined[n - 1])
    IN  IF lists = {} THEN Returns(m, Nil)
        ELSE Returns(joined[slots].m, joined[slots].list)

\* Negative bounds are converted to unsigned integers, which C leaves undefined;
\* a bound that is no integer is not modelled.
builtin_range(m, args) ==
    LET xs == Items(m, args)
        bounds == BoundsOf(xs)
        count == bounds.to - bounds.from
        Cell(a) == ConsObj(Num(bounds.from + a - m.next),
                           IF a = m.next + count - 1 THEN Nil ELSE Ref(a + 1))
    IN  IF Len(xs) \notin 1 .. 2 \/ ~AllNums(xs) THEN Raises(m)
        ELSE IF ~(bounds.from \in Nat /\ bounds.to \in Nat) THEN Aborts(m)
        ELSE IF count <= 0 THEN Returns(m, Nil)
        ELSE Returns([m EXCEPT !.heap = With(@, [a \in m.next .. (m.next + count - 1) |-> Cell(a)]),
                               !.next = @ + count],
                     Ref(m.next))

-----------------------------------------------------------------------------
(* The others. *)

\* The counter is static: it belongs to the process.
builtin_gensym(m, args) ==
    Returns([Place(m, SymbObj("__gsym" \o ToString(m.gensyms))) EXCEPT !.gensyms = @ + 1],
            Fresh(m))

builtin_clear(m, args) == Returns(m, Nil)

\* hll_unwrap_num asserts what it is given.
builtin_sleep(m, args) ==
    IF IsNum(CarOf(m, args)) THEN Returns(m, Nil) ELSE Aborts(m)

\* No function is bound but those of add_builtins.
Builtin(m, name, args) ==
    CASE name = "print"     -> builtin_print(m, args)
      [] name = "+"         -> builtin_add(m, args)
      [] name = "-"         -> builtin_sub(m, args)
      [] name = "*"         -> builtin_mul(m, args)
      [] name = "/"         -> builtin_div(m, args)
      [] name = "<"         -> builtin_num_lt(m, args)
      [] name = "<="        -> builtin_num_le(m, args)
      [] name = ">"         -> builtin_num_gt(m, args)
      [] name = ">="        -> builtin_num_ge(m, args)
      [] name = "="         -> builtin_num_eq(m, args)
      [] name = "/="        -> builtin_num_ne(m, args)
      [] name = "rem"       -> builtin_rem(m, args)
      [] name = "random"    -> builtin_random(m, args)
      [] name = "max"       -> builtin_max(m, args)
      [] name = "min"       -> builtin_min(m, args)
      [] name = "list?"     -> builtin_listp(m, args)
      [] name = "null?"     -> builtin_null(m, args)
      [] name = "negative?" -> builtin_minusp(m, args)
      [] name = "positive?" -> builtin_plusp(m, args)
      [] name = "zero?"     -> builtin_zerop(m, args)
      [] name = "even?"     -> builtin_even(m, args)
      [] name = "odd?"      -> builtin_odd(m, args)
      [] name = "number?"   -> builtin_numberp(m, args)
      [] name = "abs"       -> builtin_abs(m, args)
      [] name = "reverse!"  -> builtin_reverse(m, args)
      [] name = "append"    -> builtin_append(m, args)
      [] name = "nthcdr"    -> builtin_nthcdr(m, args)
      [] name = "nth"       -> builtin_nth(m, args)
      [] name = "clear"     -> builtin_clear(m, args)
      [] name = "sleep"     -> builtin_sleep(m, args)
      [] name = "length"    -> builtin_length(m, args)
      [] name = "range"     -> builtin_range(m, args)
      [] name = "gensym"    -> builtin_gensym(m, args)
      [] name = "eq?"       -> builtin_eq(m, args)
      [] OTHER -> {}
=============================================================================
