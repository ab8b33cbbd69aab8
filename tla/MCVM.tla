-------------------------------- MODULE MCVM --------------------------------
(***************************************************************************)
(* Programs of tests/test_lisp.sh, with what it expects of them, some      *)
(* more, and small ones that are enumerated, with what module Evaluator    *)
(* makes of them.  The comment over each shows the source text.            *)
(***************************************************************************)
EXTENDS Main

Meaning == INSTANCE Evaluator

\* A script whose programs are the lines of a REPL; input is no terminal.
\* What the lines print is what the programs give.
AtRepl(s) ==
    LET ended == SelectSeq(s.outputs, LAMBDA o : o # Failed)
    IN  s @@ [args |-> <<>>, tty |-> FALSE, file |-> "missing",
              printed |-> [i \in DOMAIN ended |-> <<ended[i][2]>>],
              status |-> IF s.outputs # <<>> /\ Last(s.outputs) = Failed
                         THEN "EXIT_FAILURE" ELSE "EXIT_SUCCESS"]

\* tests/test_lisp.sh:187
\*   (define x 2) (define f (lambda () x)) (set! x 3) (f)
Closure == [
    bindings |-> <<>>,
    frames |-> 2,
    programs |-> <<
        List(<<List(<<Sym("define"), Sym("x"), Num(2)>>),
          List(<<Sym("define"), Sym("f"), List(<<Sym("lambda"), Nil,
          Sym("x")>>)>>), List(<<Sym("set!"), Sym("x"), Num(3)>>),
          List(<<Sym("f")>>)>>)>>,
    outputs |-> <<Value(Num(3))>>]

\* tests/test_lisp.sh:185
\*   (define (call f) ((lambda (var) (f)) 5)) ((lambda (var) (call (lambda
\*   () var))) 3)
ClosureArgument == [
    bindings |-> <<>>,
    frames |-> 5,
    programs |-> <<
        List(<<List(<<Sym("define"), List(<<Sym("call"), Sym("f")>>),
          List(<<List(<<Sym("lambda"), List(<<Sym("var")>>),
          List(<<Sym("f")>>)>>), Num(5)>>)>>), List(<<List(<<Sym("lambda"),
          List(<<Sym("var")>>), List(<<Sym("call"), List(<<Sym("lambda"),
          Nil, Sym("var")>>)>>)>>), Num(3)>>)>>)>>,
    outputs |-> <<Value(Num(3))>>]

\* tests/test_lisp.sh:356
\*   (define (f) (define fn (lambda () x)) (define x 10) fn) ((f))
ClosureScope == [
    bindings |-> <<>>,
    frames |-> 2,
    programs |-> <<
        List(<<List(<<Sym("define"), List(<<Sym("f")>>),
          List(<<Sym("define"), Sym("fn"), List(<<Sym("lambda"), Nil,
          Sym("x")>>)>>), List(<<Sym("define"), Sym("x"), Num(10)>>),
          Sym("fn")>>), List(<<List(<<Sym("f")>>)>>)>>)>>,
    outputs |-> <<Value(Num(10))>>]

\* tests/test_lisp.sh:343, :344
\*   (define (f x . y) (cons x y)) (f 3 5 7)
\*   (f 3)
RestArguments == [
    bindings |-> <<>>,
    frames |-> 2,
    programs |-> <<
        List(<<List(<<Sym("define"), DottedList(<<Sym("f"), Sym("x")>>,
          Sym("y")), List(<<Sym("cons"), Sym("x"), Sym("y")>>)>>),
          List(<<Sym("f"), Num(3), Num(5), Num(7)>>)>>),
        List(<<List(<<Sym("f"), Num(3)>>)>>)>>,
    outputs |-> <<Value(List(<<Num(3), Num(5), Num(7)>>)), Value(List(<<Num(3)>>))>>]

\* tests/test_lisp.sh:345, :346
\*   (define (f . rest) (if (null? rest) 'empty 'not-empty)) (f)
\*   (f 1 2 3)
OnlyRest == [
    bindings |-> <<"null?">>,
    frames |-> 2,
    programs |-> <<
        List(<<List(<<Sym("define"), DottedList(<<Sym("f")>>, Sym("rest")),
          List(<<Sym("if"), List(<<Sym("null?"), Sym("rest")>>),
          Quote(Sym("empty")), Quote(Sym("not-empty"))>>)>>),
          List(<<Sym("f")>>)>>),
        List(<<List(<<Sym("f"), Num(1), Num(2), Num(3)>>)>>)>>,
    outputs |-> <<Value(Sym("empty")), Value(Sym("not-empty"))>>]

\* tests/test_lisp.sh:161, :159
\*   (let ((c 1)) (let ((c 2) (a (+ c 1))) a))
\*   (let ((x t)) x)
NestedLet == [
    bindings |-> <<"+">>,
    frames |-> 1,
    programs |-> <<
        List(<<List(<<Sym("let"), List(<<List(<<Sym("c"), Num(1)>>)>>),
          List(<<Sym("let"), List(<<List(<<Sym("c"), Num(2)>>),
          List(<<Sym("a"), List(<<Sym("+"), Sym("c"), Num(1)>>)>>)>>),
          Sym("a")>>)>>)>>),
        List(<<List(<<Sym("let"), List(<<List(<<Sym("x"), T>>)>>),
          Sym("x")>>)>>)>>,
    outputs |-> <<Value(Num(3)), Value(T)>>]

\* tests/test_lisp.sh:142, :146, :134, :99
\*   (setcar! '(() 1) 0)
\*   (setcdr! '(1) '(2))
\*   (cons '(a b) 'a)
\*   '(1 . 2)
SetFields == [
    bindings |-> <<>>,
    frames |-> 1,
    programs |-> <<
        List(<<List(<<Sym("setcar!"), Quote(List(<<Nil, Num(1)>>)),
          Num(0)>>)>>),
        List(<<List(<<Sym("setcdr!"), Quote(List(<<Num(1)>>)),
          Quote(List(<<Num(2)>>))>>)>>),
        List(<<List(<<Sym("cons"), Quote(List(<<Sym("a"), Sym("b")>>)),
          Quote(Sym("a"))>>)>>),
        List(<<Quote(DottedList(<<Num(1)>>, Num(2)))>>)>>,
    outputs |-> <<Value(List(<<Num(0), Num(1)>>)), Value(List(<<Num(1), Num(2)>>)), Value(DottedList(<<List(<<Sym("a"), Sym("b")>>)>>, Sym("a"))), Value(DottedList(<<Num(1)>>, Num(2)))>>]

\* tests/test_lisp.sh:331, :333
\*   (define a '(1 2 3)) (set! (nth 2 a) 4) a
\*   (set! (nthcdr 2 a) '(100)) a
SetNth == [
    bindings |-> <<"nthcdr", "nth">>,
    frames |-> 1,
    programs |-> <<
        List(<<List(<<Sym("define"), Sym("a"), Quote(List(<<Num(1), Num(2),
          Num(3)>>))>>), List(<<Sym("set!"), List(<<Sym("nth"), Num(2),
          Sym("a")>>), Num(4)>>), Sym("a")>>),
        List(<<List(<<Sym("set!"), List(<<Sym("nthcdr"), Num(2),
          Sym("a")>>), Quote(List(<<Num(100)>>))>>), Sym("a")>>)>>,
    outputs |-> <<Value(List(<<Num(1), Num(2), Num(4)>>)), Value(List(<<Num(1), Num(2), Num(4), Num(100)>>))>>]

\* tests/test_lisp.sh:301, :296
\*   (define x '(1 2 3)) (define c (cdr x)) (set! (cadr x) 100) x
\*   (set! (car (cdr x)) 7) x
\*   (cddr x)
SetCadr == [
    bindings |-> <<>>,
    frames |-> 1,
    programs |-> <<
        List(<<List(<<Sym("define"), Sym("x"), Quote(List(<<Num(1), Num(2),
          Num(3)>>))>>), List(<<Sym("define"), Sym("c"), List(<<Sym("cdr"),
          Sym("x")>>)>>), List(<<Sym("set!"), List(<<Sym("cadr"),
          Sym("x")>>), Num(100)>>), Sym("x")>>),
        List(<<List(<<Sym("set!"), List(<<Sym("car"), List(<<Sym("cdr"),
          Sym("x")>>)>>), Num(7)>>), Sym("x")>>),
        List(<<List(<<Sym("cddr"), Sym("x")>>)>>)>>,
    outputs |-> <<Value(List(<<Num(1), Num(100), Num(3)>>)), Value(List(<<Num(1), Num(7), Num(3)>>)), Value(List(<<Num(3)>>))>>]

\* tests/test_lisp.sh:166, :121, :164, :120
\*   (progn 'a (list 1 2 3))
\*   (if () t t 1)
\*   (progn)
\*   (if () 123)
Sequence == [
    bindings |-> <<>>,
    frames |-> 1,
    programs |-> <<
        List(<<List(<<Sym("progn"), Quote(Sym("a")), List(<<Sym("list"),
          Num(1), Num(2), Num(3)>>)>>)>>),
        List(<<List(<<Sym("if"), Nil, T, T, Num(1)>>)>>),
        List(<<List(<<Sym("progn")>>)>>),
        List(<<List(<<Sym("if"), Nil, Num(123)>>)>>)>>,
    outputs |-> <<Value(List(<<Num(1), Num(2), Num(3)>>)), Value(Num(1)), Value(Nil), Value(Nil)>>]

\* tests/test_lisp.sh:168 to 174
\*   (define (fib n) (if (<= n 1) n (+ (fib (- n 1)) (fib (- n 2))))) (fib
\*   3)
Fib == [
    bindings |-> <<"+", "-", "<=">>,
    frames |-> 4,
    programs |-> <<
        List(<<List(<<Sym("define"), List(<<Sym("fib"), Sym("n")>>),
          List(<<Sym("if"), List(<<Sym("<="), Sym("n"), Num(1)>>),
          Sym("n"), List(<<Sym("+"), List(<<Sym("fib"), List(<<Sym("-"),
          Sym("n"), Num(1)>>)>>), List(<<Sym("fib"), List(<<Sym("-"),
          Sym("n"), Num(2)>>)>>)>>)>>)>>), List(<<Sym("fib"), Num(3)>>)>>)>>,
    outputs |-> <<Value(Num(2))>>]

\* hololisp/hll_builtins.c:851
\*   (define (tail lis) (if (cdr lis) (tail (cdr lis)) (car lis))) (tail
\*   '(1 2 3 4))
TailList == [
    bindings |-> <<>>,
    frames |-> 2,
    programs |-> <<
        List(<<List(<<Sym("define"), List(<<Sym("tail"), Sym("lis")>>),
          List(<<Sym("if"), List(<<Sym("cdr"), Sym("lis")>>),
          List(<<Sym("tail"), List(<<Sym("cdr"), Sym("lis")>>)>>),
          List(<<Sym("car"), Sym("lis")>>)>>)>>), List(<<Sym("tail"),
          Quote(List(<<Num(1), Num(2), Num(3), Num(4)>>))>>)>>)>>,
    outputs |-> <<Value(Num(4))>>]

\* A tail call out of a let and an if.
\*   (define (count-down n) (let ((m (- n 1))) (progn (list m) (if (<= m 0)
\*   'done (count-down m))))) (count-down 4)
Countdown == [
    bindings |-> <<"-", "<=">>,
    frames |-> 2,
    programs |-> <<
        List(<<List(<<Sym("define"), List(<<Sym("count-down"), Sym("n")>>),
          List(<<Sym("let"), List(<<List(<<Sym("m"), List(<<Sym("-"),
          Sym("n"), Num(1)>>)>>)>>), List(<<Sym("progn"),
          List(<<Sym("list"), Sym("m")>>), List(<<Sym("if"),
          List(<<Sym("<="), Sym("m"), Num(0)>>), Quote(Sym("done")),
          List(<<Sym("count-down"), Sym("m")>>)>>)>>)>>)>>),
          List(<<Sym("count-down"), Num(4)>>)>>)>>,
    outputs |-> <<Value(Sym("done"))>>]

\* hololisp/hll_builtins.c:836, :847, tests/test_lisp.sh:279, :286, :287
\*   (defmacro (when expr . body) (cons 'if (cons expr (list (cons 'progn
\*   body)))))
\*   (when t 'b t)
\*   (defmacro (and expr . rest) (if rest (list 'if expr (cons 'and rest))
\*   expr))
\*   (and 1 2 3)
\*   (and () ())
Prelude == [
    bindings |-> <<>>,
    frames |-> 2,
    programs |-> <<
        List(<<List(<<Sym("defmacro"), DottedList(<<Sym("when"),
          Sym("expr")>>, Sym("body")), List(<<Sym("cons"),
          Quote(Sym("if")), List(<<Sym("cons"), Sym("expr"),
          List(<<Sym("list"), List(<<Sym("cons"), Quote(Sym("progn")),
          Sym("body")>>)>>)>>)>>)>>)>>),
        List(<<List(<<Sym("when"), T, Quote(Sym("b")), T>>)>>),
        List(<<List(<<Sym("defmacro"), DottedList(<<Sym("and"),
          Sym("expr")>>, Sym("rest")), List(<<Sym("if"), Sym("rest"),
          List(<<Sym("list"), Quote(Sym("if")), Sym("expr"),
          List(<<Sym("cons"), Quote(Sym("and")), Sym("rest")>>)>>),
          Sym("expr")>>)>>)>>),
        List(<<List(<<Sym("and"), Num(1), Num(2), Num(3)>>)>>),
        List(<<List(<<Sym("and"), Nil, Nil>>)>>)>>,
    outputs |-> <<Value(Nil), Value(T), Value(Nil), Value(Num(3)), Value(Nil)>>]

\* tests/test_lisp.sh:337
\*   (defmacro (seven) 7) ((lambda () (seven)))
MacroInFunction == [
    bindings |-> <<>>,
    frames |-> 2,
    programs |-> <<
        List(<<List(<<Sym("defmacro"), List(<<Sym("seven")>>), Num(7)>>),
          List(<<List(<<Sym("lambda"), Nil, List(<<Sym("seven")>>)>>)>>)>>)>>,
    outputs |-> <<Value(Num(7))>>]

\* tests/test_lisp.sh:277, :275; the conses are linked the other way round.
\*   (define x '(1 2 3)) (reverse! x)
\*   x
\*   (reverse! ())
ReverseInPlace == [
    bindings |-> <<"reverse!">>,
    frames |-> 1,
    programs |-> <<
        List(<<List(<<Sym("define"), Sym("x"), Quote(List(<<Num(1), Num(2),
          Num(3)>>))>>), List(<<Sym("reverse!"), Sym("x")>>)>>),
        List(<<Sym("x")>>),
        List(<<List(<<Sym("reverse!"), Nil>>)>>)>>,
    outputs |-> <<Value(List(<<Num(3), Num(2), Num(1)>>)), Value(List(<<Num(1)>>)), Value(Nil)>>]

\* tests/test_lisp.sh:153, :154, as two programs.
\*   (define (double x) (+ x x))
\*   (double 6)
Repl == [
    bindings |-> <<"+">>,
    frames |-> 2,
    programs |-> <<
        List(<<List(<<Sym("define"), List(<<Sym("double"), Sym("x")>>),
          List(<<Sym("+"), Sym("x"), Sym("x")>>)>>)>>),
        List(<<List(<<Sym("double"), Num(6)>>)>>)>>,
    outputs |-> <<Value(Sym("double")), Value(Num(12))>>]

\* tests/test_lisp.sh:57, :58, :97, :139, :213 to :217, :260 to :264
\*   (+ 1 2)
\*   (+ 1 -3)
\*   (+ 1 2 . (3 4))
\*   (list (+ 0 1) (* 2 1) (/ 9 3) (- 0 -4))
\*   (min 1 2 3 4)
\*   (max 1 2 3 4)
\*   (abs -1)
\*   (abs 1)
\*   (list (- 5) (rem 7 -3) (/ -8 2 2))
\*   (min)
\*   (min ())
\*   (max)
\*   (abs)
\*   (abs 1 2)
\*   (abs ())
\*   (/ 4 0)
\*   (rem 1)
\*   (* 2 ())
Arithmetic == [
    bindings |-> <<"+", "-", "*", "/", "rem", "max", "min", "abs">>,
    frames |-> 1,
    programs |-> <<
        List(<<List(<<Sym("+"), Num(1), Num(2)>>)>>),
        List(<<List(<<Sym("+"), Num(1), Num(-3)>>)>>),
        List(<<List(<<Sym("+"), Num(1), Num(2), Num(3), Num(4)>>)>>),
        List(<<List(<<Sym("list"), List(<<Sym("+"), Num(0), Num(1)>>),
          List(<<Sym("*"), Num(2), Num(1)>>), List(<<Sym("/"), Num(9),
          Num(3)>>), List(<<Sym("-"), Num(0), Num(-4)>>)>>)>>),
        List(<<List(<<Sym("min"), Num(1), Num(2), Num(3), Num(4)>>)>>),
        List(<<List(<<Sym("max"), Num(1), Num(2), Num(3), Num(4)>>)>>),
        List(<<List(<<Sym("abs"), Num(-1)>>)>>),
        List(<<List(<<Sym("abs"), Num(1)>>)>>),
        List(<<List(<<Sym("list"), List(<<Sym("-"), Num(5)>>),
          List(<<Sym("rem"), Num(7), Num(-3)>>), List(<<Sym("/"), Num(-8),
          Num(2), Num(2)>>)>>)>>),
        List(<<List(<<Sym("min")>>)>>),
        List(<<List(<<Sym("min"), Nil>>)>>),
        List(<<List(<<Sym("max")>>)>>),
        List(<<List(<<Sym("abs")>>)>>),
        List(<<List(<<Sym("abs"), Num(1), Num(2)>>)>>),
        List(<<List(<<Sym("abs"), Nil>>)>>),
        List(<<List(<<Sym("/"), Num(4), Num(0)>>)>>),
        List(<<List(<<Sym("rem"), Num(1)>>)>>),
        List(<<List(<<Sym("*"), Num(2), Nil>>)>>)>>,
    outputs |-> <<Value(Num(3)), Value(Num(-2)), Value(Num(10)),
      Value(List(<<Num(1), Num(2), Num(3), Num(4)>>)), Value(Num(1)),
      Value(Num(4)), Value(Num(1)), Value(Num(1)), Value(List(<<Num(-5),
      Num(1), Num(-2)>>)), Failed, Failed, Failed, Failed, Failed, Failed,
      Failed, Failed, Failed>>]

\* tests/test_lisp.sh:60 to :88
\*   (list (= 1 1) (= 1 -1) (= 1 1 1 1) (= 1 1 1 -1))
\*   (list (/= 1 1) (/= 1 -1) (/= 1 2 3 4) (/= 1 2 3 1))
\*   (list (< 1 2) (< 1 -2) (< 1 2 3 4) (< 1 3 5 5))
\*   (list (<= 1 1) (<= 1 -2) (<= 1 2 2 4) (<= 1 1 1 -1))
\*   (list (> 2 1) (> -2 1) (> 4 3 2 1) (> -1 3 5 1))
\*   (list (>= 1 1) (>= -2 1) (>= 4 2 2 1) (>= -1 1 1 1))
\*   (list (/= 1 2 2) (< 3 2 ()) (= 1 2 ()))
\*   (/= 1 ())
\*   (< 1 2 ())
\*   (>= ())
\*   (=)
Comparison == [
    bindings |-> <<"<", "<=", ">", ">=", "=", "/=">>,
    frames |-> 1,
    programs |-> <<
        List(<<List(<<Sym("list"), List(<<Sym("="), Num(1), Num(1)>>),
          List(<<Sym("="), Num(1), Num(-1)>>), List(<<Sym("="), Num(1),
          Num(1), Num(1), Num(1)>>), List(<<Sym("="), Num(1), Num(1), Num(1),
          Num(-1)>>)>>)>>),
        List(<<List(<<Sym("list"), List(<<Sym("/="), Num(1), Num(1)>>),
          List(<<Sym("/="), Num(1), Num(-1)>>), List(<<Sym("/="), Num(1),
          Num(2), Num(3), Num(4)>>), List(<<Sym("/="), Num(1), Num(2), Num(3),
          Num(1)>>)>>)>>),
        List(<<List(<<Sym("list"), List(<<Sym("<"), Num(1), Num(2)>>),
          List(<<Sym("<"), Num(1), Num(-2)>>), List(<<Sym("<"), Num(1),
          Num(2), Num(3), Num(4)>>), List(<<Sym("<"), Num(1), Num(3), Num(5),
          Num(5)>>)>>)>>),
        List(<<List(<<Sym("list"), List(<<Sym("<="), Num(1), Num(1)>>),
          List(<<Sym("<="), Num(1), Num(-2)>>), List(<<Sym("<="), Num(1),
          Num(2), Num(2), Num(4)>>), List(<<Sym("<="), Num(1), Num(1), Num(1),
          Num(-1)>>)>>)>>),
        List(<<List(<<Sym("list"), List(<<Sym(">"), Num(2), Num(1)>>),
          List(<<Sym(">"), Num(-2), Num(1)>>), List(<<Sym(">"), Num(4),
          Num(3), Num(2), Num(1)>>), List(<<Sym(">"), Num(-1), Num(3), Num(5),
          Num(1)>>)>>)>>),
        List(<<List(<<Sym("list"), List(<<Sym(">="), Num(1), Num(1)>>),
          List(<<Sym(">="), Num(-2), Num(1)>>), List(<<Sym(">="), Num(4),
          Num(2), Num(2), Num(1)>>), List(<<Sym(">="), Num(-1), Num(1),
          Num(1), Num(1)>>)>>)>>),
        List(<<List(<<Sym("list"), List(<<Sym("/="), Num(1), Num(2),
          Num(2)>>), List(<<Sym("<"), Num(3), Num(2), Nil>>), List(<<Sym("="),
          Num(1), Num(2), Nil>>)>>)>>),
        List(<<List(<<Sym("/="), Num(1), Nil>>)>>),
        List(<<List(<<Sym("<"), Num(1), Num(2), Nil>>)>>),
        List(<<List(<<Sym(">="), Nil>>)>>),
        List(<<List(<<Sym("=")>>)>>)>>,
    outputs |-> <<Value(List(<<T, Nil, T, Nil>>)), Value(List(<<Nil, T, T,
      Nil>>)), Value(List(<<T, Nil, T, Nil>>)), Value(List(<<T, Nil, T,
      Nil>>)), Value(List(<<T, Nil, T, Nil>>)), Value(List(<<T, Nil, T,
      Nil>>)), Value(List(<<Nil, Nil, Nil>>)), Failed, Failed, Failed,
      Failed>>]

\* tests/test_lisp.sh:219 to :258
\*   (list (list? '(1 2 3)) (list? ()) (list? 1) (list? 'abc))
\*   (list (null? '(1 2 3)) (null? ()) (null? 1) (null? 'abc))
\*   (list (number? '(1 2 3)) (number? ()) (number? 1) (number? 'abc))
\*   (list (positive? 100) (positive? 0) (positive? -100))
\*   (list (zero? 100) (zero? 0) (zero? -100))
\*   (list (negative? 100) (negative? 0) (negative? -100))
\*   (list (even? 2) (even? 1) (odd? 2) (odd? 1) (odd? -3))
\*   (list (eq? 'a 'b) (eq? 'a 'a) (eq? 1 2 1))
\*   (list?)
\*   (list? () 1)
\*   (positive?)
\*   (zero? ())
\*   (negative? 1 2)
\*   (number? () ())
Predicates == [
    bindings |-> <<"list?", "null?", "negative?", "positive?", "zero?",
      "even?", "odd?", "number?", "eq?">>,
    frames |-> 1,
    programs |-> <<
        List(<<List(<<Sym("list"), List(<<Sym("list?"), Quote(List(<<Num(1),
          Num(2), Num(3)>>))>>), List(<<Sym("list?"), Nil>>),
          List(<<Sym("list?"), Num(1)>>), List(<<Sym("list?"),
          Quote(Sym("abc"))>>)>>)>>),
        List(<<List(<<Sym("list"), List(<<Sym("null?"), Quote(List(<<Num(1),
          Num(2), Num(3)>>))>>), List(<<Sym("null?"), Nil>>),
          List(<<Sym("null?"), Num(1)>>), List(<<Sym("null?"),
          Quote(Sym("abc"))>>)>>)>>),
        List(<<List(<<Sym("list"), List(<<Sym("number?"), Quote(List(<<Num(1),
          Num(2), Num(3)>>))>>), List(<<Sym("number?"), Nil>>),
          List(<<Sym("number?"), Num(1)>>), List(<<Sym("number?"),
          Quote(Sym("abc"))>>)>>)>>),
        List(<<List(<<Sym("list"), List(<<Sym("positive?"), Num(100)>>),
          List(<<Sym("positive?"), Num(0)>>), List(<<Sym("positive?"),
          Num(-100)>>)>>)>>),
        List(<<List(<<Sym("list"), List(<<Sym("zero?"), Num(100)>>),
          List(<<Sym("zero?"), Num(0)>>), List(<<Sym("zero?"),
          Num(-100)>>)>>)>>),
        List(<<List(<<Sym("list"), List(<<Sym("negative?"), Num(100)>>),
          List(<<Sym("negative?"), Num(0)>>), List(<<Sym("negative?"),
          Num(-100)>>)>>)>>),
        List(<<List(<<Sym("list"), List(<<Sym("even?"), Num(2)>>),
          List(<<Sym("even?"), Num(1)>>), List(<<Sym("odd?"), Num(2)>>),
          List(<<Sym("odd?"), Num(1)>>), List(<<Sym("odd?"), Num(-3)>>)>>)>>),
        List(<<List(<<Sym("list"), List(<<Sym("eq?"), Quote(Sym("a")),
          Quote(Sym("b"))>>), List(<<Sym("eq?"), Quote(Sym("a")),
          Quote(Sym("a"))>>), List(<<Sym("eq?"), Num(1), Num(2),
          Num(1)>>)>>)>>),
        List(<<List(<<Sym("list?")>>)>>),
        List(<<List(<<Sym("list?"), Nil, Num(1)>>)>>),
        List(<<List(<<Sym("positive?")>>)>>),
        List(<<List(<<Sym("zero?"), Nil>>)>>),
        List(<<List(<<Sym("negative?"), Num(1), Num(2)>>)>>),
        List(<<List(<<Sym("number?"), Nil, Nil>>)>>)>>,
    outputs |-> <<Value(List(<<T, T, Nil, Nil>>)), Value(List(<<Nil, T, Nil,
      Nil>>)), Value(List(<<Nil, Nil, T, Nil>>)), Value(List(<<T, Nil,
      Nil>>)), Value(List(<<Nil, T, Nil>>)), Value(List(<<Nil, Nil, T>>)),
      Value(List(<<T, Nil, Nil, T, T>>)), Value(List(<<T, Nil, Nil>>)),
      Failed, Failed, Failed, Failed, Failed, Failed>>]

\* tests/test_lisp.sh:266 to :271, :309, :315 to :327, :365, :366
\*   (append)
\*   (append '(a b))
\*   (append '(a b) '(c d) ())
\*   (append '(1 (2 (3))) '(i (j) k))
\*   (append '(foo) 'bar)
\*   (append 1 () '(1) () '(2))
\*   (append '(1 . 2) '(3))
\*   (append '(1 . 2) '(3) '(4))
\*   (append 1 2)
\*   (define x (list 1)) (append x (list 2)) x
\*   (list (nth 0 ()) (nth 100 ()) (nth 0 '(0 1 2 3)) (nth 1 '(0 1 2 3)) (nth
\*   100 '(0 1 2 3)))
\*   (list (length '(1 2 3)) (length ()) (length 5) (length))
\*   (list (range 3) (range 5 8) (range 0) (range 2 1))
\*   (nth 0)
\*   (nth -1 ())
\*   (nth () ())
\*   (nthcdr 0 () ())
\*   (range)
\*   (range ())
\*   (range 1 2 3)
ListBuiltins == [
    bindings |-> <<"append", "nthcdr", "nth", "length", "range">>,
    frames |-> 1,
    programs |-> <<
        List(<<List(<<Sym("append")>>)>>),
        List(<<List(<<Sym("append"), Quote(List(<<Sym("a"), Sym("b")>>))>>)>>),
        List(<<List(<<Sym("append"), Quote(List(<<Sym("a"), Sym("b")>>)),
          Quote(List(<<Sym("c"), Sym("d")>>)), Nil>>)>>),
        List(<<List(<<Sym("append"), Quote(List(<<Num(1), List(<<Num(2),
          List(<<Num(3)>>)>>)>>)), Quote(List(<<Sym("i"), List(<<Sym("j")>>),
          Sym("k")>>))>>)>>),
        List(<<List(<<Sym("append"), Quote(List(<<Sym("foo")>>)),
          Quote(Sym("bar"))>>)>>),
        List(<<List(<<Sym("append"), Num(1), Nil, Quote(List(<<Num(1)>>)),
          Nil, Quote(List(<<Num(2)>>))>>)>>),
        List(<<List(<<Sym("append"), Quote(DottedList(<<Num(1)>>, Num(2))),
          Quote(List(<<Num(3)>>))>>)>>),
        List(<<List(<<Sym("append"), Quote(DottedList(<<Num(1)>>, Num(2))),
          Quote(List(<<Num(3)>>)), Quote(List(<<Num(4)>>))>>)>>),
        List(<<List(<<Sym("append"), Num(1), Num(2)>>)>>),
        List(<<List(<<Sym("define"), Sym("x"), List(<<Sym("list"),
          Num(1)>>)>>), List(<<Sym("append"), Sym("x"), List(<<Sym("list"),
          Num(2)>>)>>), Sym("x")>>),
        List(<<List(<<Sym("list"), List(<<Sym("nth"), Num(0), Nil>>),
          List(<<Sym("nth"), Num(100), Nil>>), List(<<Sym("nth"), Num(0),
          Quote(List(<<Num(0), Num(1), Num(2), Num(3)>>))>>),
          List(<<Sym("nth"), Num(1), Quote(List(<<Num(0), Num(1), Num(2),
          Num(3)>>))>>), List(<<Sym("nth"), Num(100), Quote(List(<<Num(0),
          Num(1), Num(2), Num(3)>>))>>)>>)>>),
        List(<<List(<<Sym("list"), List(<<Sym("length"), Quote(List(<<Num(1),
          Num(2), Num(3)>>))>>), List(<<Sym("length"), Nil>>),
          List(<<Sym("length"), Num(5)>>), List(<<Sym("length")>>)>>)>>),
        List(<<List(<<Sym("list"), List(<<Sym("range"), Num(3)>>),
          List(<<Sym("range"), Num(5), Num(8)>>), List(<<Sym("range"),
          Num(0)>>), List(<<Sym("range"), Num(2), Num(1)>>)>>)>>),
        List(<<List(<<Sym("nth"), Num(0)>>)>>),
        List(<<List(<<Sym("nth"), Num(-1), Nil>>)>>),
        List(<<List(<<Sym("nth"), Nil, Nil>>)>>),
        List(<<List(<<Sym("nthcdr"), Num(0), Nil, Nil>>)>>),
        List(<<List(<<Sym("range")>>)>>),
        List(<<List(<<Sym("range"), Nil>>)>>),
        List(<<List(<<Sym("range"), Num(1), Num(2), Num(3)>>)>>)>>,
    outputs |-> <<Value(Nil), Value(List(<<Sym("a"), Sym("b")>>)),
      Value(List(<<Sym("a"), Sym("b"), Sym("c"), Sym("d")>>)),
      Value(List(<<Num(1), List(<<Num(2), List(<<Num(3)>>)>>), Sym("i"),
      List(<<Sym("j")>>), Sym("k")>>)), Value(DottedList(<<Sym("foo")>>,
      Sym("bar"))), Value(List(<<Num(1), Num(2)>>)),
      Value(List(<<List(<<Num(3)>>)>>)), Value(DottedList(<<List(<<Num(3)>>),
      DottedList(<<Num(4)>>, Num(4)), Num(4)>>, Num(4))), Value(Nil), Value(List(<<Num(1),
      Num(2)>>)), Value(List(<<Nil, Nil, Num(0), Num(1), Nil>>)),
      Value(List(<<Num(3), Num(0), Num(0), Num(0)>>)),
      Value(List(<<List(<<Num(0), Num(1), Num(2)>>), List(<<Num(5), Num(6),
      Num(7)>>), Nil, Nil>>)), Failed, Failed, Failed, Failed, Failed, Failed,
      Failed>>]

\* tests/test_lisp.sh:190 to :203
\*   (defmacro (and expr . rest) (if rest (list 'if expr (cons 'and rest))
\*   expr))
\*   (define (fizzbuzz n) (let ((is-mult-p (lambda (mult) (= (rem n mult) 0))))
\*   (let ((mult-3 (is-mult-p 3)) (mult-5 (is-mult-p 5))) (if (and mult-3
\*   mult-5) 'fizzbuzz (if mult-3 'fizz (if mult-5 'buzz n))))))
\*   (fizzbuzz 5)
\*   (fizzbuzz 15)
\*   (fizzbuzz 17)
Fizzbuzz == [
    bindings |-> <<"=", "rem">>,
    frames |-> 3,
    programs |-> <<
        List(<<List(<<Sym("defmacro"), DottedList(<<Sym("and"), Sym("expr")>>,
          Sym("rest")), List(<<Sym("if"), Sym("rest"), List(<<Sym("list"),
          Quote(Sym("if")), Sym("expr"), List(<<Sym("cons"),
          Quote(Sym("and")), Sym("rest")>>)>>), Sym("expr")>>)>>)>>),
        List(<<List(<<Sym("define"), List(<<Sym("fizzbuzz"), Sym("n")>>),
          List(<<Sym("let"), List(<<List(<<Sym("is-mult-p"),
          List(<<Sym("lambda"), List(<<Sym("mult")>>), List(<<Sym("="),
          List(<<Sym("rem"), Sym("n"), Sym("mult")>>), Num(0)>>)>>)>>)>>),
          List(<<Sym("let"), List(<<List(<<Sym("mult-3"),
          List(<<Sym("is-mult-p"), Num(3)>>)>>), List(<<Sym("mult-5"),
          List(<<Sym("is-mult-p"), Num(5)>>)>>)>>), List(<<Sym("if"),
          List(<<Sym("and"), Sym("mult-3"), Sym("mult-5")>>),
          Quote(Sym("fizzbuzz")), List(<<Sym("if"), Sym("mult-3"),
          Quote(Sym("fizz")), List(<<Sym("if"), Sym("mult-5"),
          Quote(Sym("buzz")), Sym("n")>>)>>)>>)>>)>>)>>)>>),
        List(<<List(<<Sym("fizzbuzz"), Num(5)>>)>>),
        List(<<List(<<Sym("fizzbuzz"), Num(15)>>)>>),
        List(<<List(<<Sym("fizzbuzz"), Num(17)>>)>>)>>,
    outputs |-> <<Value(Nil), Value(Sym("fizzbuzz")), Value(Sym("buzz")),
      Value(Sym("fizzbuzz")), Value(Num(17))>>]

\* hololisp/hll_builtins.c:840 to 850, tests/test_lisp.sh:279 to :294
\*   (defmacro (or expr . rest) (if rest (let ((var (gensym))) (list 'let (list
\*   (list var expr)) (list 'if var var (cons 'or rest)))) expr))
\*   (or () () 1)
\*   (or () () ())
\*   (defmacro (not x) (list 'if x () 't))
\*   (list (not t) (not ()) (not (+ 1 2)))
\*   (defmacro (unless expr . body) (cons 'if (cons expr (cons () body))))
\*   (list (unless t t) (unless () t))
Logic == [
    bindings |-> <<"+", "gensym">>,
    frames |-> 1,
    programs |-> <<
        List(<<List(<<Sym("defmacro"), DottedList(<<Sym("or"), Sym("expr")>>,
          Sym("rest")), List(<<Sym("if"), Sym("rest"), List(<<Sym("let"),
          List(<<List(<<Sym("var"), List(<<Sym("gensym")>>)>>)>>),
          List(<<Sym("list"), Quote(Sym("let")), List(<<Sym("list"),
          List(<<Sym("list"), Sym("var"), Sym("expr")>>)>>),
          List(<<Sym("list"), Quote(Sym("if")), Sym("var"), Sym("var"),
          List(<<Sym("cons"), Quote(Sym("or")), Sym("rest")>>)>>)>>)>>),
          Sym("expr")>>)>>)>>),
        List(<<List(<<Sym("or"), Nil, Nil, Num(1)>>)>>),
        List(<<List(<<Sym("or"), Nil, Nil, Nil>>)>>),
        List(<<List(<<Sym("defmacro"), List(<<Sym("not"), Sym("x")>>),
          List(<<Sym("list"), Quote(Sym("if")), Sym("x"), Nil,
          Quote(T)>>)>>)>>),
        List(<<List(<<Sym("list"), List(<<Sym("not"), T>>), List(<<Sym("not"),
          Nil>>), List(<<Sym("not"), List(<<Sym("+"), Num(1),
          Num(2)>>)>>)>>)>>),
        List(<<List(<<Sym("defmacro"), DottedList(<<Sym("unless"),
          Sym("expr")>>, Sym("body")), List(<<Sym("cons"), Quote(Sym("if")),
          List(<<Sym("cons"), Sym("expr"), List(<<Sym("cons"), Nil,
          Sym("body")>>)>>)>>)>>)>>),
        List(<<List(<<Sym("list"), List(<<Sym("unless"), T, T>>),
          List(<<Sym("unless"), Nil, T>>)>>)>>)>>,
    outputs |-> <<Value(Nil), Value(Num(1)), Value(Nil), Value(Nil),
      Value(List(<<Nil, T, Nil>>)), Value(Nil), Value(List(<<Nil, T>>))>>]

\* hololisp/hll_builtins.c:859, tests/test_lisp.sh:358
\*   (defmacro (when expr . body) (cons 'if (cons expr (list (cons 'progn
\*   body)))))
\*   (define (heads lis) (when lis (cons (caar lis) (heads (cdr lis)))))
\*   (heads '((1) (3 2 4) (5 5 5)))
Heads == [
    bindings |-> <<>>,
    frames |-> 5,
    programs |-> <<
        List(<<List(<<Sym("defmacro"), DottedList(<<Sym("when"),
          Sym("expr")>>, Sym("body")), List(<<Sym("cons"), Quote(Sym("if")),
          List(<<Sym("cons"), Sym("expr"), List(<<Sym("list"),
          List(<<Sym("cons"), Quote(Sym("progn")),
          Sym("body")>>)>>)>>)>>)>>)>>),
        List(<<List(<<Sym("define"), List(<<Sym("heads"), Sym("lis")>>),
          List(<<Sym("when"), Sym("lis"), List(<<Sym("cons"),
          List(<<Sym("caar"), Sym("lis")>>), List(<<Sym("heads"),
          List(<<Sym("cdr"), Sym("lis")>>)>>)>>)>>)>>)>>),
        List(<<List(<<Sym("heads"), Quote(List(<<List(<<Num(1)>>),
          List(<<Num(3), Num(2), Num(4)>>), List(<<Num(5), Num(5),
          Num(5)>>)>>))>>)>>)>>,
    outputs |-> <<Value(Nil), Value(Sym("heads")), Value(List(<<Num(1),
      Num(3), Num(5)>>))>>]

\* hololisp/hll_builtins.c:899, :906, :921, tests/test_lisp.sh:360, :361, :363,
\* :364
\*   (defmacro (when expr . body) (cons 'if (cons expr (list (cons 'progn
\*   body)))))
\*   (define (map fn lis) (when lis (cons (fn (car lis)) (map fn (cdr lis)))))
\*   (defmacro (amap fn-body lis) (list 'map (list 'lambda (list 'it) fn-body)
\*   lis))
\*   (amap (* 2 it) (list 1 2))
\*   (define (reduce form lis) (if (cdr lis) (form (car lis) (reduce form (cdr
\*   lis))) (car lis)))
\*   (reduce (lambda (a b) (if (> a b) a b)) (list 1 3 5 2))
\*   (define (mapcat func lis) (define (cat lis) (when lis (append (car lis)
\*   (cat (cdr lis))))) (cat (map func lis)))
\*   (mapcat (lambda (x) (list x x)) '(1 2))
MapReduce == [
    bindings |-> <<"*", ">", "append">>,
    frames |-> 5,
    programs |-> <<
        List(<<List(<<Sym("defmacro"), DottedList(<<Sym("when"),
          Sym("expr")>>, Sym("body")), List(<<Sym("cons"), Quote(Sym("if")),
          List(<<Sym("cons"), Sym("expr"), List(<<Sym("list"),
          List(<<Sym("cons"), Quote(Sym("progn")),
          Sym("body")>>)>>)>>)>>)>>)>>),
        List(<<List(<<Sym("define"), List(<<Sym("map"), Sym("fn"),
          Sym("lis")>>), List(<<Sym("when"), Sym("lis"), List(<<Sym("cons"),
          List(<<Sym("fn"), List(<<Sym("car"), Sym("lis")>>)>>),
          List(<<Sym("map"), Sym("fn"), List(<<Sym("cdr"),
          Sym("lis")>>)>>)>>)>>)>>)>>),
        List(<<List(<<Sym("defmacro"), List(<<Sym("amap"), Sym("fn-body"),
          Sym("lis")>>), List(<<Sym("list"), Quote(Sym("map")),
          List(<<Sym("list"), Quote(Sym("lambda")), List(<<Sym("list"),
          Quote(Sym("it"))>>), Sym("fn-body")>>), Sym("lis")>>)>>)>>),
        List(<<List(<<Sym("amap"), List(<<Sym("*"), Num(2), Sym("it")>>),
          List(<<Sym("list"), Num(1), Num(2)>>)>>)>>),
        List(<<List(<<Sym("define"), List(<<Sym("reduce"), Sym("form"),
          Sym("lis")>>), List(<<Sym("if"), List(<<Sym("cdr"), Sym("lis")>>),
          List(<<Sym("form"), List(<<Sym("car"), Sym("lis")>>),
          List(<<Sym("reduce"), Sym("form"), List(<<Sym("cdr"),
          Sym("lis")>>)>>)>>), List(<<Sym("car"), Sym("lis")>>)>>)>>)>>),
        List(<<List(<<Sym("reduce"), List(<<Sym("lambda"), List(<<Sym("a"),
          Sym("b")>>), List(<<Sym("if"), List(<<Sym(">"), Sym("a"),
          Sym("b")>>), Sym("a"), Sym("b")>>)>>), List(<<Sym("list"), Num(1),
          Num(3), Num(5), Num(2)>>)>>)>>),
        List(<<List(<<Sym("define"), List(<<Sym("mapcat"), Sym("func"),
          Sym("lis")>>), List(<<Sym("define"), List(<<Sym("cat"),
          Sym("lis")>>), List(<<Sym("when"), Sym("lis"), List(<<Sym("append"),
          List(<<Sym("car"), Sym("lis")>>), List(<<Sym("cat"),
          List(<<Sym("cdr"), Sym("lis")>>)>>)>>)>>)>>), List(<<Sym("cat"),
          List(<<Sym("map"), Sym("func"), Sym("lis")>>)>>)>>)>>),
        List(<<List(<<Sym("mapcat"), List(<<Sym("lambda"), List(<<Sym("x")>>),
          List(<<Sym("list"), Sym("x"), Sym("x")>>)>>), Quote(List(<<Num(1),
          Num(2)>>))>>)>>)>>,
    outputs |-> <<Value(Nil), Value(Sym("map")), Value(Nil),
      Value(List(<<Num(2), Num(4)>>)), Value(Sym("reduce")), Value(Num(5)),
      Value(Sym("mapcat")), Value(List(<<Num(1), Num(1), Num(2), Num(2)>>))>>]

\* hololisp/hll_builtins.c:855, :885, :904
\*   (defmacro (when expr . body) (cons 'if (cons expr (list (cons 'progn
\*   body)))))
\*   (define (filter pred lis) (when lis (let ((value (pred (car lis)))) (if
\*   value (cons (car lis) (filter pred (cdr lis))) (filter pred (cdr lis))))))
\*   (filter odd? '(1 2 3))
\*   (define (count pred lis) (if lis (+ (if (pred (car lis)) 1 0) (count pred
\*   (cdr lis))) 0))
\*   (count even? '(1 2 4))
\*   (define (repeat n x) (when (positive? n) (cons x (repeat (- n 1) x))))
\*   (repeat 2 'x)
FilterCount == [
    bindings |-> <<"+", "-", "positive?", "even?", "odd?">>,
    frames |-> 5,
    programs |-> <<
        List(<<List(<<Sym("defmacro"), DottedList(<<Sym("when"),
          Sym("expr")>>, Sym("body")), List(<<Sym("cons"), Quote(Sym("if")),
          List(<<Sym("cons"), Sym("expr"), List(<<Sym("list"),
          List(<<Sym("cons"), Quote(Sym("progn")),
          Sym("body")>>)>>)>>)>>)>>)>>),
        List(<<List(<<Sym("define"), List(<<Sym("filter"), Sym("pred"),
          Sym("lis")>>), List(<<Sym("when"), Sym("lis"), List(<<Sym("let"),
          List(<<List(<<Sym("value"), List(<<Sym("pred"), List(<<Sym("car"),
          Sym("lis")>>)>>)>>)>>), List(<<Sym("if"), Sym("value"),
          List(<<Sym("cons"), List(<<Sym("car"), Sym("lis")>>),
          List(<<Sym("filter"), Sym("pred"), List(<<Sym("cdr"),
          Sym("lis")>>)>>)>>), List(<<Sym("filter"), Sym("pred"),
          List(<<Sym("cdr"), Sym("lis")>>)>>)>>)>>)>>)>>)>>),
        List(<<List(<<Sym("filter"), Sym("odd?"), Quote(List(<<Num(1), Num(2),
          Num(3)>>))>>)>>),
        List(<<List(<<Sym("define"), List(<<Sym("count"), Sym("pred"),
          Sym("lis")>>), List(<<Sym("if"), Sym("lis"), List(<<Sym("+"),
          List(<<Sym("if"), List(<<Sym("pred"), List(<<Sym("car"),
          Sym("lis")>>)>>), Num(1), Num(0)>>), List(<<Sym("count"),
          Sym("pred"), List(<<Sym("cdr"), Sym("lis")>>)>>)>>), Num(0)>>)>>)>>),
        List(<<List(<<Sym("count"), Sym("even?"), Quote(List(<<Num(1), Num(2),
          Num(4)>>))>>)>>),
        List(<<List(<<Sym("define"), List(<<Sym("repeat"), Sym("n"),
          Sym("x")>>), List(<<Sym("when"), List(<<Sym("positive?"),
          Sym("n")>>), List(<<Sym("cons"), Sym("x"), List(<<Sym("repeat"),
          List(<<Sym("-"), Sym("n"), Num(1)>>), Sym("x")>>)>>)>>)>>)>>),
        List(<<List(<<Sym("repeat"), Num(2), Quote(Sym("x"))>>)>>)>>,
    outputs |-> <<Value(Nil), Value(Sym("filter")), Value(List(<<Num(1),
      Num(3)>>)), Value(Sym("count")), Value(Num(2)), Value(Sym("repeat")),
      Value(List(<<Sym("x"), Sym("x")>>))>>]

\* hololisp/hll_builtins.c:881, :893, :912
\*   (defmacro (when expr . body) (cons 'if (cons expr (list (cons 'progn
\*   body)))))
\*   (defmacro (or expr . rest) (if rest (let ((var (gensym))) (list 'let (list
\*   (list var expr)) (list 'if var var (cons 'or rest)))) expr))
\*   (define (any pred lis) (when lis (or (pred (car lis)) (any pred (cdr
\*   lis)))))
\*   (any even? '(1 3 4))
\*   (defmacro (and expr . rest) (if rest (list 'if expr (cons 'and rest))
\*   expr))
\*   (define (all pred lis) (if lis (and (pred (car lis)) (all pred (cdr lis)))
\*   t))
\*   (all odd? '(1 3 4))
\*   (defmacro (inc! val) (list 'set! val (list '+ val 1)))
\*   (define x 1) (inc! x) (inc! x) x
AnyIncrement == [
    bindings |-> <<"+", "even?", "odd?", "gensym">>,
    frames |-> 2,
    programs |-> <<
        List(<<List(<<Sym("defmacro"), DottedList(<<Sym("when"),
          Sym("expr")>>, Sym("body")), List(<<Sym("cons"), Quote(Sym("if")),
          List(<<Sym("cons"), Sym("expr"), List(<<Sym("list"),
          List(<<Sym("cons"), Quote(Sym("progn")),
          Sym("body")>>)>>)>>)>>)>>)>>),
        List(<<List(<<Sym("defmacro"), DottedList(<<Sym("or"), Sym("expr")>>,
          Sym("rest")), List(<<Sym("if"), Sym("rest"), List(<<Sym("let"),
          List(<<List(<<Sym("var"), List(<<Sym("gensym")>>)>>)>>),
          List(<<Sym("list"), Quote(Sym("let")), List(<<Sym("list"),
          List(<<Sym("list"), Sym("var"), Sym("expr")>>)>>),
          List(<<Sym("list"), Quote(Sym("if")), Sym("var"), Sym("var"),
          List(<<Sym("cons"), Quote(Sym("or")), Sym("rest")>>)>>)>>)>>),
          Sym("expr")>>)>>)>>),
        List(<<List(<<Sym("define"), List(<<Sym("any"), Sym("pred"),
          Sym("lis")>>), List(<<Sym("when"), Sym("lis"), List(<<Sym("or"),
          List(<<Sym("pred"), List(<<Sym("car"), Sym("lis")>>)>>),
          List(<<Sym("any"), Sym("pred"), List(<<Sym("cdr"),
          Sym("lis")>>)>>)>>)>>)>>)>>),
        List(<<List(<<Sym("any"), Sym("even?"), Quote(List(<<Num(1), Num(3),
          Num(4)>>))>>)>>),
        List(<<List(<<Sym("defmacro"), DottedList(<<Sym("and"), Sym("expr")>>,
          Sym("rest")), List(<<Sym("if"), Sym("rest"), List(<<Sym("list"),
          Quote(Sym("if")), Sym("expr"), List(<<Sym("cons"),
          Quote(Sym("and")), Sym("rest")>>)>>), Sym("expr")>>)>>)>>),
        List(<<List(<<Sym("define"), List(<<Sym("all"), Sym("pred"),
          Sym("lis")>>), List(<<Sym("if"), Sym("lis"), List(<<Sym("and"),
          List(<<Sym("pred"), List(<<Sym("car"), Sym("lis")>>)>>),
          List(<<Sym("all"), Sym("pred"), List(<<Sym("cdr"),
          Sym("lis")>>)>>)>>), T>>)>>)>>),
        List(<<List(<<Sym("all"), Sym("odd?"), Quote(List(<<Num(1), Num(3),
          Num(4)>>))>>)>>),
        List(<<List(<<Sym("defmacro"), List(<<Sym("inc!"), Sym("val")>>),
          List(<<Sym("list"), Quote(Sym("set!")), Sym("val"),
          List(<<Sym("list"), Quote(Sym("+")), Sym("val"), Num(1)>>)>>)>>)>>),
        List(<<List(<<Sym("define"), Sym("x"), Num(1)>>), List(<<Sym("inc!"),
          Sym("x")>>), List(<<Sym("inc!"), Sym("x")>>), Sym("x")>>)>>,
    outputs |-> <<Value(Nil), Value(Nil), Value(Sym("any")), Value(T),
      Value(Nil), Value(Sym("all")), Value(Nil), Value(Nil), Value(Num(3))>>]

\* tests/test_lisp.sh:348 to :352, with fewer numbers.
\*   (define (test) (let ((x (random 3 5))) (if (< x 5) (>= x 3)))) (test)
\*   (< (random 2) 2)
\*   (random ())
\*   (random 1 2 3)
RandomNumbers == [
    bindings |-> <<"<", ">=", "random">>,
    frames |-> 2,
    programs |-> <<
        List(<<List(<<Sym("define"), List(<<Sym("test")>>), List(<<Sym("let"),
          List(<<List(<<Sym("x"), List(<<Sym("random"), Num(3),
          Num(5)>>)>>)>>), List(<<Sym("if"), List(<<Sym("<"), Sym("x"),
          Num(5)>>), List(<<Sym(">="), Sym("x"), Num(3)>>)>>)>>)>>),
          List(<<Sym("test")>>)>>),
        List(<<List(<<Sym("<"), List(<<Sym("random"), Num(2)>>), Num(2)>>)>>),
        List(<<List(<<Sym("random"), Nil>>)>>),
        List(<<List(<<Sym("random"), Num(1), Num(2), Num(3)>>)>>)>>,
    outputs |-> <<Value(T), Value(T), Failed, Failed>>]

\* The value of set! is the slot of the variable, a cons of the environment:
\* setcdr! of it sets the variable, setcar! renames it, and each gives the slot.
\*   (define x 1) (car (setcdr! (set! x 5) 7))
\*   x
\*   (define (f) (let ((z 2)) (setcar! (set! z 3) 'y) y))
\*   (f)
\*   (setcar! (set! x 8) 'w)
\*   w
\*   x
SlotOfSet == [
    bindings |-> <<>>,
    frames |-> 2,
    programs |-> <<
        List(<<List(<<Sym("define"), Sym("x"), Num(1)>>), List(<<Sym("car"),
          List(<<Sym("setcdr!"), List(<<Sym("set!"), Sym("x"), Num(5)>>),
          Num(7)>>)>>)>>),
        List(<<Sym("x")>>),
        List(<<List(<<Sym("define"), List(<<Sym("f")>>), List(<<Sym("let"),
          List(<<List(<<Sym("z"), Num(2)>>)>>), List(<<Sym("setcar!"),
          List(<<Sym("set!"), Sym("z"), Num(3)>>), Quote(Sym("y"))>>),
          Sym("y")>>)>>)>>),
        List(<<List(<<Sym("f")>>)>>),
        List(<<List(<<Sym("setcar!"), List(<<Sym("set!"), Sym("x"), Num(8)>>),
          Quote(Sym("w"))>>)>>),
        List(<<Sym("w")>>),
        List(<<Sym("x")>>)>>,
    outputs |-> <<Value(Sym("x")), Value(Num(7)), Value(Sym("f")),
      Value(Num(3)), Value(DottedList(<<Sym("w")>>, Num(8))), Value(Num(8)), Failed>>]

Programs == {
  Closure, ClosureArgument, ClosureScope, RestArguments, OnlyRest,
  NestedLet, SetFields, SetNth, SetCadr, Sequence, Fib, TailList, Countdown,
  Prelude, MacroInFunction, ReverseInPlace, Repl, Arithmetic, Comparison,
  Predicates, ListBuiltins, Fizzbuzz, Logic, Heads, MapReduce, FilterCount,
  AnyIncrement, RandomNumbers, SlotOfSet}

-----------------------------------------------------------------------------
(* Programs that fail. *)

\* A builtin raises an error; what was defined before it stays.
\*   (define y 1) (+ 1 ())
\*   (+ y 2)
\*   (list (car '(1 2)) y)
BuiltinError == [
    bindings |-> <<"+">>,
    frames |-> 1,
    programs |-> <<
        List(<<List(<<Sym("define"), Sym("y"), Num(1)>>), List(<<Sym("+"),
          Num(1), Nil>>)>>),
        List(<<List(<<Sym("+"), Sym("y"), Num(2)>>)>>),
        List(<<List(<<Sym("list"), List(<<Sym("car"), Quote(List(<<Num(1),
          Num(2)>>))>>), Sym("y")>>)>>)>>,
    outputs |-> <<Failed, Value(Num(3)), Value(List(<<Num(1), Num(1)>>))>>]

\* tests/test_lisp.sh:355: variables are looked up where a function is made.
\*   (define (f x) (g)) (define (g) x) (f 10)
\*   (define x 5) (f 10)
DynamicScope == [
    bindings |-> <<>>,
    frames |-> 3,
    programs |-> <<
        List(<<List(<<Sym("define"), List(<<Sym("f"), Sym("x")>>),
          List(<<Sym("g")>>)>>), List(<<Sym("define"), List(<<Sym("g")>>),
          Sym("x")>>), List(<<Sym("f"), Num(10)>>)>>),
        List(<<List(<<Sym("define"), Sym("x"), Num(5)>>), List(<<Sym("f"),
          Num(10)>>)>>)>>,
    outputs |-> <<Failed, Value(Num(5))>>]

\* tests/test_lisp.sh:131, :155: a program with an error is not run.
\*   (cons 1)
\*   (define (fn a) (car 2 3))
\*   (fn 1)
\*   t
FormError == [
    bindings |-> <<>>,
    frames |-> 2,
    programs |-> <<
        List(<<List(<<Sym("cons"), Num(1)>>)>>),
        List(<<List(<<Sym("define"), List(<<Sym("fn"), Sym("a")>>),
          List(<<Sym("car"), Num(2), Num(3)>>)>>)>>),
        List(<<List(<<Sym("fn"), Num(1)>>)>>),
        List(<<T>>)>>,
    outputs |-> <<Failed, Failed, Failed, Value(T)>>]

\* call_func: number of arguments does not match.
\*   ((lambda (x y) (list x y)) 1)
\*   ((lambda (x y) (list x y)) 1 2)
TooFewArguments == [
    bindings |-> <<>>,
    frames |-> 2,
    programs |-> <<
        List(<<List(<<List(<<Sym("lambda"), List(<<Sym("x"), Sym("y")>>),
          List(<<Sym("list"), Sym("x"), Sym("y")>>)>>), Num(1)>>)>>),
        List(<<List(<<List(<<Sym("lambda"), List(<<Sym("x"), Sym("y")>>),
          List(<<Sym("list"), Sym("x"), Sym("y")>>)>>), Num(1),
          Num(2)>>)>>)>>,
    outputs |-> <<Failed, Value(List(<<Num(1), Num(2)>>))>>]

\* call_func: object is not callable.
\*   (define a (list 1)) (let ((b 2)) (a b))
\*   a
\*   b
NotCallable == [
    bindings |-> <<>>,
    frames |-> 1,
    programs |-> <<
        List(<<List(<<Sym("define"), Sym("a"), List(<<Sym("list"),
          Num(1)>>)>>), List(<<Sym("let"), List(<<List(<<Sym("b"),
          Num(2)>>)>>), List(<<Sym("a"), Sym("b")>>)>>)>>),
        List(<<Sym("a")>>),
        List(<<Sym("b")>>)>>,
    outputs |-> <<Failed, Value(List(<<Num(1)>>)), Failed>>]

\* hll_expand_macro: HLL_EXPAND_MACRO_ERR_ARGS.
\*   (defmacro (first a b) a) (first 1)
\*   (first 1 2)
MacroArguments == [
    bindings |-> <<>>,
    frames |-> 2,
    programs |-> <<
        List(<<List(<<Sym("defmacro"), List(<<Sym("first"), Sym("a"),
          Sym("b")>>), Sym("a")>>), List(<<Sym("first"), Num(1)>>)>>),
        List(<<List(<<Sym("first"), Num(1), Num(2)>>)>>)>>,
    outputs |-> <<Failed, Value(Num(1))>>]

\* A macro raises an error while the program is compiled, which runs all the same.
\*   (defmacro (m) (car 1)) (define z 1) (m)
\*   z
\*   (m)
MacroError == [
    bindings |-> <<>>,
    frames |-> 2,
    programs |-> <<
        List(<<List(<<Sym("defmacro"), List(<<Sym("m")>>),
          List(<<Sym("car"), Num(1)>>)>>), List(<<Sym("define"), Sym("z"),
          Num(1)>>), List(<<Sym("m")>>)>>),
        List(<<Sym("z")>>),
        List(<<List(<<Sym("m")>>)>>)>>,
    outputs |-> <<Failed, Value(Num(1)), Failed>>]

\* process_defmacro: Macro with same name already exists.
\*   (defmacro (seven) 7)
\*   (defmacro (seven) 8)
\*   (seven)
MacroTwice == [
    bindings |-> <<>>,
    frames |-> 2,
    programs |-> <<
        List(<<List(<<Sym("defmacro"), List(<<Sym("seven")>>), Num(7)>>)>>),
        List(<<List(<<Sym("defmacro"), List(<<Sym("seven")>>), Num(8)>>)>>),
        List(<<List(<<Sym("seven")>>)>>)>>,
    outputs |-> <<Value(Nil), Failed, Value(Num(7))>>]

\* An error deep in calls, a let and a list.
\*   (define (f n) (if (<= n 0) (car n) (+ 1 (f (- n 1))))) (list 1 (let
\*   ((k 1)) (f k)))
\*   (f -1)
\*   (list 2)
NestedError == [
    bindings |-> <<"+", "-", "<=">>,
    frames |-> 3,
    programs |-> <<
        List(<<List(<<Sym("define"), List(<<Sym("f"), Sym("n")>>),
          List(<<Sym("if"), List(<<Sym("<="), Sym("n"), Num(0)>>),
          List(<<Sym("car"), Sym("n")>>), List(<<Sym("+"), Num(1),
          List(<<Sym("f"), List(<<Sym("-"), Sym("n"),
          Num(1)>>)>>)>>)>>)>>), List(<<Sym("list"), Num(1),
          List(<<Sym("let"), List(<<List(<<Sym("k"), Num(1)>>)>>),
          List(<<Sym("f"), Sym("k")>>)>>)>>)>>),
        List(<<List(<<Sym("f"), Num(-1)>>)>>),
        List(<<List(<<Sym("list"), Num(2)>>)>>)>>,
    outputs |-> <<Failed, Failed, Value(List(<<Num(2)>>))>>]

\* tests/test_lisp.sh:113, :114, :149, :155, :178, :179, :330, :334, :341: forms the compiler refuses.
\*   (let)
\*   (if t)
\*   (lambda 1 ())
\*   (define a 1 b 2)
\*   (set! 1 2)
\*   (defmacro (1) ())
\*   (set! (nthcdr 2) 1)
\*   (lambda (1) ())
\*   (quote)
\*   (setcar! '(1))
\*   (let (x) 1)
\*   (define 1 2)
\*   t
BadForms == [
    bindings |-> <<"nthcdr">>,
    frames |-> 1,
    programs |-> <<
        List(<<List(<<Sym("let")>>)>>),
        List(<<List(<<Sym("if"), T>>)>>),
        List(<<List(<<Sym("lambda"), Num(1), Nil>>)>>),
        List(<<List(<<Sym("define"), Sym("a"), Num(1), Sym("b"),
          Num(2)>>)>>),
        List(<<List(<<Sym("set!"), Num(1), Num(2)>>)>>),
        List(<<List(<<Sym("defmacro"), List(<<Num(1)>>), Nil>>)>>),
        List(<<List(<<Sym("set!"), List(<<Sym("nthcdr"), Num(2)>>),
          Num(1)>>)>>),
        List(<<List(<<Sym("lambda"), List(<<Num(1)>>), Nil>>)>>),
        List(<<List(<<Sym("quote")>>)>>),
        List(<<List(<<Sym("setcar!"), Quote(List(<<Num(1)>>))>>)>>),
        List(<<List(<<Sym("let"), List(<<Sym("x")>>), Num(1)>>)>>),
        List(<<List(<<Sym("define"), Num(1), Num(2)>>)>>),
        List(<<T>>)>>,
    outputs |-> <<Failed, Failed, Failed, Failed, Failed, Failed, Failed, Failed, Failed, Failed, Failed, Failed, Value(T)>>]

\* compile_let returns at the first binding that is no list: what is before it
\* has been compiled, what is after it has not, and so the macro m is not defined.
\*   (let ((x (defmacro (k) 1)) y (z (defmacro (m) 2))) x)
\*   (defmacro (m) 3)
\*   (defmacro (k) 4)
\*   (list (k) (m))
BadLet == [
    bindings |-> <<>>,
    frames |-> 2,
    programs |-> <<
        List(<<List(<<Sym("let"), List(<<List(<<Sym("x"),
          List(<<Sym("defmacro"), List(<<Sym("k")>>), Num(1)>>)>>), Sym("y"),
          List(<<Sym("z"), List(<<Sym("defmacro"), List(<<Sym("m")>>),
          Num(2)>>)>>)>>), Sym("x")>>)>>),
        List(<<List(<<Sym("defmacro"), List(<<Sym("m")>>), Num(3)>>)>>),
        List(<<List(<<Sym("defmacro"), List(<<Sym("k")>>), Num(4)>>)>>),
        List(<<List(<<Sym("list"), List(<<Sym("k")>>), List(<<Sym("m")>>)>>)>>)>>,
    outputs |-> <<Failed, Value(Nil), Failed, Value(List(<<Num(1), Num(3)>>))>>]

Errors == {
  BuiltinError, DynamicScope, FormError, TooFewArguments, NotCallable,
  MacroArguments, MacroError, MacroTwice, NestedError, BadForms, BadLet}

-----------------------------------------------------------------------------
(* Processes with a command line. *)

\* A script that runs one program.
\*   (print 'a 1) (print) (car '(2))
Printing == [
    bindings |-> <<"print">>,
    frames |-> 1,
    programs |-> <<
        List(<<List(<<Sym("print"), Quote(Sym("a")), Num(1)>>),
          List(<<Sym("print")>>), List(<<Sym("car"),
          Quote(List(<<Num(2)>>))>>)>>)>>,
    outputs |-> <<Value(Num(2))>>]

\* What it prints before it fails stays printed.
\*   (print 'b) (car 1)
PrintThenFail == [
    bindings |-> <<"print">>,
    frames |-> 1,
    programs |-> <<
        List(<<List(<<Sym("print"), Quote(Sym("b"))>>), List(<<Sym("car"),
          Num(1)>>)>>)>>,
    outputs |-> <<Failed>>]

Lines(s) == [printed |-> CASE s = Printing -> << <<Sym("a"), Num(1)>>, <<>> >>
                           [] s = PrintThenFail -> << <<Sym("b")>> >>,
             status |-> IF s = Printing THEN "EXIT_SUCCESS" ELSE "EXIT_FAILURE"]

\* The process of one program, with a file that can be read.
Process(s, args) == s @@ Lines(s) @@ [args |-> args, tty |-> TRUE, file |-> "text"]

\* A process that interprets nothing.
Nothing(args, file, exit) ==
    Printing @@ [args |-> args, tty |-> TRUE, file |-> file, printed |-> <<>>,
                 status |-> exit]

\* -e prints what the program gives; a file does not.
Evaluated == [Process(Printing, <<"-m", "-e", "text">>) EXCEPT
                !.printed = Append(@, <<Num(2)>>)]

\* Files are executed by the last argument that chooses a mode: --dump means
\* the file before it.
CommandLines == {
    Evaluated,
    Process(PrintThenFail, <<"-e", "text">>),
    Process(PrintThenFail, <<"-e", "other", "-e", "text">>),
    Process(Printing, <<"script">>),
    Process(Printing, <<"-v", "--dump", "script">>),
    Process(PrintThenFail, <<"-h", "script", "-m">>),
    Nothing(<<"script">>, "empty", "EXIT_FAILURE"),
    Nothing(<<"script">>, "missing", "EXIT_FAILURE"),
    Nothing(<<"script", "--dump">>, "text", "EXIT_SUCCESS"),
    Nothing(<<"--dump">>, "text", "EXIT_FAILURE"),
    Nothing(<<"script", "-v">>, "text", "EXIT_SUCCESS"),
    Nothing(<<"-e", "text", "-h">>, "text", "EXIT_SUCCESS"),
    Nothing(<<"script", "-e">>, "text", "EXIT_FAILURE"),
    Nothing(<<"-v", "-x">>, "text", "EXIT_FAILURE")}

\* A file that does not compile is dumped without an error.
DumpOfError ==
    [AtRepl(FormError) EXCEPT
        !.programs = SubSeq(@, 1, 1), !.outputs = SubSeq(@, 1, 1),
        !.args = <<"script", "--dump">>, !.file = "text",
        !.printed = <<>>, !.status = "EXIT_SUCCESS"]

\* A terminal whose user types nothing.
NoInput ==
    [bindings |-> <<>>, frames |-> 0, programs |-> <<>>, outputs |-> <<>>, args |-> <<>>, tty |-> TRUE,
     file |-> "missing", printed |-> <<>>, status |-> "EXIT_SUCCESS"]

-----------------------------------------------------------------------------
(* Programs that are made rather than chosen. *)

\* What the programs of a script mean.
Expected(s) == [i \in DOMAIN s.programs |->
             LET r == Meaning!Results(s.bindings, s.programs)[i] IN
             IF r = <<>> THEN Failed ELSE Value(r[1])]

\* Scripts that are in the part of the language the evaluator knows: it says
\* of them what the tests say.
ASSUME EvaluatorAgrees ==
    \A s \in {Closure, ClosureArgument, ClosureScope, RestArguments, OnlyRest,
              NestedLet, Sequence, Fib, TailList, Countdown, Repl, BuiltinError,
              DynamicScope, TooFewArguments, NotCallable, NestedError} :
        Expected(s) = s.outputs

\* An expression with another one, h, in a place of it.  y is the parameter of
\* f, and x a global variable.
Around(h) == {
    List(<<Sym("if"), Sym("y"), List(<<Sym("f"), Nil>>), h>>),
    List(<<Sym("if"), Sym("x"), h, Sym("y")>>),
    List(<<Sym("if"), h, Sym("x"), Num(2)>>),
    List(<<Sym("let"), List(<<List(<<Sym("x"), Sym("y")>>)>>), h>>),
    List(<<Sym("let"), List(<<List(<<Sym("x"), h>>)>>), Sym("x")>>),
    List(<<Sym("progn"), List(<<Sym("set!"), Sym("x"), h>>), Sym("x")>>),
    List(<<Sym("progn"), List(<<Sym("set!"), Sym("x"), Sym("y")>>), h>>),
    List(<<Sym("progn"), List(<<Sym("define"), Sym("x"), h>>), Sym("x")>>),
    List(<<Sym("progn"), h, Sym("x")>>),
    List(<<List(<<Sym("lambda"), List(<<Sym("x")>>), h>>), Sym("y")>>),
    List(<<Sym("list"), h, Sym("x")>>),
    List(<<Sym("cons"), Sym("x"), h>>),
    List(<<Sym("car"), h>>),
    List(<<Sym("lambda"), Nil, h>>),
    List(<<h>>)}

Atoms == {Sym("x"), Sym("y"), List(<<Sym("lambda"), Nil, Sym("x")>>)}

Nested(hs) == UNION {Around(h) : h \in hs}

\* Every if of three of these.
Parts == {Sym("x"), List(<<Sym("if"), Sym("y"), List(<<Sym("f"), Nil>>), Sym("x")>>),
          List(<<Sym("let"), List(<<List(<<Sym("x"), Sym("y")>>)>>), Sym("x")>>),
          List(<<Sym("progn"), List(<<Sym("set!"), Sym("x"), Sym("y")>>), Sym("y")>>),
          List(<<Sym("car"), Sym("y")>>)}
Conditionals == {List(<<Sym("if"), a, b, c>>) : a, b, c \in Parts}

Bodies == Nested(Nested(Atoms)) \cup Conditionals

\* (define x 1) (define (f y) body) (list (f 3) x), then x.
Made(body) ==
    LET s == [bindings |-> <<>>,
              frames |-> 7,
              programs |-> <<
                  List(<<List(<<Sym("define"), Sym("x"), Num(1)>>),
                    List(<<Sym("define"), List(<<Sym("f"), Sym("y")>>), body>>),
                    List(<<Sym("list"), List(<<Sym("f"), Num(3)>>), Sym("x")>>)>>),
                  List(<<Sym("x")>>)>>]
    IN  s @@ [outputs |-> Expected(s)]

Suite == {AtRepl(s) : s \in Programs \cup Errors}
         \cup CommandLines \cup {DumpOfError, NoInput}
         \cup {AtRepl(Made(body)) : body \in Bodies}

-----------------------------------------------------------------------------
\* A let that defines a variable twice.
\*   (let ((x 1) (x 2)) x)
LetTwice == [
    bindings |-> <<>>,
    frames |-> 1,
    programs |-> <<
        List(<<List(<<Sym("let"), List(<<List(<<Sym("x"), Num(1)>>),
          List(<<Sym("x"), Num(2)>>)>>), Sym("x")>>)>>)>>,
    outputs |-> <<Value(Num(2))>>]

\* What is set is not a cons.
\*   (setcdr! () 1)
SetNothing == [
    bindings |-> <<>>,
    frames |-> 1,
    programs |-> <<
        List(<<List(<<Sym("setcdr!"), Nil, Num(1)>>)>>)>>,
    outputs |-> <<Failed>>]

Redefinition == {AtRepl(LetTwice)}
Assertion == {AtRepl(SetNothing)}
Failure == {AtRepl(BuiltinError)}
=============================================================================
