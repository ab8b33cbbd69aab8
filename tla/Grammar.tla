------------------------------ MODULE Grammar -------------------------------
(***************************************************************************)
(* What hll_read_ast promises: the expressions a text stands for, by the   *)
(* rules                                                                   *)
(*     expr  ::=  number | symbol | ' expr | ( expr* )                     *)
(*              | ( expr expr* . expr )                                    *)
(* over the tokens of the text.                                            *)
(***************************************************************************)
EXTENDS Reader

\* All the tokens from p on, the one for EOF left out.
RECURSIVE TokensFrom(_)
TokensFrom(p) ==
    LET token == Tokens!TokenAt(text, p)
    IN IF token.kind = "EOF" THEN <<>>
       ELSE <<token>> \o TokensFrom(Tokens!EndOf(token))

Places(token) == token.offset .. (token.offset + token.length - 1)

\* The tokens that are refused.  strtoimax does not clear errno: a number is
\* refused when any number before it was, or when errno was ERANGE from the
\* start.
IsRefused(token) ==
    \/ token.kind = "UNEXPECTED"
    \/ token.kind = "SYMB" /\ \A i \in Places(token) : text[i] = "."
    \/ token.kind = "NUM" /\ \E i \in Places(token) : text[i] = Tokens!Huge
    \/ token.kind = "NUM" /\ erange

-----------------------------------------------------------------------------
Closing(ts, i, j) == {k \in i .. (j - 1) : ts[k].kind = "RPAREN"}
Dots(ts, i, j) == {d \in i .. (j - 1) : ts[d].kind = "DOT"}

\* The series of expressions that tokens i to j - 1 of ts are.
RECURSIVE Series(_, _, _)
Series(ts, i, j) ==
    CASE i = j -> {<<>>}
      [] i < j /\ ts[i].kind \in {"NUM", "SYMB"} ->
            {<<Atom(ts[i])>> \o xs : xs \in Series(ts, i + 1, j)}
      [] i < j /\ ts[i].kind = "QUOTE" ->
            {<<Quoted(Head(xs))>> \o Tail(xs) : xs \in Series(ts, i + 1, j) \ {<<>>}}
      [] i < j /\ ts[i].kind = "LPAREN" ->
            UNION {{<<List(xs)>> \o ys : xs \in Series(ts, i + 1, k),
                                        ys \in Series(ts, k + 1, j)}
                   : k \in Closing(ts, i, j)}
            \cup
            UNION {{<<DottedList(xs, Head(end))>> \o ys :
                        xs \in Series(ts, i + 1, d) \ {<<>>},
                        end \in {e \in Series(ts, d + 1, k) : Len(e) = 1},
                        ys \in Series(ts, k + 1, j)}
                   : d \in Dots(ts, i, j), k \in Closing(ts, i, j)}
      [] OTHER -> {}

\* A quote with nothing after it quotes the empty list.
RECURSIVE UnfinishedQuote(_)
UnfinishedQuote(n) == IF n = 0 THEN Nil ELSE Quoted(UnfinishedQuote(n - 1))

\* The lists of expressions a text is, at most one.
Readings ==
    LET ts == SelectSeq(TokensFrom(1), LAMBDA token : token.kind # "COMMENT")
        n == Len(ts)
    IN {List(xs) : xs \in Series(ts, 1, n + 1)} \cup
       UNION {{List(Append(xs, UnfinishedQuote(n - i + 1))) : xs \in Series(ts, 1, i)}
              : i \in {k \in 1 .. n : \A m \in k .. n : ts[m].kind = "QUOTE"}}

-----------------------------------------------------------------------------
(***************************************************************************)
(* hll_compile goes on to compile what was read if no error was counted.   *)
(* That is so exactly for the texts of the grammar all of whose tokens are *)
(* accepted, and what is compiled is what the text stands for: whatever    *)
(* the reader has stumbled on, it does not take the rest of the text for   *)
(* something else without saying so.                                       *)
(***************************************************************************)
ReadsGrammar ==
    pc = "done" =>
        LET refused == \E token \in ToSet(TokensFrom(1)) : IsRefused(token)
        IN IF refused \/ Readings = {} THEN error_count + reader_errors > 0
           ELSE error_count + reader_errors = 0 /\ Readings = {ret}

(***************************************************************************)
(* Whatever the text, hll_read_ast returns: after an error too every       *)
(* round of its loop takes a token off the text, or ends at EOF.           *)
(***************************************************************************)
ReadingEnds == <>(pc = "done")
=============================================================================
