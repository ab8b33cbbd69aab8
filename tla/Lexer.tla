-------------------------------- MODULE Lexer --------------------------------
(***************************************************************************)
(* The lexer of hll_compiler.c: an automaton over classes of characters.   *)
(* hll_lexer_next runs it from the cursor on until it is in a final state; *)
(* a step here is one round of that loop.                                  *)
(***************************************************************************)
EXTENDS Integers, Sequences

CONSTANT Texts      \* the texts there may be to read

ASSUME TextsAssumption == Texts \subseteq Seq(STRING)

VARIABLES
    text,           \* lexer->input
    cursor,         \* lexer->cursor
    next,           \* lexer->next
    error_count,    \* lexer->error_count
    erange,         \* errno = ERANGE, whoever has set it
    state,          \* of the automaton; "IDLE" when hll_lexer_next is not running
    at,             \* the local cursor of hll_lexer_next
    token_start

Tokens == INSTANCE Tokens
ClassAt(t, i) == Tokens!ClassAt(t, i)
Token(kind, a, b) == Tokens!Token(kind, a, b)
NoToken == Tokens!NoToken

vars == <<text, cursor, next, error_count, erange, state, at, token_start>>

\* hll_lexer_state
Running == {"START", "COMMENT", "NUMBER", "SEEN_SIGN", "DOTS", "SYMB", "UNEXPECTED"}
Final == {"FIN_LPAREN", "FIN_RPAREN", "FIN_QUOTE", "FIN_NUMBER", "FIN_DOTS",
          "FIN_SYMB", "FIN_EOF", "FIN_UNEXPECTED", "FIN_COMMENT"}

-----------------------------------------------------------------------------
(* get_next_state, one operator per state. *)

FromStart(class) ==
    CASE class \in {"SPACE", "NEWLINE"} -> "START"
      [] class = "OTHER"   -> "UNEXPECTED"
      [] class = "NUMBER"  -> "NUMBER"
      [] class = "LPAREN"  -> "FIN_LPAREN"
      [] class = "RPAREN"  -> "FIN_RPAREN"
      [] class = "QUOTE"   -> "FIN_QUOTE"
      [] class = "DOT"     -> "DOTS"
      [] class = "SYMB"    -> "SYMB"
      [] class = "EOF"     -> "FIN_EOF"
      [] class = "SIGNS"   -> "SEEN_SIGN"
      [] class = "COMMENT" -> "COMMENT"

\* Mutant: only a newline ends a comment.
FromCommentNoEof(class) == IF class = "NEWLINE" THEN "FIN_COMMENT" ELSE "COMMENT"

FromComment(class) ==
    IF class \in {"EOF", "NEWLINE"} THEN "FIN_COMMENT" ELSE "COMMENT"

FromSign(class) ==
    CASE class = "NUMBER" -> "NUMBER"
      [] class \in {"SIGNS", "DOT", "SYMB"} -> "SYMB"
      [] OTHER -> "FIN_SYMB"

FromNumber(class) ==
    CASE class = "NUMBER" -> "NUMBER"
      [] class \in {"SIGNS", "DOT", "SYMB"} -> "SYMB"
      [] OTHER -> "FIN_NUMBER"

FromDots(class) ==
    CASE class = "DOT" -> "DOTS"
      [] class \in {"SIGNS", "NUMBER", "SYMB"} -> "SYMB"
      [] OTHER -> "FIN_DOTS"

\* Mutant: a sign within a symbol ends it.
FromSymbolNoSign(class) ==
    IF class \in {"NUMBER", "DOT", "SYMB"} THEN "SYMB" ELSE "FIN_SYMB"

FromSymbol(class) ==
    IF class \in {"SIGNS", "NUMBER", "DOT", "SYMB"} THEN "SYMB" ELSE "FIN_SYMB"

FromUnexpected(class) == IF class = "OTHER" THEN "UNEXPECTED" ELSE "FIN_UNEXPECTED"

get_next_state(s, class) ==
    CASE s = "START"      -> FromStart(class)
      [] s = "COMMENT"    -> FromComment(class)
      [] s = "SEEN_SIGN"  -> FromSign(class)
      [] s = "NUMBER"     -> FromNumber(class)
      [] s = "DOTS"       -> FromDots(class)
      [] s = "SYMB"       -> FromSymbol(class)
      [] s = "UNEXPECTED" -> FromUnexpected(class)

\* The kind of the token a final state gives.
KindOf(s, length) ==
    CASE s = "FIN_LPAREN" -> "LPAREN"
      [] s = "FIN_RPAREN" -> "RPAREN"
      [] s = "FIN_QUOTE"  -> "QUOTE"
      [] s = "FIN_NUMBER" -> "NUM"
      [] s = "FIN_DOTS"   -> IF length = 1 THEN "DOT" ELSE "SYMB"
      [] s = "FIN_SYMB"   -> "SYMB"
      [] s = "FIN_EOF"    -> "EOF"
      [] s = "FIN_COMMENT"    -> "COMMENT"
      [] s = "FIN_UNEXPECTED" -> "UNEXPECTED"

\* strtoimax on the literal: the last character of the text it looks at is
\* the one before b.
OutOfRange(a, b) == \E i \in a .. (b - 1) : text[i] = Tokens!Huge

-----------------------------------------------------------------------------
\* hll_lexer_init.  What ran before in this process may have left ERANGE in
\* errno.
Init == /\ text \in Texts
        /\ cursor = 1
        /\ next = NoToken
        /\ error_count = 0
        /\ erange \in BOOLEAN
        /\ state = "IDLE" /\ at = 1 /\ token_start = 1

\* hll_lexer_next is called.
Begin == /\ state = "IDLE"
         /\ state' = "START"
         /\ at' = cursor
         /\ token_start' = cursor
         /\ UNCHANGED <<text, cursor, next, error_count, erange>>

\* One character.
Scan == /\ state \in Running
        /\ state' = get_next_state(state, ClassAt(text, at))
        /\ at' = at + 1
        /\ token_start' = IF state' = "START" THEN token_start + 1 ELSE token_start
        /\ UNCHANGED <<text, cursor, next, error_count, erange>>

\* Mutant: the character after a number is taken with it.
TokenEndOfNumber == IF state \in {"FIN_LPAREN", "FIN_RPAREN", "FIN_QUOTE", "FIN_NUMBER"}
                    THEN at ELSE at - 1

\* Where the token ends: the automaton has looked at one character more than
\* the token has, unless it is a parenthesis or a quote.
TokenEnd == IF state \in {"FIN_LPAREN", "FIN_RPAREN", "FIN_QUOTE"} THEN at ELSE at - 1

\* Mutant: errno is cleared before strtoimax.
RangeErrnoCleared == state = "FIN_NUMBER" /\ OutOfRange(token_start, TokenEnd)

\* errno = ERANGE when it is looked at: strtoimax only ever sets it.
RangeErrno == erange \/ (state = "FIN_NUMBER" /\ OutOfRange(token_start, TokenEnd))

Failed == \/ state = "FIN_DOTS" /\ TokenEnd - token_start # 1
          \/ state = "FIN_NUMBER" /\ RangeErrno

\* The automaton is in a final state.
Finish == /\ state \in Final
          /\ next' = Token(KindOf(state, TokenEnd - token_start), token_start, TokenEnd)
          /\ cursor' = TokenEnd
          /\ erange' = RangeErrno
          /\ error_count' = IF Failed THEN error_count + 1 ELSE error_count
          /\ state' = "IDLE"
          /\ UNCHANGED <<text, at, token_start>>

Next == Begin \/ Scan \/ Finish

Spec == Init /\ [][Next]_vars

-----------------------------------------------------------------------------
(***************************************************************************)
(* The lexer looks at no character past the NUL that ends the text,        *)
(* whatever the text: in every state of the automaton that character ends  *)
(* the token, and it is given back.                                        *)
(***************************************************************************)
StaysInText == /\ state \in Running => at <= Len(text) + 1
               /\ cursor <= Len(text) + 1

(***************************************************************************)
(* hll_lexer_next finds the tokens of the grammar in module Tokens.        *)
(***************************************************************************)
FindsTokens == Tokens!Spec

(***************************************************************************)
(* hll_compiler.h, on hll_lexer_next: "If EOF is reached, EOF token is     *)
(* guaranteed to always be returned after that."                           *)
(***************************************************************************)
EofStays == [][next.kind = "EOF" => next'.kind = "EOF"]_vars
=============================================================================
