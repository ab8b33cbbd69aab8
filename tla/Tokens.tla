------------------------------- MODULE Tokens -------------------------------
(***************************************************************************)
(* What hll_lexer_next promises: the tokens a text is made of, without a   *)
(* word on how they are found.  A text is a sequence of characters and     *)
(* ends in the NUL of its C string, at Len(text) + 1.  Positions count     *)
(* from 1.                                                                 *)
(***************************************************************************)
EXTENDS Integers, Sequences

CONSTANT Texts      \* the texts there may be to read

\* hll_lexer_equivalence_class
Classes == {"OTHER", "NUMBER", "LPAREN", "RPAREN", "QUOTE", "DOT", "SIGNS",
            "SYMB", "EOF", "SPACE", "NEWLINE", "COMMENT"}

\* A string of digits that does not fit in 64 bits; the lexer sees a digit.
Huge == "99"

\* get_equivalence_class; "nl" is the newline, "ch" any letter but t.
Class(c) == CASE c = "("  -> "LPAREN"
              [] c = ")"  -> "RPAREN"
              [] c = "'"  -> "QUOTE"
              [] c = "."  -> "DOT"
              [] c = ";"  -> "COMMENT"
              [] c = " "  -> "SPACE"
              [] c = "nl" -> "NEWLINE"
              [] c = "-"  -> "SIGNS"
              [] c \in {"1", Huge} -> "NUMBER"
              [] c \in {"t", "ch"} -> "SYMB"
              [] OTHER    -> "OTHER"

ClassAt(t, i) == IF i \in 1 .. Len(t) THEN Class(t[i]) ELSE "EOF"

-----------------------------------------------------------------------------
Blanks == {"SPACE", "NEWLINE"}
Word == {"NUMBER", "SIGNS", "DOT", "SYMB"}
Alone == {"LPAREN", "RPAREN", "QUOTE"}

\* The classes a token that begins with the given class goes on with.
Body(class) == CASE class = "COMMENT" -> Classes \ {"EOF", "NEWLINE"}
                 [] class = "OTHER"   -> {"OTHER"}
                 [] class \in Word    -> Word
                 [] OTHER             -> {}

AllIn(t, from, to, S) == \A i \in from .. (to - 1) : ClassAt(t, i) \in S

\* Where a stretch of characters in S that begins at p is over.
IsEnd(t, p, S, q) == AllIn(t, p, q, S) /\ ClassAt(t, q) \notin S
EndOfRun(t, p, S) == CHOOSE q \in p .. (Len(t) + 1) : IsEnd(t, p, S, q)

\* A sign or none, and digits.
IsNumber(t, a, b) ==
    \E d \in {a, a + 1} : /\ d < b
                          /\ d = a + 1 => ClassAt(t, a) = "SIGNS"
                          /\ AllIn(t, d, b, {"NUMBER"})

WordKind(t, a, b) ==
    IF IsNumber(t, a, b) THEN "NUM"
    ELSE IF b = a + 1 /\ ClassAt(t, a) = "DOT" THEN "DOT"
    ELSE "SYMB"

Kind(t, a, b) ==
    CASE ClassAt(t, a) \in Alone \cup {"EOF", "COMMENT"} -> ClassAt(t, a)
      [] ClassAt(t, a) = "OTHER" -> "UNEXPECTED"
      [] OTHER -> WordKind(t, a, b)

\* hll_token
Token(kind, a, b) == [kind |-> kind, offset |-> a, length |-> b - a]
NoToken == Token("NONE", 1, 1)

TokenOf(t, a, b) == Token(Kind(t, a, b), a, b)

\* The token that begins at a.
TokenFrom(t, a) ==
    TokenOf(t, a, IF ClassAt(t, a) \in Alone THEN a + 1
                  ELSE EndOfRun(t, a, Body(ClassAt(t, a))))

\* The first token at or after p.
TokenAt(t, p) == TokenFrom(t, EndOfRun(t, p, Blanks))

EndOf(token) == token.offset + token.length

-----------------------------------------------------------------------------
VARIABLES
    text,
    cursor,         \* where the next token is looked for
    next            \* the last token

vars == <<text, cursor, next>>

Init == /\ text \in Texts
        /\ cursor = 1
        /\ next = NoToken

NextToken == /\ next' = TokenAt(text, cursor)
             /\ cursor' = EndOf(next')
             /\ UNCHANGED text

Spec == Init /\ [][NextToken]_vars
=============================================================================
