---------------------------- MODULE Lexer_proofs ----------------------------
(***************************************************************************)
(* Proofs about the lexer, for every set of texts.                         *)
(***************************************************************************)
EXTENDS Lexer, TLAPS

Body(class) == Tokens!Body(class)
AllIn(from, to, S) == Tokens!AllIn(text, from, to, S)
First == ClassAt(text, token_start)

LexerTypeOK ==
    /\ text \in Seq(STRING)
    /\ cursor \in 1 .. (Len(text) + 1)
    /\ state \in Running \cup Final \cup {"IDLE"}
    /\ at \in Nat /\ token_start \in Nat

\* A stretch that no more characters turn into a number or into one dot.
SurelySymbol(a, b) ==
    /\ \/ ClassAt(text, a) \notin {"NUMBER", "SIGNS"}
       \/ \E i \in (a + 1) .. (b - 1) : ClassAt(text, i) # "NUMBER"
    /\ ClassAt(text, a) = "DOT" => b > a + 1

\* What the automaton knows of the characters from token_start to at - 1.
Shape ==
    /\ state = "START"      => at = token_start
    /\ state = "COMMENT"    => First = "COMMENT"
    /\ state = "SEEN_SIGN"  => First = "SIGNS" /\ at = token_start + 1
    /\ state = "NUMBER"     => Tokens!IsNumber(text, token_start, at)
    /\ state = "DOTS"       => AllIn(token_start, at, {"DOT"})
    /\ state = "SYMB"       => SurelySymbol(token_start, at)
    /\ state = "UNEXPECTED" => First = "OTHER"
    /\ state \in {"SEEN_SIGN", "NUMBER", "DOTS", "SYMB"} => First \in Tokens!Word
    /\ state \in Running \ {"START"} =>
          token_start < at /\ AllIn(token_start, at, Body(First))

\* What it has found when it is in a final state.
Found ==
    /\ TokenEnd \in token_start .. (Len(text) + 1)
    /\ First \notin Tokens!Blanks
    /\ IF First \in Tokens!Alone THEN TokenEnd = token_start + 1
       ELSE Tokens!IsEnd(text, token_start, Body(First), TokenEnd)
    /\ KindOf(state, TokenEnd - token_start) = Tokens!Kind(text, token_start, TokenEnd)

Running_Inv ==
    state \in Running =>
        /\ cursor <= token_start /\ token_start <= at /\ at <= Len(text) + 1
        /\ AllIn(cursor, token_start, Tokens!Blanks)
        /\ Shape

Final_Inv ==
    state \in Final => /\ cursor <= token_start
                       /\ AllIn(cursor, token_start, Tokens!Blanks)
                       /\ Found

\* After EOF the cursor stays where it is.
Eof_Inv == next.kind = "EOF" => cursor = Len(text) + 1

IInv == LexerTypeOK /\ Running_Inv /\ Final_Inv /\ Eof_Inv

-----------------------------------------------------------------------------
(***************************************************************************)
(* Every character has a class, and only the NUL has the class EOF.        *)
(***************************************************************************)
LEMMA ClassType ==
    ASSUME NEW t, NEW i
    PROVE  /\ ClassAt(t, i) \in Tokens!Classes
           /\ ClassAt(t, i) = "EOF" <=> i \notin 1 .. Len(t)
<1>1. \A c : Tokens!Class(c) \in Tokens!Classes \ {"EOF"}
  BY DEF Tokens!Class, Tokens!Classes
<1>2. QED
  BY <1>1 DEF ClassAt, Tokens!ClassAt, Tokens!Classes

(***************************************************************************)
(* A stretch of characters in S grows by one more of them.                 *)
(***************************************************************************)
LEMMA AllInGrows ==
    ASSUME NEW t, NEW a \in Nat, NEW b \in Nat, NEW S,
           Tokens!AllIn(t, a, b, S), ClassAt(t, b) \in S
    PROVE  Tokens!AllIn(t, a, b + 1, S)
<1> SUFFICES ASSUME NEW i \in a .. ((b + 1) - 1) PROVE Tokens!ClassAt(t, i) \in S
  BY DEF Tokens!AllIn
<1>1. CASE i = b
  BY <1>1 DEF ClassAt
<1>2. CASE i # b
  BY <1>2 DEF Tokens!AllIn
<1>3. QED
  BY <1>1, <1>2

(***************************************************************************)
(* A stretch ends at one place only: EndOfRun is determined.               *)
(***************************************************************************)
LEMMA EndIsUnique ==
    ASSUME NEW t \in Seq(STRING), NEW p \in Nat, NEW S,
           NEW q \in p .. (Len(t) + 1), Tokens!IsEnd(t, p, S, q)
    PROVE  Tokens!EndOfRun(t, p, S) = q
<1> DEFINE r == Tokens!EndOfRun(t, p, S)
<1>1. r \in p .. (Len(t) + 1) /\ Tokens!IsEnd(t, p, S, r)
  BY DEF Tokens!EndOfRun
<1>2. ~(r < q)
  BY <1>1 DEF Tokens!IsEnd, Tokens!AllIn
<1>3. ~(q < r)
  BY <1>1 DEF Tokens!IsEnd, Tokens!AllIn
<1>4. Len(t) \in Nat
  OBVIOUS
<1>5. QED
  BY <1>1, <1>2, <1>3, <1>4

-----------------------------------------------------------------------------
LEMMA InitIInv == Init => IInv
<1> SUFFICES ASSUME Init PROVE IInv
  OBVIOUS
<1>1. LexerTypeOK
  BY TextsAssumption DEF Init, LexerTypeOK
<1>2. Running_Inv /\ Final_Inv /\ Eof_Inv
  BY DEF Init, Running_Inv, Final_Inv, Eof_Inv, Running, Final, NoToken, Tokens!NoToken,
         Tokens!Token
<1>3. QED
  BY <1>1, <1>2 DEF IInv

LEMMA BeginIInv == IInv /\ Begin => IInv'
<1> SUFFICES ASSUME IInv, Begin PROVE IInv'
  OBVIOUS
<1>1. LexerTypeOK'
  BY DEF IInv, LexerTypeOK, Begin, Running
<1>2. Running_Inv'
  <2>1. AllIn(cursor, token_start, Tokens!Blanks)'
    BY DEF Begin, AllIn, Tokens!AllIn, IInv, LexerTypeOK
  <2>2. Shape'
    BY DEF Begin, Shape, Running
  <2>3. QED
    BY <2>1, <2>2 DEF Begin, Running_Inv, IInv, LexerTypeOK
<1>3. Final_Inv' /\ Eof_Inv'
  BY DEF Begin, Final_Inv, Final, IInv, Eof_Inv
<1>4. QED
  BY <1>1, <1>2, <1>3 DEF IInv

-----------------------------------------------------------------------------
(* One character, in each state of the automaton. *)

LEMMA ScanStart ==
    ASSUME IInv, Scan, state = "START"
    PROVE  Running_Inv' /\ Final_Inv'
<1>0. PICK c : c = ClassAt(text, at)
  OBVIOUS
<1>1. /\ at = token_start /\ at \in Nat /\ at <= Len(text) + 1 /\ cursor <= token_start
      /\ cursor \in Nat /\ at >= 1 /\ AllIn(cursor, token_start, Tokens!Blanks)
      /\ Len(text) \in Nat
  BY DEF IInv, Running_Inv, Shape, LexerTypeOK, Running
<1>2. c \in Tokens!Classes /\ (c = "EOF" <=> at = Len(text) + 1)
  BY <1>0, <1>1, ClassType
<1>3. at' = at + 1 /\ text' = text /\ cursor' = cursor /\ state' = FromStart(c)
  BY <1>0 DEF Scan, get_next_state
<1>4. token_start' = IF state' = "START" THEN token_start + 1 ELSE token_start
  BY DEF Scan
<1>5. CASE c \in Tokens!Blanks
  <2>1. state' = "START"
    BY <1>3, <1>5 DEF FromStart, Tokens!Blanks
  <2>2. Tokens!AllIn(text, cursor, token_start + 1, Tokens!Blanks)
    BY <1>0, <1>1, <1>5, AllInGrows DEF AllIn
  <2>3. at <= Len(text)
    BY <1>1, <1>2, <1>5 DEF Tokens!Blanks
  <2>4. Running_Inv'
    BY <1>1, <1>3, <1>4, <2>1, <2>2, <2>3 DEF Running_Inv, Shape, AllIn, Running
  <2>5. Final_Inv'
    BY <2>1 DEF Final_Inv, Final
  <2>6. QED
    BY <2>4, <2>5
<1>6. CASE c \notin Tokens!Blanks
  <2>1. state' # "START" /\ token_start' = at
    BY <1>1, <1>2, <1>3, <1>4, <1>6 DEF FromStart, Tokens!Blanks, Tokens!Classes
  <2>2. AllIn(cursor, token_start, Tokens!Blanks)'
    BY <1>1, <1>3, <2>1 DEF AllIn
  <2>3. First' = c
    BY <1>0, <1>3, <2>1 DEF First, ClassAt
  <2>4. CASE c \in {"COMMENT", "NUMBER", "DOT", "SYMB", "SIGNS", "OTHER"}
    <3>1. at' <= Len(text) + 1 /\ state' \in Running
      BY <1>1, <1>2, <1>3, <2>4 DEF FromStart, Running
    <3>2. AllIn(token_start, at, Body(First))'
      BY <1>1, <1>3, <2>1, <2>3, <2>4
      DEF AllIn, Tokens!AllIn, First, ClassAt, Body, Tokens!Body, Tokens!Word, Tokens!Classes
    <3>3. state' = "NUMBER" => Tokens!IsNumber(text, token_start, at)'
      BY <1>1, <1>3, <2>1, <2>3, <2>4
      DEF Tokens!IsNumber, Tokens!AllIn, First, ClassAt, FromStart
    <3>4. state' = "DOTS" => AllIn(token_start, at, {"DOT"})'
      BY <1>1, <1>3, <2>1, <2>3, <2>4 DEF AllIn, Tokens!AllIn, First, ClassAt, FromStart
    <3>5. state' = "SYMB" => SurelySymbol(token_start, at)'
      BY <1>3, <2>3, <2>4 DEF SurelySymbol, First, FromStart
    <3>11. (state = "COMMENT" => First = "COMMENT")'
      BY <1>3, <2>3, <2>4 DEF FromStart
    <3>12. (state = "SEEN_SIGN"  => First = "SIGNS" /\ at = token_start + 1)'
      BY <1>1, <1>3, <2>1, <2>3, <2>4 DEF FromStart
    <3>13. (state = "UNEXPECTED" => First = "OTHER")'
      BY <1>1, <1>3, <2>1, <2>3, <2>4 DEF FromStart
    <3>14. (state \in {"SEEN_SIGN", "NUMBER", "DOTS", "SYMB"} => First \in Tokens!Word)'
      BY <1>1, <1>3, <2>1, <2>3, <2>4 DEF FromStart, Tokens!Word
    <3>15. (token_start < at)'
      BY <1>1, <1>3, <2>1, <2>3, <2>4 DEF FromStart, Tokens!Word
    <3>6. Shape'
      BY <2>1, <3>2, <3>3, <3>4, <3>5, <3>11, <3>12, <3>13, <3>14, <3>15
      DEF Shape
    <3>7. Running_Inv'
      BY <1>1, <1>3, <2>1, <2>2, <3>1, <3>6 DEF Running_Inv
    <3>8. QED
      BY <3>1, <3>7 DEF Final_Inv, Running, Final
  <2>5. CASE c \in {"LPAREN", "RPAREN", "QUOTE", "EOF"}
    <3>1. state' \in {"FIN_LPAREN", "FIN_RPAREN", "FIN_QUOTE", "FIN_EOF"}
      BY <1>3, <2>5 DEF FromStart
    <3>2. TokenEnd' = IF c = "EOF" THEN at ELSE at + 1
      BY <1>1, <1>3, <2>5 DEF TokenEnd, FromStart
    <3>3. KindOf(state', TokenEnd' - token_start') = c
      BY <1>3, <2>5 DEF KindOf, FromStart
    <3>4. Tokens!Kind(text, token_start, TokenEnd)' = c
      BY <2>3, <2>5 DEF Tokens!Kind, Tokens!Alone, First, ClassAt
    <3>5. c = "EOF" => Tokens!IsEnd(text, token_start, Body(First), TokenEnd)'
      BY <1>1, <1>3, <2>1, <2>3, <3>2
      DEF Tokens!IsEnd, Tokens!AllIn, Body, Tokens!Body, Tokens!Word, First, ClassAt
    <3>6. TokenEnd' \in token_start' .. (Len(text') + 1)
      BY <1>1, <1>2, <1>3, <2>1, <3>2
    <3>7. First' \in Tokens!Alone <=> c # "EOF"
      BY <2>3, <2>5 DEF Tokens!Alone
    <3>8. Found'
      BY <1>1, <1>6, <2>1, <2>3, <3>2, <3>3, <3>4, <3>5, <3>6, <3>7 DEF Found
    <3>9. QED
      BY <1>1, <1>3, <2>1, <2>2, <3>1, <3>8 DEF Running_Inv, Final_Inv, Running
  <2>6. QED
    BY <1>2, <1>6, <2>4, <2>5 DEF Tokens!Classes, Tokens!Blanks
<1>7. QED
  BY <1>5, <1>6

LEMMA BodyOf ==
    /\ Body("COMMENT") = Tokens!Classes \ {"EOF", "NEWLINE"}
    /\ Body("OTHER") = {"OTHER"}
    /\ \A class \in Tokens!Word : Body(class) = Tokens!Word
  BY DEF Body, Tokens!Body, Tokens!Word

\* What a character after the first one leaves as it is.
Same == /\ text' = text /\ cursor' = cursor /\ token_start' = token_start
        /\ at' = at + 1
        /\ First' = First
        /\ AllIn(cursor, token_start, Tokens!Blanks)'

\* Where the automaton is within a token.
Within == /\ cursor \in Nat /\ token_start \in Nat /\ at \in Nat /\ Len(text) \in Nat
          /\ 1 <= cursor /\ cursor <= token_start /\ token_start < at
          /\ at <= Len(text) + 1
          /\ AllIn(token_start, at, Body(First))
          /\ ClassAt(text, at) \in Tokens!Classes
          /\ ClassAt(text, at) = "EOF" <=> at = Len(text) + 1

LEMMA ScanWithin ==
    ASSUME IInv, Scan, state \in Running \ {"START"}
    PROVE  Within /\ Same
<1>1. /\ cursor \in Nat /\ token_start \in Nat /\ at \in Nat /\ Len(text) \in Nat
      /\ 1 <= cursor /\ cursor <= token_start /\ token_start < at
      /\ at <= Len(text) + 1
      /\ AllIn(token_start, at, Body(First))
      /\ AllIn(cursor, token_start, Tokens!Blanks)
  BY DEF IInv, Running_Inv, Shape, LexerTypeOK
<1>2. Within
  BY <1>1, ClassType DEF Within
<1>3. state' # "START"
  BY DEF Scan, Running, get_next_state, FromComment, FromSign, FromNumber, FromDots,
         FromSymbol, FromUnexpected
<1>4. Same
  BY <1>1, <1>3 DEF Scan, Same, First, ClassAt, AllIn
<1>5. QED
  BY <1>2, <1>4

(***************************************************************************)
(* A character of the body keeps the automaton within the text.            *)
(***************************************************************************)
LEMMA GoesOn ==
    ASSUME Within, Same, ClassAt(text, at) \in Body(First),
           First \in Tokens!Word \cup {"COMMENT", "OTHER"}
    PROVE  at' <= Len(text') + 1 /\ (token_start < at)' /\ AllIn(token_start, at, Body(First))'
<1>1. ClassAt(text, at) # "EOF"
  BY DEF Body, Tokens!Body, Tokens!Word, Tokens!Classes
<1>2. Tokens!AllIn(text, token_start, at + 1, Body(First))
  BY AllInGrows DEF Within, AllIn
<1>3. QED
  BY <1>1, <1>2 DEF Within, Same, AllIn

(***************************************************************************)
(* Any other character ends the token before it.                           *)
(***************************************************************************)
LEMMA Stops ==
    ASSUME Within, Same, ClassAt(text, at) \notin Body(First),
           First \in Tokens!Word \cup {"COMMENT", "OTHER"},
           (TokenEnd = at - 1)',
           KindOf(state', TokenEnd' - token_start') = Tokens!Kind(text, token_start, TokenEnd)'
    PROVE  Found'
<1>1. TokenEnd' = at
  BY DEF Within, Same
<1>2. Tokens!IsEnd(text, token_start, Body(First), at)
  BY DEF Within, AllIn, Tokens!IsEnd, ClassAt
<1>3. First \notin Tokens!Alone \cup Tokens!Blanks
  BY DEF Tokens!Alone, Tokens!Blanks, Tokens!Word
<1>4. QED
  BY <1>1, <1>2, <1>3 DEF Found, Within, Same

(***************************************************************************)
(* The two ends of a step within a token: the automaton is running still,  *)
(* or it is in a final state that gives the last character back.           *)
(***************************************************************************)
LEMMA RunsOn ==
    ASSUME Within, Same, ClassAt(text, at) \in Body(First),
           First \in Tokens!Word \cup {"COMMENT", "OTHER"},
           state' \in Running, Shape'
    PROVE  Running_Inv' /\ Final_Inv'
<1>1. Final_Inv'
  BY DEF Final_Inv, Running, Final
<1>2. Running_Inv'
  BY GoesOn DEF Running_Inv, Within, Same
<1>3. QED
  BY <1>1, <1>2

LEMMA IsOver ==
    ASSUME Within, Same, ClassAt(text, at) \notin Body(First),
           First \in Tokens!Word \cup {"COMMENT", "OTHER"},
           state' \in Final \ {"FIN_LPAREN", "FIN_RPAREN", "FIN_QUOTE"},
           KindOf(state', at - token_start) = Tokens!Kind(text, token_start, at)
    PROVE  Running_Inv' /\ Final_Inv'
<1>1. (TokenEnd = at - 1)' /\ TokenEnd' = at
  BY DEF TokenEnd, Within, Same
<1>2. KindOf(state', TokenEnd' - token_start') = Tokens!Kind(text, token_start, TokenEnd)'
  BY <1>1 DEF Same
<1>3. Found'
  BY <1>1, <1>2, Stops
<1>4. QED
  BY <1>3 DEF Running_Inv, Final_Inv, Running, Final, Within, Same

LEMMA ScanComment ==
    ASSUME IInv, Scan, state = "COMMENT"
    PROVE  Running_Inv' /\ Final_Inv'
<1>1. Within /\ Same
  BY ScanWithin DEF Running
<1>0. First = "COMMENT"
  BY DEF IInv, Running_Inv, Shape, Running
<1>2. First = "COMMENT" /\ Body(First) = Tokens!Classes \ {"EOF", "NEWLINE"}
  BY <1>0, BodyOf
<1>3. state' = FromComment(ClassAt(text, at))
  BY DEF Scan, get_next_state
<1>4. CASE ClassAt(text, at) \in Body(First)
  <2>1. state' = "COMMENT"
    BY <1>2, <1>3, <1>4 DEF FromComment
  <2>2. Shape'
    BY <1>1, <1>2, <1>4, <2>1, GoesOn DEF Shape, Same
  <2>3. QED
    BY <1>1, <1>2, <1>4, <2>1, <2>2, RunsOn DEF Running
<1>5. CASE ClassAt(text, at) \notin Body(First)
  <2>1. state' = "FIN_COMMENT"
    BY <1>1, <1>2, <1>3, <1>5 DEF FromComment, Within
  <2>2. Tokens!Kind(text, token_start, at) = "COMMENT"
    BY <1>2 DEF Tokens!Kind, First, ClassAt, Tokens!Alone
  <2>3. KindOf(state', at - token_start) = "COMMENT"
    BY <2>1 DEF KindOf
  <2>4. QED
    BY <1>1, <1>2, <1>5, <2>1, <2>2, <2>3, IsOver DEF Final
<1>6. QED
  BY <1>4, <1>5

LEMMA ScanUnexpected ==
    ASSUME IInv, Scan, state = "UNEXPECTED"
    PROVE  Running_Inv' /\ Final_Inv'
<1>1. Within /\ Same
  BY ScanWithin DEF Running
<1>0. First = "OTHER"
  BY DEF IInv, Running_Inv, Shape, Running
<1>2. First = "OTHER" /\ Body(First) = {"OTHER"}
  BY <1>0, BodyOf
<1>3. state' = FromUnexpected(ClassAt(text, at))
  BY DEF Scan, get_next_state
<1>4. CASE ClassAt(text, at) \in Body(First)
  <2>1. state' = "UNEXPECTED"
    BY <1>2, <1>3, <1>4 DEF FromUnexpected
  <2>2. Shape'
    BY <1>1, <1>2, <1>4, <2>1, GoesOn DEF Shape, Same
  <2>3. QED
    BY <1>1, <1>2, <1>4, <2>1, <2>2, RunsOn DEF Running
<1>5. CASE ClassAt(text, at) \notin Body(First)
  <2>1. state' = "FIN_UNEXPECTED"
    BY <1>2, <1>3, <1>5 DEF FromUnexpected
  <2>2. Tokens!Kind(text, token_start, at) = "UNEXPECTED"
    BY <1>2 DEF Tokens!Kind, First, ClassAt, Tokens!Alone
  <2>3. KindOf(state', at - token_start) = "UNEXPECTED"
    BY <2>1 DEF KindOf
  <2>4. QED
    BY <1>1, <1>2, <1>5, <2>1, <2>2, <2>3, IsOver DEF Final
<1>6. QED
  BY <1>4, <1>5


LEMMA ScanSign ==
    ASSUME IInv, Scan, state = "SEEN_SIGN"
    PROVE  Running_Inv' /\ Final_Inv'
<1>1. Within /\ Same
  BY ScanWithin DEF Running
<1>2. First = "SIGNS" /\ at = token_start + 1
  BY DEF IInv, Running_Inv, Shape, Running
<1>3. Body(First) = Tokens!Word
  BY <1>2, BodyOf DEF Tokens!Word
<1>4. state' = FromSign(ClassAt(text, at))
  BY DEF Scan, get_next_state
<1>5. CASE ClassAt(text, at) \in Tokens!Word
  <2>1. state' = IF ClassAt(text, at) = "NUMBER" THEN "NUMBER" ELSE "SYMB"
    BY <1>4, <1>5 DEF FromSign, Tokens!Word
  <2>2. state' = "NUMBER" => Tokens!IsNumber(text, token_start, at + 1)
    BY <1>1, <1>2, <2>1 DEF Tokens!IsNumber, Tokens!AllIn, Within, First, ClassAt
  <2>3. state' = "SYMB" => SurelySymbol(token_start, at)'
    <3>1. state' = "SYMB" => ClassAt(text, token_start + 1) # "NUMBER"
      BY <1>2, <2>1
    <3>2. ClassAt(text, token_start) = "SIGNS"
      BY <1>2 DEF First
    <3>3. QED
      BY <1>1, <1>2, <3>1, <3>2 DEF SurelySymbol, Same, Within, ClassAt
  <2>4. Shape'
    BY <1>1, <1>2, <1>3, <1>5, <2>1, <2>2, <2>3, GoesOn DEF Shape, Same, Tokens!Word
  <2>5. QED
    BY <1>1, <1>2, <1>3, <1>5, <2>1, <2>4, RunsOn DEF Running, Tokens!Word
<1>6. CASE ClassAt(text, at) \notin Tokens!Word
  <2>1. state' = "FIN_SYMB"
    BY <1>4, <1>6 DEF FromSign, Tokens!Word
  <2>2. ~Tokens!IsNumber(text, token_start, at)
    BY <1>1, <1>2 DEF Tokens!IsNumber, Tokens!AllIn, Within, First, ClassAt
  <2>3. Tokens!Kind(text, token_start, at) = "SYMB"
    BY <1>2, <2>2 DEF Tokens!Kind, Tokens!WordKind, First, ClassAt, Tokens!Alone
  <2>4. KindOf(state', at - token_start) = "SYMB"
    BY <2>1 DEF KindOf
  <2>5. QED
    BY <1>1, <1>2, <1>3, <1>6, <2>1, <2>3, <2>4, IsOver DEF Final, Tokens!Word
<1>7. QED
  BY <1>5, <1>6

LEMMA ScanNumber ==
    ASSUME IInv, Scan, state = "NUMBER"
    PROVE  Running_Inv' /\ Final_Inv'
<1>1. Within /\ Same
  BY ScanWithin DEF Running
<1>2. First \in Tokens!Word /\ Tokens!IsNumber(text, token_start, at)
  BY DEF IInv, Running_Inv, Shape, Running
<1>3. Body(First) = Tokens!Word
  BY <1>2, BodyOf
<1>4. state' = FromNumber(ClassAt(text, at))
  BY DEF Scan, get_next_state
<1>5. CASE ClassAt(text, at) \in Tokens!Word
  <2>1. state' = IF ClassAt(text, at) = "NUMBER" THEN "NUMBER" ELSE "SYMB"
    BY <1>4, <1>5 DEF FromNumber, Tokens!Word
  <2>2. state' = "NUMBER" => Tokens!IsNumber(text, token_start, at + 1)
    <3> SUFFICES ASSUME ClassAt(text, at) = "NUMBER"
                 PROVE  Tokens!IsNumber(text, token_start, at + 1)
      BY <2>1
    <3>1. PICK d \in {token_start, token_start + 1} :
             /\ d < at
             /\ d = token_start + 1 => Tokens!ClassAt(text, token_start) = "SIGNS"
             /\ Tokens!AllIn(text, d, at, {"NUMBER"})
      BY <1>2 DEF Tokens!IsNumber
    <3>2. Tokens!AllIn(text, d, at + 1, {"NUMBER"})
      BY <1>1, <3>1, AllInGrows DEF Within
    <3>3. QED
      BY <1>1, <3>1, <3>2 DEF Tokens!IsNumber, Within
  <2>3. state' = "SYMB" => SurelySymbol(token_start, at)'
    BY <1>1, <1>2, <2>1
    DEF SurelySymbol, Same, Within, ClassAt, Tokens!IsNumber, Tokens!AllIn
  <2>4. Shape'
    BY <1>1, <1>2, <1>3, <1>5, <2>1, <2>2, <2>3, GoesOn DEF Shape, Same
  <2>5. QED
    BY <1>1, <1>2, <1>3, <1>5, <2>1, <2>4, RunsOn DEF Running
<1>6. CASE ClassAt(text, at) \notin Tokens!Word
  <2>1. state' = "FIN_NUMBER"
    BY <1>4, <1>6 DEF FromNumber, Tokens!Word
  <2>2. Tokens!Kind(text, token_start, at) = "NUM"
    BY <1>2 DEF Tokens!Kind, Tokens!WordKind, First, ClassAt, Tokens!Alone, Tokens!Word
  <2>3. KindOf(state', at - token_start) = "NUM"
    BY <2>1 DEF KindOf
  <2>4. QED
    BY <1>1, <1>2, <1>3, <1>6, <2>1, <2>2, <2>3, IsOver DEF Final
<1>7. QED
  BY <1>5, <1>6


LEMMA ScanDots ==
    ASSUME IInv, Scan, state = "DOTS"
    PROVE  Running_Inv' /\ Final_Inv'
<1>1. Within /\ Same
  BY ScanWithin DEF Running
<1>2. First \in Tokens!Word /\ AllIn(token_start, at, {"DOT"})
  BY DEF IInv, Running_Inv, Shape, Running
<1>3. First = "DOT"
  BY <1>1, <1>2 DEF Within, AllIn, Tokens!AllIn, First, ClassAt
<1>4. Body(First) = Tokens!Word
  BY <1>2, BodyOf
<1>5. state' = FromDots(ClassAt(text, at))
  BY DEF Scan, get_next_state
<1>6. CASE ClassAt(text, at) \in Tokens!Word
  <2>1. state' = IF ClassAt(text, at) = "DOT" THEN "DOTS" ELSE "SYMB"
    BY <1>5, <1>6 DEF FromDots, Tokens!Word
  <2>2. state' = "DOTS" => AllIn(token_start, at, {"DOT"})'
    BY <1>1, <1>2, <2>1, AllInGrows DEF AllIn, Within, Same
  <2>3. SurelySymbol(token_start, at)'
    BY <1>1, <1>3 DEF SurelySymbol, Same, Within, First
  <2>4. Shape'
    BY <1>1, <1>2, <1>4, <1>6, <2>1, <2>2, <2>3, GoesOn DEF Shape, Same
  <2>5. QED
    BY <1>1, <1>2, <1>4, <1>6, <2>1, <2>4, RunsOn DEF Running
<1>7. CASE ClassAt(text, at) \notin Tokens!Word
  <2>1. state' = "FIN_DOTS"
    BY <1>5, <1>7 DEF FromDots, Tokens!Word
  <2>2. ~Tokens!IsNumber(text, token_start, at)
    BY <1>1, <1>3 DEF Tokens!IsNumber, Tokens!AllIn, Within, First, ClassAt
  <2>3. Tokens!Kind(text, token_start, at) = IF at = token_start + 1 THEN "DOT" ELSE "SYMB"
    BY <1>3, <2>2 DEF Tokens!Kind, Tokens!WordKind, First, ClassAt, Tokens!Alone
  <2>4. KindOf(state', at - token_start) = IF at = token_start + 1 THEN "DOT" ELSE "SYMB"
    BY <1>1, <2>1 DEF KindOf, Within
  <2>5. QED
    BY <1>1, <1>2, <1>4, <1>7, <2>1, <2>3, <2>4, IsOver DEF Final
<1>8. QED
  BY <1>6, <1>7

LEMMA ScanSymbol ==
    ASSUME IInv, Scan, state = "SYMB"
    PROVE  Running_Inv' /\ Final_Inv'
<1>1. Within /\ Same
  BY ScanWithin DEF Running
<1>2. First \in Tokens!Word /\ SurelySymbol(token_start, at)
  BY DEF IInv, Running_Inv, Shape, Running
<1>3. Body(First) = Tokens!Word
  BY <1>2, BodyOf
<1>4. state' = FromSymbol(ClassAt(text, at))
  BY DEF Scan, get_next_state
<1>5. CASE ClassAt(text, at) \in Tokens!Word
  <2>1. state' = "SYMB"
    BY <1>4, <1>5 DEF FromSymbol, Tokens!Word
  <2>2. SurelySymbol(token_start, at)'
    BY <1>1, <1>2 DEF SurelySymbol, Same, Within, ClassAt
  <2>3. Shape'
    BY <1>1, <1>2, <1>3, <1>5, <2>1, <2>2, GoesOn DEF Shape, Same
  <2>4. QED
    BY <1>1, <1>2, <1>3, <1>5, <2>1, <2>3, RunsOn DEF Running
<1>6. CASE ClassAt(text, at) \notin Tokens!Word
  <2>1. state' = "FIN_SYMB"
    BY <1>4, <1>6 DEF FromSymbol, Tokens!Word
  <2>2. ~Tokens!IsNumber(text, token_start, at)
    BY <1>1, <1>2 DEF SurelySymbol, Tokens!IsNumber, Tokens!AllIn, Within, ClassAt
  <2>3. Tokens!Kind(text, token_start, at) = "SYMB"
    BY <1>1, <1>2, <2>2
    DEF Tokens!Kind, Tokens!WordKind, First, ClassAt, Tokens!Alone, Tokens!Word, SurelySymbol,
        Within
  <2>4. KindOf(state', at - token_start) = "SYMB"
    BY <2>1 DEF KindOf
  <2>5. QED
    BY <1>1, <1>2, <1>3, <1>6, <2>1, <2>3, <2>4, IsOver DEF Final
<1>7. QED
  BY <1>5, <1>6

LEMMA ScanIInv == IInv /\ Scan => IInv'
<1> SUFFICES ASSUME IInv, Scan PROVE IInv'
  OBVIOUS
<1>1. Running_Inv' /\ Final_Inv'
  BY ScanStart, ScanComment, ScanUnexpected, ScanSign, ScanNumber, ScanDots, ScanSymbol
  DEF Scan, Running
<1>2. LexerTypeOK'
  <2>1. state' \in Running \cup Final
    <3>1. CASE state = "START"
      <4>1. ClassAt(text, at) \in Tokens!Classes
        BY ClassType
      <4>2. state' = FromStart(ClassAt(text, at))
        BY <3>1 DEF Scan, get_next_state
      <4>3. QED
        BY <4>1, <4>2 DEF FromStart, Tokens!Classes, Running, Final
    <3>2. CASE state # "START"
      BY <3>2 DEF Scan, Running, Final, get_next_state, FromComment, FromSign,
                  FromNumber, FromDots, FromSymbol, FromUnexpected
    <3>3. QED
      BY <3>1, <3>2
  <2>2. QED
    BY <2>1 DEF Scan, IInv, LexerTypeOK
<1>3. Eof_Inv'
  BY DEF Scan, IInv, Eof_Inv
<1>4. QED
  BY <1>1, <1>2, <1>3 DEF IInv

-----------------------------------------------------------------------------
(***************************************************************************)
(* In a final state the token found is the first one from the cursor on.   *)
(***************************************************************************)
LEMMA FoundIsNext ==
    ASSUME IInv, state \in Final
    PROVE  /\ Tokens!TokenAt(text, cursor)
                = Token(KindOf(state, TokenEnd - token_start), token_start, TokenEnd)
           /\ token_start \in Nat /\ TokenEnd \in token_start .. (Len(text) + 1)
           /\ cursor <= token_start
<1>1. /\ cursor \in Nat /\ token_start \in Nat /\ Len(text) \in Nat /\ text \in Seq(STRING)
      /\ cursor <= token_start /\ AllIn(cursor, token_start, Tokens!Blanks)
      /\ TokenEnd \in token_start .. (Len(text) + 1)
  BY DEF IInv, LexerTypeOK, Final_Inv, Found
<1>2. Tokens!EndOfRun(text, cursor, Tokens!Blanks) = token_start
  <2>1. Tokens!IsEnd(text, cursor, Tokens!Blanks, token_start)
    BY <1>1 DEF IInv, Final_Inv, Found, AllIn, Tokens!IsEnd, First, ClassAt
  <2>2. token_start \in cursor .. (Len(text) + 1)
    BY <1>1
  <2>3. QED
    BY <1>1, <2>1, <2>2, EndIsUnique
<1>3. Tokens!TokenFrom(text, token_start) = Tokens!TokenOf(text, token_start, TokenEnd)
  <2>1. CASE First \in Tokens!Alone
    BY <2>1 DEF IInv, Final_Inv, Found, Tokens!TokenFrom, First, ClassAt
  <2>2. CASE First \notin Tokens!Alone
    <3>1. Tokens!IsEnd(text, token_start, Body(First), TokenEnd)
      BY <2>2 DEF IInv, Final_Inv, Found
    <3>2. Tokens!EndOfRun(text, token_start, Body(First)) = TokenEnd
      BY <1>1, <3>1, EndIsUnique
    <3>3. QED
      BY <2>2, <3>2 DEF Tokens!TokenFrom, First, ClassAt, Body
  <2>3. QED
    BY <2>1, <2>2
<1>4. Tokens!TokenOf(text, token_start, TokenEnd)
        = Token(KindOf(state, TokenEnd - token_start), token_start, TokenEnd)
  BY DEF Tokens!TokenOf, Token, IInv, Final_Inv, Found
<1>5. QED
  BY <1>1, <1>2, <1>3, <1>4 DEF Tokens!TokenAt

(***************************************************************************)
(* A token EOF is at the end of the text, where the cursor is left.        *)
(***************************************************************************)
LEMMA FinishEof ==
    ASSUME IInv, Finish, (next.kind = "EOF")'
    PROVE  cursor' = Len(text) + 1
<1>1. KindOf(state, TokenEnd - token_start) = "EOF"
  BY DEF Finish, Token, Tokens!Token
<1>2. Tokens!Kind(text, token_start, TokenEnd) = "EOF"
  BY <1>1 DEF IInv, Final_Inv, Found, Finish
<1>3. First = "EOF"
  BY <1>2 DEF Tokens!Kind, Tokens!WordKind, First, ClassAt, Tokens!Alone
<1>4. token_start \in Nat /\ Len(text) \in Nat /\ token_start >= 1
      /\ TokenEnd \in token_start .. (Len(text) + 1)
  BY FoundIsNext DEF IInv, LexerTypeOK, Finish
<1>5. token_start = Len(text) + 1
  BY <1>3, <1>4, ClassType DEF First
<1>6. QED
  BY <1>4, <1>5 DEF Finish

LEMMA FinishIInv == IInv /\ Finish => IInv'
<1> SUFFICES ASSUME IInv, Finish PROVE IInv'
  OBVIOUS
<1>1. LexerTypeOK'
  BY FoundIsNext DEF Finish, IInv, LexerTypeOK
<1>2. Running_Inv' /\ Final_Inv'
  BY DEF Finish, Running_Inv, Final_Inv, Running, Final
<1>3. Eof_Inv'
  BY FinishEof DEF Eof_Inv, Finish
<1>4. QED
  BY <1>1, <1>2, <1>3 DEF IInv

(***************************************************************************)
(* What the automaton knows of the characters is true in every state.      *)
(***************************************************************************)
THEOREM Invariance == Spec => []IInv
<1>1. IInv /\ UNCHANGED vars => IInv'
  BY DEF IInv, vars, LexerTypeOK, Running_Inv, Shape, Final_Inv, Found, Eof_Inv, First,
         AllIn, SurelySymbol, TokenEnd, ClassAt
<1>2. QED
  BY InitIInv, BeginIInv, ScanIInv, FinishIInv, <1>1, PTL DEF Spec, Next

-----------------------------------------------------------------------------
(***************************************************************************)
(* The lexer never looks past the NUL at the end of the text.              *)
(***************************************************************************)
THEOREM InText == Spec => []StaysInText
<1>1. IInv => StaysInText
  BY DEF IInv, LexerTypeOK, Running_Inv, StaysInText
<1>2. QED
  BY <1>1, Invariance, PTL

(***************************************************************************)
(* The automaton implements the grammar of tokens: hll_lexer_next returns  *)
(* the next token of the text, and every other step is invisible.          *)
(***************************************************************************)
THEOREM Refinement == Spec => FindsTokens
<1>1. Init => Tokens!Init
  BY DEF Init, Tokens!Init, NoToken
<1>2. IInv /\ [Next]_vars => [Tokens!NextToken]_(Tokens!vars)
  <2> SUFFICES ASSUME IInv, [Next]_vars PROVE [Tokens!NextToken]_(Tokens!vars)
    OBVIOUS
  <2>1. CASE Begin \/ Scan \/ UNCHANGED vars
    BY <2>1 DEF Begin, Scan, vars, Tokens!vars
  <2>2. CASE Finish
    <3>1. next' = Tokens!TokenAt(text, cursor)
      BY <2>2, FoundIsNext DEF Finish
    <3>2. cursor' = Tokens!EndOf(next')
      BY <2>2, FoundIsNext DEF Finish, Tokens!EndOf, Token, Tokens!Token
    <3>3. QED
      BY <2>2, <3>1, <3>2 DEF Finish, Tokens!NextToken
  <2>3. QED
    BY <2>1, <2>2 DEF Next
<1>3. QED
  BY <1>1, <1>2, Invariance, PTL DEF Spec, FindsTokens, Tokens!Spec

(***************************************************************************)
(* hll_compiler.h: "If EOF is reached, EOF token is guaranteed to always   *)
(* be returned after that."  No caller of the lexer has to remember that   *)
(* it has seen the end.                                                    *)
(***************************************************************************)
THEOREM EofRepeats == Spec => EofStays
<1>1. IInv /\ [Next]_vars => [next.kind = "EOF" => next'.kind = "EOF"]_vars
  <2> SUFFICES ASSUME IInv, Next, next.kind = "EOF" PROVE next'.kind = "EOF"
    OBVIOUS
  <2>1. CASE Begin \/ Scan
    BY <2>1 DEF Begin, Scan
  <2>2. CASE Finish
    <3>1. cursor = Len(text) + 1 /\ Len(text) \in Nat
      BY DEF IInv, Eof_Inv, LexerTypeOK
    <3>2. token_start = Len(text) + 1 /\ TokenEnd = token_start
      BY <2>2, <3>1, FoundIsNext DEF Finish
    <3>3. First = "EOF"
      BY <3>1, <3>2, ClassType DEF First
    <3>4. KindOf(state, TokenEnd - token_start) = "EOF"
      BY <2>2, <3>3 DEF IInv, Final_Inv, Found, Finish, Tokens!Kind, First, ClassAt,
                       Tokens!Alone
    <3>5. QED
      BY <2>2, <3>4 DEF Finish, Token, Tokens!Token
  <2>3. QED
    BY <2>1, <2>2 DEF Next
<1>2. QED
  BY <1>1, Invariance, PTL DEF Spec, EofStays
=============================================================================
