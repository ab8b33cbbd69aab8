------------------------------- MODULE Reader -------------------------------
(***************************************************************************)
(* The reader of hll_compiler.c, a recursive descent over the tokens the   *)
(* lexer of module Lexer finds one by one, and the table of locations it   *)
(* fills.  A call of read_expr or read_list that waits for an expression   *)
(* is a frame of "stack"; hll_read_ast is the frame at the bottom.         *)
(***************************************************************************)
EXTENDS Lexer, Lisp

CONSTANTS
    Addresses,      \* of the conses that get a location, in the order of that
    Slots,          \* HLL_LOCATION_TABLE_SIZE
    MaxErrors       \* bound on the count of errors, more than a text can have

ASSUME AddressesAssumption ==
    /\ Slots \in Nat \ {0} /\ MaxErrors \in Nat /\ Addresses \in Seq(Nat)
    /\ \A i, j \in DOMAIN Addresses : i # j => Addresses[i] # Addresses[j]

VARIABLES
    stack,
    pc,             \* where the call on top of the stack is
    ret,            \* the value a call has just returned
    peeked,         \* should_return_old_token
    reader_errors,  \* reader->error_count
    locs            \* tu->locs

reader == <<stack, pc, ret, peeked, reader_errors, locs>>
readerVars == <<vars, reader>>

-----------------------------------------------------------------------------
(***************************************************************************)
(* hll_location_table.  Entry k of the code is entries[k + 1] here; the    *)
(* index 0 ends a chain, so that entry 0 is on no chain.                   *)
(***************************************************************************)
NoLocations == [hash_table |-> [s \in 0 .. (Slots - 1) |-> 0], entries |-> <<>>]

Slot(hash) == hash % Slots

\* A place that holds the number of an entry, as get_location_entry_idx
\* returns it: 0 is the slot, c > 0 the field next of entry c.
Cells(table) == {0} \cup 1 .. (Len(table.entries) - 1)

Cell(table, slot, c) ==
    IF c = 0 THEN table.hash_table[slot] ELSE table.entries[c + 1].next

Walk(table, hash) ==
    LET walk[c \in Cells(table)] ==
            LET k == Cell(table, Slot(hash), c)
            IN  IF k = 0 \/ table.entries[k + 1].hash = hash THEN c ELSE walk[k]
    IN walk

\* Where the chain has the entry, or where it ends.
get_location_entry_idx(table, hash) == Walk(table, hash)[0]

\* Mutant: the first entry in the slot is taken for the one.
get_location_entryAny(table, hash) == table.hash_table[Slot(hash)]

\* The number of the entry; 0 too when there is none.
get_location_entry(table, hash) ==
    Cell(table, Slot(hash), get_location_entry_idx(table, hash))

Linked(table, slot, c, k) ==
    IF c = 0 THEN [table EXCEPT !.hash_table[slot] = k]
    ELSE [table EXCEPT !.entries[c + 1].next = k]

\* store_location: the entry is pushed, and linked where the search for it
\* ends.
store_location(table, hash, offset) ==
    LET k == Len(table.entries)
        entry == [hash |-> hash, offset |-> offset, next |-> 0]
        pushed == [table EXCEPT !.entries = Append(@, entry)]
        idx == get_location_entry_idx(pushed, hash)
        value == Cell(pushed, Slot(hash), idx)
    IN Linked([pushed EXCEPT !.entries[k + 1].next = value], Slot(hash), idx, k)

\* A cons has been made; its location is that of the token read last.
record_location ==
    /\ Len(locs.entries) < Len(Addresses)
    /\ locs' = store_location(locs, Addresses[Len(locs.entries) + 1], next.offset)

-----------------------------------------------------------------------------
Frame(fn, head) == [fn |-> fn, head |-> head, items |-> <<>>]
Top == Last(stack)
Pop == Front(stack)

Call(fn) == stack' = Append(stack, Frame(fn, next.offset))
Return(value) == ret' = value /\ pc' = "return"
Eat == peeked' = FALSE
Keep == peeked' = peeked
ReaderError == reader_errors < MaxErrors /\ reader_errors' = reader_errors + 1
NoError == reader_errors' = reader_errors

\* read_expr on a number or a symbol; t is the one that is true.
Atom(token) ==
    LET name == SubSeq(text, token.offset, token.offset + token.length - 1)
    IN CASE token.kind = "NUM" -> Num(name)
         [] token.kind = "SYMB" /\ token.length = 1 /\ text[token.offset] = "t" -> T
         [] OTHER -> Sym(name)

\* The symbol quote is the one whose name has the one character "quote".
Quoted(x) == List(<<Sym(<<"quote">>), x>>)

\* hll_reader_init, hll_read_ast
ReaderInit == /\ Init
              /\ stack = <<Frame("ast", 1)>> /\ pc = "rest" /\ ret = Nil
              /\ peeked = FALSE /\ reader_errors = 0
              /\ locs = NoLocations

-----------------------------------------------------------------------------
(* peek_token, at every place in the reader that looks at a token. *)

PeekBegin == /\ pc \in {"expr", "first", "rest", "close"} /\ ~peeked
             /\ Begin
             /\ UNCHANGED reader

PeekScan == Scan /\ UNCHANGED reader

\* Comments are passed over, and so is what is no token.
PeekEnd == /\ Finish
           /\ peeked' = (next'.kind \notin {"COMMENT", "UNEXPECTED"})
           /\ IF next'.kind = "UNEXPECTED" THEN ReaderError ELSE NoError
           /\ UNCHANGED <<stack, pc, ret, locs>>

Sees(place, kinds) == pc = place /\ peeked /\ next.kind \in kinds /\ UNCHANGED vars

-----------------------------------------------------------------------------
(* read_expr *)

ExprAtom == /\ Sees("expr", {"NUM", "SYMB"})
            /\ Eat /\ Return(Atom(next))
            /\ UNCHANGED <<stack, reader_errors, locs>>

ExprQuote == /\ Sees("expr", {"QUOTE"})
             /\ Eat /\ Call("quote") /\ pc' = "expr"
             /\ UNCHANGED <<ret, reader_errors, locs>>

\* read_list up to its first look at what follows the parenthesis.
ExprList == /\ Sees("expr", {"LPAREN"})
            /\ Eat /\ Call("list") /\ pc' = "first"
            /\ UNCHANGED <<ret, reader_errors, locs>>

ExprEof == /\ Sees("expr", {"EOF"})
           /\ Keep /\ Return(Nil)
           /\ UNCHANGED <<stack, reader_errors, locs>>

\* Mutant: the token that is in the way is left there.
ExprOtherKept == /\ Sees("expr", {"RPAREN", "DOT"})
                 /\ ReaderError
                 /\ Keep /\ Return(Nil)
                 /\ UNCHANGED <<stack, locs>>

ExprOther == /\ Sees("expr", {"RPAREN", "DOT"})
             /\ ReaderError
             /\ Eat /\ Return(Nil)
             /\ UNCHANGED <<stack, locs>>

\* The quoted expression is there.
ExprQuoted == /\ pc = "return" /\ Top.fn = "quote"
              /\ Return(Quoted(ret)) /\ stack' = Pop
              /\ UNCHANGED <<vars, peeked, reader_errors, locs>>

-----------------------------------------------------------------------------
(* read_list and hll_read_ast *)

ListEmpty == /\ Sees("first", {"RPAREN"})
             /\ Eat /\ Return(Nil) /\ stack' = Pop
             /\ UNCHANGED <<reader_errors, locs>>

\* The first element of a list, whatever the token is.
ListFirst == /\ pc = "first" /\ peeked /\ next.kind # "RPAREN"
             /\ pc' = "expr"
             /\ UNCHANGED <<vars, stack, ret, peeked, reader_errors, locs>>

\* One more element; hll_read_ast stops for nothing but EOF.
ListNext == /\ pc = "rest" /\ peeked /\ next.kind # "EOF"
            /\ Top.fn = "list" => next.kind \notin {"RPAREN", "DOT"}
            /\ pc' = "expr"
            /\ UNCHANGED <<vars, stack, ret, peeked, reader_errors, locs>>

\* The element is there; of the list of the whole text only the first cons
\* gets a location.
ListElement ==
    /\ pc = "return" /\ Top.fn \in {"ast", "list"}
    /\ stack' = Append(Pop, [Top EXCEPT !.items = Append(@, ret)])
    /\ IF Top.fn = "list" \/ Top.items = <<>> THEN record_location ELSE UNCHANGED locs
    /\ pc' = "rest"
    /\ UNCHANGED <<vars, ret, peeked, reader_errors>>

ListEnd == /\ Sees("rest", {"RPAREN"}) /\ Top.fn = "list"
           /\ Eat /\ Return(List(Top.items)) /\ stack' = Pop
           /\ UNCHANGED <<reader_errors, locs>>

ListEof == /\ Sees("rest", {"EOF"}) /\ Top.fn = "list"
           /\ ReaderError
           /\ Keep /\ Return(List(Top.items)) /\ stack' = Pop
           /\ UNCHANGED locs

\* From here on the frame waits for the last cdr.
ListDot == /\ Sees("rest", {"DOT"}) /\ Top.fn = "list"
           /\ Eat /\ stack' = Append(Pop, [Top EXCEPT !.fn = "dotted"]) /\ pc' = "expr"
           /\ UNCHANGED <<ret, reader_errors, locs>>

DotCdr == /\ pc = "return" /\ Top.fn = "dotted"
          /\ pc' = "close"
          /\ UNCHANGED <<vars, stack, ret, peeked, reader_errors, locs>>

\* Mutant: what follows the last cdr is not looked at.
DotEndAny == /\ pc = "close" /\ peeked
             /\ Eat /\ Return(DottedList(Top.items, ret)) /\ stack' = Pop
             /\ UNCHANGED <<vars, reader_errors, locs>>

DotEnd == /\ Sees("close", {"RPAREN"})
          /\ Eat /\ Return(DottedList(Top.items, ret)) /\ stack' = Pop
          /\ UNCHANGED <<reader_errors, locs>>

\* The token that is there instead of the parenthesis is read again.
DotNoEnd == /\ pc = "close" /\ peeked /\ next.kind # "RPAREN"
            /\ ReaderError
            /\ Keep /\ Return(DottedList(Top.items, ret)) /\ stack' = Pop
            /\ UNCHANGED <<vars, locs>>

AstEnd == /\ Sees("rest", {"EOF"}) /\ Top.fn = "ast"
          /\ pc' = "done" /\ ret' = List(Top.items)
          /\ UNCHANGED <<stack, peeked, reader_errors, locs>>

ReaderNext ==
    \/ PeekBegin \/ PeekScan \/ PeekEnd
    \/ ExprAtom \/ ExprQuote \/ ExprList \/ ExprEof \/ ExprOther \/ ExprQuoted
    \/ ListEmpty \/ ListFirst \/ ListNext \/ ListElement \/ ListEnd \/ ListEof
    \/ ListDot \/ DotCdr \/ DotEnd \/ DotNoEnd \/ AstEnd

\* One thread runs the reader until it returns.
ReaderSpec == ReaderInit /\ [][ReaderNext]_readerVars /\ WF_readerVars(ReaderNext)

-----------------------------------------------------------------------------
(***************************************************************************)
(* Every cons that has been given a location is found in the table again,  *)
(* with the location it was given, a place in the text or its end: no      *)
(* order of the conses in the slots makes one of them hide another, though *)
(* entry 0 is on no chain and is only found because nothing else is.  And  *)
(* the search for a cons without one comes to the end of a chain, as the   *)
(* assertion of store_location wants it.                                   *)
(***************************************************************************)
LocationsKept ==
    /\ \A k \in DOMAIN locs.entries :
          /\ get_location_entry(locs, locs.entries[k].hash) = k - 1
          /\ locs.entries[k].offset \in 1 .. (Len(text) + 1)
    /\ \A i \in (Len(locs.entries) + 1) .. Len(Addresses) :
          get_location_entry(locs, Addresses[i]) = 0
=============================================================================
