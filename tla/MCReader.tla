------------------------------ MODULE MCReader ------------------------------
(* Texts for TLC. *)
EXTENDS Grammar

Strings(chars, n) == UNION {[1 .. k -> chars] : k \in 0 .. n}

\* Every class of characters, next to every other.
AllClasses == {"(", ")", "'", ".", ";", " ", "nl", "-", "1", "99", "t", "ch", "!"}

MCTexts == Strings(AllClasses, 3)
           \cup Strings({"-", "1", "99", ".", "ch", " "}, 4)   \* words
           \cup Strings({"(", ")", "'", ".", " ", "t"}, 5)            \* lists
           \cup Strings({"(", ")", "."}, 7)                           \* nested lists

\* Nine addresses, some of which share a slot.
MCAddresses == <<3, 6, 5, 2, 9, 1, 4, 8, 7>>
=============================================================================
