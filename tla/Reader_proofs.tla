---------------------------- MODULE Reader_proofs ----------------------------
(***************************************************************************)
(* Proofs about the reader: the lexer runs in it as it runs alone, and the *)
(* table of locations loses no entry, for every text, every number of      *)
(* slots and all addresses.                                                *)
(*                                                                         *)
(* The chain of a slot goes through the entries of the slot in the order   *)
(* they were stored in: the fields next only lead to later entries, so     *)
(* every search ends, and on its way to an entry it can pass by earlier    *)
(* ones only.                                                              *)
(***************************************************************************)
EXTENDS Reader, Lexer_proofs, SequenceTheorems, WellFoundedInduction

-----------------------------------------------------------------------------
(* Numbers. *)

\* The order of the natural numbers, as a set of pairs.
Less == {pair \in Nat \X Nat : pair[1] < pair[2]}

\* Every nonempty set of natural numbers has a least element.
LEMMA NatLeast ==
    ASSUME NEW S \in SUBSET Nat, S # {}
    PROVE  \E n \in S : \A m \in S : n <= m
<1>1. IsWellFoundedOn(Less, Nat)
  BY NatLessThanWellFounded DEF OpToRel, Less
<1>2. PICK n \in S : \A m \in S : <<m, n>> \notin Less
  BY <1>1, WFMin, Zenon
<1>3. ASSUME NEW m \in S PROVE n <= m
  <2>1. m \in Nat /\ n \in Nat /\ <<m, n>> \notin Less
    BY <1>2
  <2> QED BY <2>1 DEF Less
<1> QED BY <1>3

\* A nonempty set of numbers up to top has a greatest element.
LEMMA NatGreatest ==
    ASSUME NEW top \in Nat, NEW S \in SUBSET (0 .. top), S # {}
    PROVE  \E n \in S : \A m \in S : m <= n
<1> DEFINE Below == {d \in Nat : top - d \in S}
<1>1. Below \in SUBSET Nat
  OBVIOUS
<1>2. ASSUME NEW n \in S PROVE top - n \in Below
  <2>1. n \in 0 .. top
    OBVIOUS
  <2>2. top - n \in Nat /\ top - (top - n) = n
    BY <2>1
  <2> QED BY <2>2
<1>3. Below # {}
  BY <1>2
<1>4. PICK d \in Below : \A e \in Below : d <= e
  BY <1>1, <1>3, NatLeast, Zenon
<1>5. top - d \in S
  BY <1>4
<1>6. ASSUME NEW m \in S PROVE m <= top - d
  <2>1. m \in 0 .. top /\ d \in Nat
    BY <1>4
  <2>2. d <= top - m
    BY <1>2, <1>4
  <2> QED BY <2>1, <2>2
<1> QED BY <1>5, <1>6

-----------------------------------------------------------------------------
(***************************************************************************)
(* What the search in the table of locations comes to.                     *)
(***************************************************************************)

\* Where the walks over the cells D end, one for each place they begin at: a
\* cell that is not in Stop leads to another.
Ends(f, D, Stop, to) ==
    /\ f \in [D -> D]
    /\ \A c \in D : f[c] = IF c \in Stop THEN c ELSE f[to[c]]

\* A walk over cells, each step of which goes up, comes to an end, wherever
\* it begins.
LEMMA WalkEnds ==
    ASSUME NEW top \in Nat, NEW D \in SUBSET (0 .. top), NEW Stop \in SUBSET D,
           NEW to \in [D \ Stop -> D], \A c \in D \ Stop : c < to[c]
    PROVE  \E f : Ends(f, D, Stop, to)
<1> DEFINE Good(f, c) == f[c] = IF c \in Stop THEN c ELSE f[to[c]]
           From == {b \in 0 .. (top + 1) : \E f \in [D -> D] : \A c \in D : b <= c => Good(f, c)}
<1>1. From \in SUBSET Nat
  OBVIOUS
<1>2. top + 1 \in From
  <2>1. [c \in D |-> c] \in [D -> D]
    OBVIOUS
  <2>2. \A c \in D : ~(top + 1 <= c)
    OBVIOUS
  <2>3. \A c \in D : top + 1 <= c => Good([d \in D |-> d], c)
    BY <2>2
  <2>4. \E f \in [D -> D] : \A c \in D : top + 1 <= c => Good(f, c)
    BY <2>1, <2>3, Zenon
  <2>5. top + 1 \in 0 .. (top + 1)
    OBVIOUS
  <2> HIDE DEF Good
  <2> QED BY <2>4, <2>5
<1>3. PICK b \in From : \A e \in From : b <= e
  BY <1>1, <1>2, NatLeast, Zenon
<1>4. b \in 0 .. (top + 1)
  BY <1>3
<1>5. PICK f \in [D -> D] : \A c \in D : b <= c => Good(f, c)
  BY <1>3
<1>6. CASE b = 0
  <2>1. \A c \in D : b <= c
    BY <1>6
  <2>2. Ends(f, D, Stop, to)
    BY <1>5, <2>1 DEF Ends
  <2> QED BY <2>2
<1>7. CASE b # 0
  <2> DEFINE a == b - 1
             g == [c \in D |-> IF c # a THEN f[c] ELSE IF a \in Stop THEN a ELSE f[to[a]]]
  <2>1. a \in 0 .. (top + 1) /\ a < b
    BY <1>4, <1>7
  <2>2. g \in [D -> D]
    OBVIOUS
  <2>3. ASSUME NEW c \in D, a <= c PROVE Good(g, c)
    <3>1. CASE c = a
      <4>1. c \notin Stop => to[c] \in D /\ to[c] # a
        BY <3>1, <2>1
      <4> QED BY <3>1, <4>1
    <3>2. CASE c # a
      <4>1. b <= c /\ c \in Nat
        BY <3>2, <2>1, <2>3, <1>4
      <4>2. Good(f, c)
        BY <4>1, <1>5
      <4>3. c \notin Stop => to[c] \in D /\ to[c] # a
        BY <4>1, <2>1
      <4> QED BY <3>2, <4>2, <4>3
    <3> QED BY <3>1, <3>2
  <2>4. \A c \in D : a <= c => Good(g, c)
    BY <2>3
  <2>5. \E h \in [D -> D] : \A c \in D : a <= c => Good(h, c)
    BY <2>2, <2>4, Zenon
  <2> HIDE DEF g, Good
  <2>6. a \in From
    BY <2>1, <2>5
  <2> HIDE DEF From
  <2>7. FALSE
    BY <2>6, <2>1, <1>3, <1>4
  <2> QED BY <2>7
<1> QED BY <1>6, <1>7, Zenon

Numbers == 0 .. (Slots - 1)

LEMMA SlotType == \A hash \in Nat : Slot(hash) \in Numbers
  BY AddressesAssumption DEF Slot, Numbers

EntrySet == [hash : Nat, offset : Nat, next : Nat]
TableSet == [hash_table : [Numbers -> Nat], entries : Seq(EntrySet)]

LEMMA EntryFields ==
    ASSUME NEW table \in TableSet, NEW k \in 1 .. Len(table.entries)
    PROVE  table.entries[k].hash \in Nat /\ table.entries[k].next \in Nat
<1>1. table.entries \in Seq(EntrySet)
  BY DEF TableSet
<1>2. table.entries[k] \in EntrySet
  BY <1>1
<1> QED BY <1>2 DEF EntrySet

\* Entry k, as the code counts them, is in the slot of its hash.
SlotOf(table, k) == Slot(table.entries[k + 1].hash)

\* The cells of one slot, if only the first n entries are linked.
CellsOf(table, n, slot) == {0} \cup {c \in 1 .. (n - 1) : SlotOf(table, c) = slot}

\* The cell after which no other entry of its slot comes.
IsLast(table, n, slot, c) ==
    \A d \in CellsOf(table, n, slot) : d <= c

\* v is the entry of the slot that comes next after c.
IsNext(table, n, slot, c, v) ==
    /\ v \in CellsOf(table, n, slot) /\ c < v
    /\ \A d \in CellsOf(table, n, slot) : c < d => v <= d

\* Each chain goes through the entries of its slot, in their order.
Chained(table, n) ==
    \A slot \in Numbers : \A c \in CellsOf(table, n, slot) :
        LET v == Cell(table, slot, c)
        IN  IF v = 0 THEN IsLast(table, n, slot, c) ELSE IsNext(table, n, slot, c, v)

\* A table whose first n entries are linked, while the others lead nowhere.
LinkedUpTo(table, n) ==
    /\ table \in TableSet /\ n \in 0 .. Len(table.entries)
    /\ Chained(table, n)
    /\ \A k \in (n + 1) .. Len(table.entries) : table.entries[k].next = 0

\* Where the search for a hash stops.
Halts(table, hash, c) ==
    LET k == Cell(table, Slot(hash), c) IN k = 0 \/ table.entries[k + 1].hash = hash

\* Whatever the hash, a cell the search goes on from leads further up.
LEMMA StepsUp ==
    ASSUME NEW table, NEW n, LinkedUpTo(table, n), NEW hash \in Nat,
           NEW c \in Cells(table), ~Halts(table, hash, c)
    PROVE  LET v == Cell(table, Slot(hash), c) IN v \in Cells(table) /\ c < v
<1> DEFINE v == Cell(table, Slot(hash), c)
           len == Len(table.entries)
<1>1. v # 0
  BY DEF Halts
<1>2. len \in Nat /\ n \in Nat /\ n <= len
  BY DEF LinkedUpTo, TableSet
<1>3. c = 0 \/ c \in 1 .. (len - 1)
  BY DEF Cells
<1>4. ASSUME NEW slot \in Numbers, c \in CellsOf(table, n, slot), v = Cell(table, slot, c)
      PROVE  v \in Cells(table) /\ c < v
  <2>1. IsNext(table, n, slot, c, v)
    BY <1>1, <1>4 DEF LinkedUpTo, Chained
  <2>2. v \in CellsOf(table, n, slot) /\ c < v
    BY <2>1 DEF IsNext
  <2>3. v \in {0} \cup 1 .. (n - 1)
    BY <2>2 DEF CellsOf
  <2> QED BY <2>2, <2>3, <1>2 DEF Cells
<1>5. CASE c = 0
  <2>1. Slot(hash) \in Numbers /\ c \in CellsOf(table, n, Slot(hash))
    BY <1>5, SlotType DEF CellsOf
  <2> QED BY <2>1, <1>4
<1>6. CASE c \in 1 .. (len - 1) /\ c <= n - 1
  <2>1. c + 1 \in 1 .. len
    BY <1>6, <1>2
  <2>2. SlotOf(table, c) \in Numbers
    BY <2>1, EntryFields, SlotType DEF SlotOf, LinkedUpTo
  <2>3. c \in CellsOf(table, n, SlotOf(table, c))
    BY <1>6, <1>2 DEF CellsOf
  <2>4. v = Cell(table, SlotOf(table, c), c)
    BY <1>6 DEF Cell
  <2> QED BY <2>2, <2>3, <2>4, <1>4
<1>7. CASE c \in 1 .. (len - 1) /\ ~(c <= n - 1)
  <2>1. c + 1 \in (n + 1) .. len
    BY <1>7, <1>2
  <2>2. v = 0
    BY <2>1, <1>7 DEF LinkedUpTo, Cell
  <2> QED BY <2>2, <1>1
<1> QED BY <1>3, <1>5, <1>6, <1>7

\* Walk is what it is defined to be.
LEMMA WalkUnfolds ==
    ASSUME NEW table, NEW n, LinkedUpTo(table, n), NEW hash \in Nat
    PROVE  \A c \in Cells(table) :
              Walk(table, hash)[c] = IF Halts(table, hash, c) THEN c
                                     ELSE Walk(table, hash)[Cell(table, Slot(hash), c)]
<1> DEFINE D == Cells(table)
           Stop == {c \in D : Halts(table, hash, c)}
           to == [c \in D \ Stop |-> Cell(table, Slot(hash), c)]
           Step(f) == [c \in D |->
              IF Cell(table, Slot(hash), c) = 0
                 \/ table.entries[Cell(table, Slot(hash), c) + 1].hash = hash
              THEN c ELSE f[Cell(table, Slot(hash), c)]]
<1>1. Len(table.entries) \in Nat
  BY DEF LinkedUpTo, TableSet
<1>2. D \in SUBSET (0 .. Len(table.entries))
  BY <1>1 DEF Cells
<1>3. to \in [D \ Stop -> D] /\ \A c \in D \ Stop : c < to[c]
  BY StepsUp
<1>4. Stop \in SUBSET D
  OBVIOUS
<1>5. PICK f : Ends(f, D, Stop, to)
  <2> HIDE DEF D, Stop, to
  <2> QED BY <1>1, <1>2, <1>3, <1>4, WalkEnds
<1>6. f = Step(f)
  <2>1. \A c \in D : f[c] = Step(f)[c]
    BY <1>5 DEF Halts, Ends
  <2> QED BY <1>5, <2>1 DEF Ends
<1>7. Walk(table, hash) = CHOOSE g : g = Step(g)
  BY Zenon DEF Walk
<1> HIDE DEF Step
<1>8. Walk(table, hash) = Step(Walk(table, hash))
  BY <1>6, <1>7, Zenon
<1> DEFINE w == Walk(table, hash)
<1> HIDE DEF w
<1>9. w = Step(w)
  BY <1>8 DEF w
<1>10. \A c \in D : w[c] = IF Halts(table, hash, c) THEN c ELSE w[Cell(table, Slot(hash), c)]
  BY <1>9 DEF Step, Halts
<1> QED BY <1>10 DEF w

\* The walk along a chain stays in it, and does not pass by what it looks for.
LEMMA WalkStays ==
    ASSUME NEW table, NEW n, LinkedUpTo(table, n), NEW hash \in Nat,
           NEW c \in CellsOf(table, n, Slot(hash))
    PROVE  LET r == Walk(table, hash)[c]
           IN  /\ r \in CellsOf(table, n, Slot(hash)) /\ Halts(table, hash, r)
               /\ \A k \in 1 .. (n - 1) : c < k /\ table.entries[k + 1].hash = hash => r < k
<1> DEFINE slot == Slot(hash)
           chain == CellsOf(table, n, slot)
           w == Walk(table, hash)
           Fine(b) == /\ w[b] \in chain /\ Halts(table, hash, w[b])
                      /\ \A k \in 1 .. (n - 1) : b < k /\ table.entries[k + 1].hash = hash => w[b] < k
           Bad == {b \in chain : ~Fine(b)}
<1>1. /\ Len(table.entries) \in Nat /\ n \in Nat /\ n <= Len(table.entries)
      /\ chain \subseteq Cells(table) /\ chain \subseteq 0 .. n
  BY DEF LinkedUpTo, TableSet, CellsOf, Cells
<1>2. slot \in Numbers
  BY SlotType
<1>3. ASSUME Bad # {} PROVE FALSE
  <2>0. Bad \in SUBSET (0 .. n)
    BY <1>1
  <2>1. PICK b \in Bad : \A e \in Bad : e <= b
    <3> HIDE DEF Bad
    <3> QED BY <1>1, <1>3, <2>0, NatGreatest
  <2>2. b \in chain /\ ~Fine(b)
    BY <2>1
  <2>3. w[b] = IF Halts(table, hash, b) THEN b ELSE w[Cell(table, slot, b)]
    BY <2>2, <1>1, WalkUnfolds
  <2>4. CASE Halts(table, hash, b)
    <3>1. w[b] = b
      BY <2>3, <2>4
    <3> QED BY <3>1, <2>2, <2>4
  <2>5. CASE ~Halts(table, hash, b)
    <3> DEFINE v == Cell(table, slot, b)
    <3>1. v # 0
      BY <2>5 DEF Halts
    <3>2. IsNext(table, n, slot, b, v)
      BY <3>1, <2>2, <1>2 DEF LinkedUpTo, Chained
    <3>3. v \in chain /\ b < v /\ \A d \in chain : b < d => v <= d
      BY <3>2 DEF IsNext
    <3>4. v \in 0 .. n /\ b \in 0 .. n
      BY <3>3, <2>2, <1>1
    <3>5. v \notin Bad
      BY <2>1, <3>3, <3>4
    <3>6. Fine(v)
      BY <3>3, <3>5
    <3>7. w[b] = w[v]
      BY <2>3, <2>5
    <3>8. ASSUME NEW k \in 1 .. (n - 1), b < k, table.entries[k + 1].hash = hash
          PROVE  w[b] < k
      <4>1. k \in chain
        BY <3>8 DEF CellsOf, SlotOf
      <4>2. v <= k
        BY <4>1, <3>3, <3>8
      <4>3. v # k
        BY <2>5, <3>8 DEF Halts
      <4>4. v < k
        BY <4>2, <4>3, <3>4
      <4> QED BY <4>4, <3>6, <3>7, <3>8
    <3>9. Fine(b)
      BY <3>6, <3>7, <3>8
    <3> QED BY <3>9, <2>2
  <2> QED BY <2>4, <2>5
<1>4. Fine(c)
  BY <1>3
<1> QED BY <1>4

(***************************************************************************)
(* get_location_entry_idx finds the entry of a hash if there is one, and   *)
(* the end of the chain of its slot if there is none.                      *)
(***************************************************************************)
LEMMA Search ==
    ASSUME NEW table, NEW n, LinkedUpTo(table, n), NEW hash \in Nat
    PROVE  LET idx == get_location_entry_idx(table, hash)
               v == Cell(table, Slot(hash), idx)
           IN  /\ idx \in CellsOf(table, n, Slot(hash))
               /\ \/ /\ v = 0 /\ IsLast(table, n, Slot(hash), idx)
                     /\ \A k \in 1 .. (n - 1) : table.entries[k + 1].hash # hash
                  \/ v \in 1 .. (n - 1) /\ table.entries[v + 1].hash = hash
<1> DEFINE slot == Slot(hash)
           idx == get_location_entry_idx(table, hash)
           v == Cell(table, slot, idx)
<1>1. slot \in Numbers /\ 0 \in CellsOf(table, n, slot) /\ n \in Nat
  BY SlotType DEF CellsOf, LinkedUpTo, TableSet
<1>2. /\ idx \in CellsOf(table, n, slot) /\ Halts(table, hash, idx)
      /\ \A k \in 1 .. (n - 1) : 0 < k /\ table.entries[k + 1].hash = hash => idx < k
  BY <1>1, WalkStays DEF get_location_entry_idx
<1>3. CASE v = 0
  <2>1. IsLast(table, n, slot, idx)
    BY <1>1, <1>2, <1>3 DEF LinkedUpTo, Chained
  <2>2. ASSUME NEW k \in 1 .. (n - 1), table.entries[k + 1].hash = hash PROVE FALSE
    <3>1. k \in CellsOf(table, n, slot)
      BY <2>2 DEF CellsOf, SlotOf
    <3>2. k <= idx
      BY <3>1, <2>1 DEF IsLast
    <3>3. idx < k
      BY <1>2, <2>2
    <3>4. idx \in Nat
      BY <1>1, <1>2 DEF CellsOf
    <3> QED BY <3>2, <3>3, <3>4
  <2> QED BY <1>2, <1>3, <2>1, <2>2
<1>4. CASE v # 0
  <2>1. IsNext(table, n, slot, idx, v)
    BY <1>1, <1>2, <1>4 DEF LinkedUpTo, Chained
  <2>2. v \in 1 .. (n - 1)
    BY <2>1, <1>4 DEF IsNext, CellsOf
  <2>3. table.entries[v + 1].hash = hash
    BY <1>2, <1>4 DEF Halts
  <2> QED BY <1>2, <2>2, <2>3
<1> QED BY <1>3, <1>4

-----------------------------------------------------------------------------
(* store_location *)

NewEntry(hash, offset) == [hash |-> hash, offset |-> offset, next |-> 0]

Pushed(table, entry) == [table EXCEPT !.entries = Append(@, entry)]

\* A push changes no chain.
LEMMA PushLinks ==
    ASSUME NEW table, LinkedUpTo(table, Len(table.entries)),
           NEW entry \in EntrySet, entry.next = 0
    PROVE  /\ LinkedUpTo(Pushed(table, entry), Len(table.entries))
           /\ Len(Pushed(table, entry).entries) = Len(table.entries) + 1
           /\ Pushed(table, entry).hash_table = table.hash_table
           /\ \A k \in 1 .. Len(table.entries) : Pushed(table, entry).entries[k] = table.entries[k]
           /\ Pushed(table, entry).entries[Len(table.entries) + 1] = entry
<1> DEFINE n == Len(table.entries)
           more == Pushed(table, entry)
<1>1. /\ table \in TableSet /\ table.entries \in Seq(EntrySet) /\ n \in Nat
      /\ table.hash_table \in [Numbers -> Nat]
  BY DEF LinkedUpTo, TableSet
<1>2. more.entries = Append(table.entries, entry) /\ more.hash_table = table.hash_table
  BY <1>1 DEF TableSet, Pushed
<1>3. more \in TableSet
  <2> DEFINE entries == Append(table.entries, entry)
  <2>1. entries \in Seq(EntrySet)
    BY <1>1, AppendProperties
  <2>2. more = [table EXCEPT !.entries = entries]
    BY DEF Pushed
  <2> HIDE DEF entries, more
  <2> QED BY <1>1, <2>1, <2>2 DEF TableSet
<1>4. /\ Len(more.entries) = n + 1 /\ more.entries[n + 1] = entry
      /\ \A k \in 1 .. n : more.entries[k] = table.entries[k]
  BY <1>1, <1>2
<1> HIDE DEF n, more
<1>5. \A slot \in Numbers : CellsOf(more, n, slot) = CellsOf(table, n, slot)
  <2>1. \A c \in 1 .. (n - 1) : more.entries[c + 1] = table.entries[c + 1]
    BY <1>1, <1>4
  <2> QED BY <2>1 DEF CellsOf, SlotOf
<1>6. ASSUME NEW slot \in Numbers, NEW c \in CellsOf(table, n, slot)
      PROVE  Cell(more, slot, c) = Cell(table, slot, c)
  <2>1. c = 0 \/ c + 1 \in 1 .. n
    BY <1>1 DEF CellsOf
  <2> QED BY <2>1, <1>2, <1>4 DEF Cell
<1>7. Chained(more, n)
  BY <1>5, <1>6 DEF Chained, IsLast, IsNext, LinkedUpTo, n
<1>8. \A k \in (n + 1) .. Len(more.entries) : more.entries[k].next = 0
  BY <1>1, <1>4
<1>9. LinkedUpTo(more, n)
  BY <1>1, <1>3, <1>4, <1>7, <1>8 DEF LinkedUpTo
<1> QED BY <1>2, <1>4, <1>9 DEF n, more

\* The fields of the table after a link has been written.
LEMMA LinkedFields ==
    ASSUME NEW table \in TableSet, NEW slot \in Numbers, NEW k \in Nat,
           NEW c \in {0} \cup 1 .. (Len(table.entries) - 1)
    PROVE  LET new == Linked(table, slot, c, k)
           IN  /\ new \in TableSet /\ Len(new.entries) = Len(table.entries)
               /\ \A i \in 1 .. Len(table.entries) :
                     /\ new.entries[i].hash = table.entries[i].hash
                     /\ new.entries[i].offset = table.entries[i].offset
               /\ Cell(new, slot, c) = k
               /\ \A s \in Numbers : \A d \in {0} \cup 1 .. (Len(table.entries) - 1) :
                     (d # c \/ (d = 0 /\ s # slot)) => Cell(new, s, d) = Cell(table, s, d)
<1> DEFINE new == Linked(table, slot, c, k)
           len == Len(table.entries)
<1>1. /\ table.entries \in Seq(EntrySet) /\ len \in Nat
      /\ table.hash_table \in [Numbers -> Nat]
  BY DEF TableSet
<1>2. CASE c = 0
  <2>1. new = [table EXCEPT !.hash_table[slot] = k]
    BY <1>2 DEF Linked
  <2>2. /\ new.entries = table.entries /\ new \in TableSet
        /\ new.hash_table = [table.hash_table EXCEPT ![slot] = k]
    BY <1>1, <2>1 DEF TableSet
  <2> HIDE DEF new
  <2>3. Cell(new, slot, c) = k
    BY <1>1, <1>2, <2>2 DEF Cell
  <2>4. ASSUME NEW s \in Numbers, NEW d \in {0} \cup 1 .. (len - 1), d # c \/ (d = 0 /\ s # slot)
        PROVE  Cell(new, s, d) = Cell(table, s, d)
    BY <1>1, <1>2, <2>2, <2>4 DEF Cell
  <2> QED BY <2>2, <2>3, <2>4 DEF new
<1>3. CASE c # 0
  <2>0. c + 1 \in 1 .. len /\ c \in Nat
    BY <1>1, <1>3
  <2>1. new = [table EXCEPT !.entries[c + 1].next = k]
    BY <1>3 DEF Linked
  <2>2. table.entries[c + 1] \in EntrySet
    BY <1>1, <2>0
  <2> DEFINE changed == [table.entries[c + 1] EXCEPT !.next = k]
  <2>3. changed \in EntrySet
    BY <2>2 DEF EntrySet
  <2>4. changed.hash = table.entries[c + 1].hash /\ changed.offset = table.entries[c + 1].offset
        /\ changed.next = k
    BY <2>2 DEF EntrySet
  <2>5. /\ new.entries = [table.entries EXCEPT ![c + 1] = changed]
        /\ new.hash_table = table.hash_table
    BY <1>1, <2>1 DEF TableSet
  <2>6. new = [table EXCEPT !.entries = [table.entries EXCEPT ![c + 1] = changed]]
    BY <2>1
  <2> HIDE DEF changed
  <2>7. [table.entries EXCEPT ![c + 1] = changed] \in Seq(EntrySet)
        /\ Len([table.entries EXCEPT ![c + 1] = changed]) = len
    BY <1>1, <2>0, <2>3
  <2>8. new \in TableSet
    BY <2>6, <2>7 DEF TableSet
  <2>9. new.entries[c + 1] = changed /\ \A i \in 1 .. len : i # c + 1 => new.entries[i] = table.entries[i]
    BY <1>1, <2>0, <2>5
  <2> HIDE DEF new
  <2>10. Cell(new, slot, c) = k
    BY <1>3, <2>4, <2>9 DEF Cell
  <2>11. ASSUME NEW s \in Numbers, NEW d \in {0} \cup 1 .. (len - 1), d # c \/ (d = 0 /\ s # slot)
         PROVE  Cell(new, s, d) = Cell(table, s, d)
    <3>1. CASE d = 0
      BY <3>1, <2>5 DEF Cell
    <3>2. CASE d # 0
      <4>1. d + 1 \in 1 .. len /\ d + 1 # c + 1
        BY <3>2, <2>11, <2>0, <1>1
      <4> QED BY <3>2, <4>1, <2>9 DEF Cell
    <3> QED BY <3>1, <3>2
  <2>12. \A i \in 1 .. len : new.entries[i].hash = table.entries[i].hash
                             /\ new.entries[i].offset = table.entries[i].offset
    BY <2>4, <2>9
  <2>13. Len(new.entries) = len
    BY <2>5, <2>7
  <2> QED BY <2>8, <2>10, <2>11, <2>12, <2>13 DEF new
<1> QED BY <1>2, <1>3

(***************************************************************************)
(* store_location of a hash the table has no entry of: the chains go on    *)
(* through the entries of their slots, the new one included, and the       *)
(* assertion of store_location holds.                                      *)
(***************************************************************************)
LEMMA StoreLinks ==
    ASSUME NEW table, LinkedUpTo(table, Len(table.entries)), NEW hash \in Nat, NEW offset \in Nat,
           \A k \in 1 .. Len(table.entries) : table.entries[k].hash # hash
    PROVE  LET new == store_location(table, hash, offset)
               n == Len(table.entries)
           IN  /\ LinkedUpTo(new, n + 1) /\ Len(new.entries) = n + 1
               /\ \A k \in 1 .. n : /\ new.entries[k].hash = table.entries[k].hash
                                    /\ new.entries[k].offset = table.entries[k].offset
               /\ new.entries[n + 1].hash = hash /\ new.entries[n + 1].offset = offset
<1> DEFINE n == Len(table.entries)
           entry == NewEntry(hash, offset)
           pushed == Pushed(table, entry)
           slot == Slot(hash)
           idx == get_location_entry_idx(pushed, hash)
           new == Linked(pushed, slot, idx, n)
<1>1. entry \in EntrySet /\ entry.next = 0 /\ entry.hash = hash /\ entry.offset = offset
  BY DEF NewEntry, EntrySet
<1>2. /\ LinkedUpTo(pushed, n) /\ Len(pushed.entries) = n + 1
      /\ \A k \in 1 .. n : pushed.entries[k] = table.entries[k]
      /\ pushed.entries[n + 1] = entry
  BY <1>1, PushLinks
<1>3. n \in Nat /\ slot \in Numbers /\ pushed \in TableSet
  BY <1>2, SlotType DEF LinkedUpTo, TableSet
<1> HIDE DEF n, entry, pushed, slot, idx
<1>4. \A k \in 1 .. (n - 1) : pushed.entries[k + 1].hash # hash
  <2>1. \A k \in 1 .. (n - 1) : k + 1 \in 1 .. n
    BY <1>3
  <2> QED BY <2>1, <1>2 DEF n
<1>5. /\ idx \in CellsOf(pushed, n, slot) /\ Cell(pushed, slot, idx) = 0
      /\ IsLast(pushed, n, slot, idx)
  BY <1>2, <1>4, Search DEF idx, slot
<1>6. idx \in {0} \cup 1 .. (n - 1)
  BY <1>5 DEF CellsOf
<1>7. store_location(table, hash, offset) = new
  <2>1. [pushed EXCEPT !.entries[n + 1].next = 0] = pushed
    <3>1. [pushed.entries[n + 1] EXCEPT !.next = 0] = pushed.entries[n + 1]
      BY <1>1, <1>2 DEF EntrySet
    <3>2. [pushed.entries EXCEPT ![n + 1] = pushed.entries[n + 1]] = pushed.entries
      BY <1>3 DEF TableSet
    <3>3. [pushed EXCEPT !.entries = pushed.entries] = pushed
      BY <1>3 DEF TableSet
    <3>4. [pushed EXCEPT !.entries[n + 1].next = 0]
            = [pushed EXCEPT !.entries = [pushed.entries EXCEPT ![n + 1] =
                                             [pushed.entries[n + 1] EXCEPT !.next = 0]]]
      OBVIOUS
    <3> QED BY <3>1, <3>2, <3>3, <3>4
  <2>2. store_location(table, hash, offset)
          = Linked([pushed EXCEPT !.entries[n + 1].next = Cell(pushed, slot, idx)], slot, idx, n)
    BY DEF store_location, pushed, Pushed, entry, NewEntry, slot, idx, n
  <2> QED BY <2>1, <2>2, <1>5
<1>8. /\ new \in TableSet /\ Len(new.entries) = n + 1
      /\ \A i \in 1 .. (n + 1) : /\ new.entries[i].hash = pushed.entries[i].hash
                                 /\ new.entries[i].offset = pushed.entries[i].offset
      /\ Cell(new, slot, idx) = n
      /\ \A s \in Numbers : \A d \in {0} \cup 1 .. n :
            (d # idx \/ (d = 0 /\ s # slot)) => Cell(new, s, d) = Cell(pushed, s, d)
  <2>1. idx \in {0} \cup 1 .. (Len(pushed.entries) - 1)
    BY <1>2, <1>3, <1>6
  <2>2. Len(pushed.entries) - 1 = n
    BY <1>2, <1>3
  <2> QED BY <2>1, <2>2, <1>2, <1>3, LinkedFields
<1> HIDE DEF new
<1>9. \A c \in 1 .. n : SlotOf(new, c) = SlotOf(pushed, c)
  <2>1. \A c \in 1 .. n : c + 1 \in 1 .. (n + 1)
    BY <1>3
  <2> QED BY <2>1, <1>8 DEF SlotOf
<1>10. n # 0 => SlotOf(pushed, n) = slot
  BY <1>1, <1>2 DEF SlotOf, slot
<1>11. ASSUME NEW s \in Numbers
       PROVE  /\ CellsOf(pushed, n, s) \subseteq CellsOf(new, n + 1, s)
              /\ \A d \in CellsOf(new, n + 1, s) :
                    d \in CellsOf(pushed, n, s) \/ (d = n /\ n # 0 /\ s = slot)
              /\ n # 0 => n \in CellsOf(new, n + 1, slot)
  BY <1>3, <1>9, <1>10 DEF CellsOf
<1>12. \A s \in Numbers : \A d \in CellsOf(pushed, n, s) : d \in {0} \cup 1 .. n /\ d \in Nat /\ (n # 0 => d < n)
  BY <1>3 DEF CellsOf
<1>13. Chained(new, n + 1)
  <2> SUFFICES ASSUME NEW s \in Numbers, NEW c \in CellsOf(new, n + 1, s)
               PROVE  LET v == Cell(new, s, c)
                      IN  IF v = 0 THEN IsLast(new, n + 1, s, c) ELSE IsNext(new, n + 1, s, c, v)
    BY Zenon DEF Chained
  <2>0. Chained(pushed, n)
    BY <1>2 DEF LinkedUpTo
  <2>1. CASE n = 0
    <3>1. c = 0 /\ c \in CellsOf(pushed, n, s) /\ CellsOf(new, n + 1, s) = {0} /\ CellsOf(pushed, n, s) = {0}
      BY <2>1 DEF CellsOf
    <3>2. IsLast(new, n + 1, s, c)
      BY <3>1 DEF IsLast
    <3>3. Cell(new, s, c) = 0
      <4>1. CASE s = slot
        BY <3>1, <4>1, <1>8, <1>6, <2>1
      <4>2. CASE s # slot
        <5>1. Cell(new, s, c) = Cell(pushed, s, c)
          BY <3>1, <4>2, <1>8
        <5>2. ~IsNext(pushed, n, s, c, Cell(pushed, s, c))
          BY <3>1 DEF IsNext
        <5>3. Cell(pushed, s, c) = 0
          BY <5>2, <3>1, <2>0 DEF Chained
        <5> QED BY <5>1, <5>3
      <4> QED BY <4>1, <4>2
    <3> QED BY <3>2, <3>3
  <2>2. CASE n # 0 /\ s # slot
    <3>1. CellsOf(new, n + 1, s) = CellsOf(pushed, n, s)
      BY <2>2, <1>11
    <3>2. c # idx \/ c = 0
      BY <3>1, <1>5, <2>2 DEF CellsOf
    <3>3. Cell(new, s, c) = Cell(pushed, s, c)
      BY <3>1, <3>2, <1>8, <1>12, <2>2
    <3> QED BY <3>1, <3>3, <2>0 DEF Chained, IsLast, IsNext
  <2>3. CASE n # 0 /\ s = slot
    <3>1. CASE c = idx
      <4>1. Cell(new, s, c) = n
        BY <3>1, <2>3, <1>8
      <4>2. n \in CellsOf(new, n + 1, s) /\ c < n
        BY <2>3, <1>5, <1>11, <1>12, <3>1
      <4>3. ASSUME NEW d \in CellsOf(new, n + 1, s), c < d PROVE n <= d
        <5>1. CASE d \in CellsOf(pushed, n, s)
          <6>1. d <= c
            BY <5>1, <3>1, <1>5, <2>3 DEF IsLast
          <6> QED BY <6>1, <4>3, <5>1, <1>12, <3>1, <1>5, <2>3
        <5>2. CASE d = n
          BY <5>2, <1>3
        <5> QED BY <5>1, <5>2, <1>11
      <4>4. IsNext(new, n + 1, s, c, n)
        BY <4>2, <4>3 DEF IsNext
      <4> QED BY <4>1, <4>4, <2>3
    <3>2. CASE c = n
      <4>1. c # idx /\ c \in {0} \cup 1 .. n
        BY <3>2, <1>6, <2>3, <1>3
      <4>2. Cell(new, s, c) = Cell(pushed, s, c)
        BY <4>1, <1>8
      <4>3. Cell(pushed, s, c) = 0
        BY <3>2, <2>3, <1>1, <1>2 DEF Cell
      <4>4. IsLast(new, n + 1, s, c)
        <5>1. \A d \in CellsOf(pushed, n, s) : d <= n
          BY <1>12, <2>3, <1>3
        <5> QED BY <5>1, <3>2, <1>11, <1>3 DEF IsLast
      <4> QED BY <4>2, <4>3, <4>4
    <3>3. CASE c # idx /\ c # n
      <4> DEFINE v == Cell(pushed, s, c)
      <4>1. c \in CellsOf(pushed, n, s) /\ c \in {0} \cup 1 .. n
        BY <3>3, <1>11, <1>12
      <4>2. Cell(new, s, c) = v
        BY <4>1, <3>3, <1>8
      <4>3. v # 0
        <5> SUFFICES ASSUME v = 0 PROVE FALSE
          OBVIOUS
        <5>1. IsLast(pushed, n, s, c)
          BY <4>1, <2>0 DEF Chained
        <5>2. idx <= c /\ c <= idx
          BY <5>1, <4>1, <1>5, <2>3 DEF IsLast
        <5>3. idx \in Nat /\ c \in Nat
          BY <1>5, <1>12, <4>1, <2>3
        <5> QED BY <5>2, <5>3, <3>3
      <4>4. IsNext(pushed, n, s, c, v)
        BY <4>1, <4>3, <2>0 DEF Chained
      <4>5. v \in CellsOf(pushed, n, s) /\ c < v /\ v < n /\ v \in Nat
        BY <4>4, <1>12, <2>3 DEF IsNext
      <4>6. ASSUME NEW d \in CellsOf(new, n + 1, s), c < d PROVE v <= d
        <5>1. CASE d \in CellsOf(pushed, n, s)
          BY <5>1, <4>4, <4>6 DEF IsNext
        <5>2. CASE d = n
          BY <5>2, <4>5, <1>3
        <5> QED BY <5>1, <5>2, <1>11
      <4>7. IsNext(new, n + 1, s, c, v)
        BY <4>5, <4>6, <1>11 DEF IsNext
      <4> QED BY <4>2, <4>3, <4>7
    <3> QED BY <3>1, <3>2, <3>3
  <2> QED BY <2>1, <2>2, <2>3
<1>14. LinkedUpTo(new, n + 1)
  <2>1. n + 1 \in 0 .. Len(new.entries) /\ (n + 2) .. Len(new.entries) = {}
    BY <1>3, <1>8
  <2> QED BY <2>1, <1>8, <1>13, <1>3 DEF LinkedUpTo
<1>15. \A k \in 1 .. n : /\ new.entries[k].hash = table.entries[k].hash
                         /\ new.entries[k].offset = table.entries[k].offset
  <2>1. \A k \in 1 .. n : k \in 1 .. (n + 1)
    BY <1>3
  <2> QED BY <2>1, <1>2, <1>8
<1>16. new.entries[n + 1].hash = hash /\ new.entries[n + 1].offset = offset
  <2>1. n + 1 \in 1 .. (n + 1)
    BY <1>3
  <2> QED BY <2>1, <1>1, <1>2, <1>8
<1> QED BY <1>7, <1>8, <1>14, <1>15, <1>16 DEF n

-----------------------------------------------------------------------------
(***************************************************************************)
(* What is true of the table of locations while the reader fills it: every *)
(* entry is on the chain of its slot, the entries are those of the         *)
(* addresses so far, and each location is in the text.                     *)
(***************************************************************************)
LocsInv ==
    /\ LinkedUpTo(locs, Len(locs.entries))
    /\ Len(locs.entries) <= Len(Addresses)
    /\ \A k \in 1 .. Len(locs.entries) :
          /\ locs.entries[k].hash = Addresses[k]
          /\ locs.entries[k].offset \in 1 .. (Len(text) + 1)

\* The token read last is in the text, or at its end.
NextInv == next.offset \in 1 .. (Len(text) + 1)

LEMMA InitLocs == ReaderInit => LocsInv /\ NextInv
<1> SUFFICES ASSUME ReaderInit PROVE LocsInv /\ NextInv
  OBVIOUS
<1>1. text \in Seq(STRING) /\ next = NoToken /\ locs = NoLocations
  BY TextsAssumption DEF ReaderInit, Init
<1>2. NextInv
  BY <1>1 DEF NextInv, NoToken, Tokens!NoToken, Tokens!Token
<1>3. /\ locs.entries = <<>> /\ Len(locs.entries) = 0
      /\ locs.hash_table = [s \in Numbers |-> 0]
  BY <1>1 DEF NoLocations, Numbers
<1>4. locs \in TableSet
  <2>1. <<>> \in Seq(EntrySet)
    OBVIOUS
  <2> QED BY <1>1, <2>1 DEF NoLocations, Numbers, TableSet
<1>5. Chained(locs, 0)
  <2>1. \A slot \in Numbers : CellsOf(locs, 0, slot) = {0} /\ Cell(locs, slot, 0) = 0
    BY <1>3 DEF CellsOf, Cell
  <2> QED BY <2>1 DEF Chained, IsLast
<1>6. LinkedUpTo(locs, Len(locs.entries))
  BY <1>3, <1>4, <1>5 DEF LinkedUpTo
<1>7. Len(Addresses) \in Nat
  BY AddressesAssumption
<1> QED BY <1>2, <1>3, <1>6, <1>7 DEF LocsInv

\* A cons gets a location.
LEMMA RecordKeepsLocs ==
    ASSUME LocsInv, NextInv, text \in Seq(STRING), record_location, UNCHANGED text
    PROVE  LocsInv'
<1> DEFINE n == Len(locs.entries)
           hash == Addresses[n + 1]
           offset == next.offset
           new == store_location(locs, hash, offset)
<1>1. /\ LinkedUpTo(locs, n) /\ n \in Nat /\ n < Len(Addresses) /\ Len(Addresses) \in Nat
      /\ \A k \in 1 .. n : /\ locs.entries[k].hash = Addresses[k]
                           /\ locs.entries[k].offset \in 1 .. (Len(text) + 1)
  BY AddressesAssumption DEF LocsInv, LinkedUpTo, TableSet, record_location
<1>2. n + 1 \in DOMAIN Addresses /\ \A k \in 1 .. n : k \in DOMAIN Addresses /\ k # n + 1
  BY <1>1, AddressesAssumption
<1>3. hash \in Nat /\ \A k \in 1 .. n : locs.entries[k].hash # hash
  BY <1>1, <1>2, AddressesAssumption
<1>4. offset \in 1 .. (Len(text) + 1) /\ offset \in Nat
  BY DEF NextInv
<1>5. locs' = new /\ text' = text
  BY DEF record_location
<1> HIDE DEF hash, offset
<1>6. /\ LinkedUpTo(new, n + 1) /\ Len(new.entries) = n + 1
      /\ \A k \in 1 .. n : /\ new.entries[k].hash = locs.entries[k].hash
                           /\ new.entries[k].offset = locs.entries[k].offset
      /\ new.entries[n + 1].hash = hash /\ new.entries[n + 1].offset = offset
  BY <1>1, <1>3, <1>4, StoreLinks
<1> HIDE DEF new, hash, offset
<1>7. \A k \in 1 .. (n + 1) : /\ new.entries[k].hash = Addresses[k]
                              /\ new.entries[k].offset \in 1 .. (Len(text) + 1)
  <2>1. \A k \in 1 .. (n + 1) : k \in 1 .. n \/ k = n + 1
    BY <1>1
  <2> QED BY <2>1, <1>1, <1>4, <1>6 DEF hash
<1>8. \A table : table = new =>
        /\ LinkedUpTo(table, Len(table.entries)) /\ Len(table.entries) <= Len(Addresses)
        /\ \A k \in 1 .. Len(table.entries) :
              /\ table.entries[k].hash = Addresses[k]
              /\ table.entries[k].offset \in 1 .. (Len(text) + 1)
  BY <1>1, <1>6, <1>7
<1> QED BY <1>5, <1>8 DEF LocsInv

\* What the calls of the reader do with the lexer and with the table.
LEMMA ReaderSteps ==
    ASSUME ReaderNext
    PROVE  /\ Begin \/ Scan \/ Finish \/ UNCHANGED vars
           /\ \/ UNCHANGED locs
              \/ UNCHANGED vars /\ record_location
<1>1. CASE PeekBegin \/ PeekScan \/ PeekEnd
  BY <1>1 DEF PeekBegin, PeekScan, PeekEnd, reader
<1>2. CASE ExprAtom \/ ExprQuote \/ ExprList \/ ExprEof \/ ExprOther \/ ExprQuoted
  BY <1>2 DEF ExprAtom, ExprQuote, ExprList, ExprEof, ExprOther, ExprQuoted, Sees
<1>3. CASE ListEmpty \/ ListFirst \/ ListNext \/ ListEnd \/ ListEof
  BY <1>3 DEF ListEmpty, ListFirst, ListNext, ListEnd, ListEof, Sees
<1>4. CASE ListDot \/ DotCdr \/ DotEnd \/ DotNoEnd \/ AstEnd
  BY <1>4 DEF ListDot, DotCdr, DotEnd, DotNoEnd, AstEnd, Sees
<1>5. CASE ListElement
  BY <1>5 DEF ListElement
<1> QED BY <1>1, <1>2, <1>3, <1>4, <1>5 DEF ReaderNext

LEMMA StepKeepsNext ==
    ASSUME IInv, NextInv, Begin \/ Scan \/ Finish \/ UNCHANGED vars
    PROVE  NextInv'
<1>1. CASE Begin \/ Scan \/ UNCHANGED vars
  BY <1>1 DEF NextInv, Begin, Scan, vars
<1>2. CASE Finish
  <2>1. /\ token_start \in Nat /\ TokenEnd \in token_start .. (Len(text) + 1)
        /\ cursor <= token_start /\ cursor \in Nat /\ 1 <= cursor /\ Len(text) \in Nat
    BY <1>2, FoundIsNext DEF Finish, IInv, LexerTypeOK
  <2>2. token_start \in 1 .. (Len(text) + 1)
    BY <2>1
  <2>3. (next.offset)' = token_start /\ text' = text
    BY <1>2 DEF Finish, Token, Tokens!Token
  <2> QED BY <2>2, <2>3 DEF NextInv
<1> QED BY <1>1, <1>2

-----------------------------------------------------------------------------
(***************************************************************************)
(* The reader gets at the characters only through hll_lexer_next, and      *)
(* calls it only when it is not running: whatever was proved of the lexer  *)
(* is true of it in the reader.                                            *)
(***************************************************************************)
THEOREM LexerRuns == ReaderSpec => Spec
<1>1. ReaderInit => Init
  BY DEF ReaderInit
<1>2. [ReaderNext]_readerVars => [Next]_vars
  BY ReaderSteps DEF readerVars, Next
<1> QED BY <1>1, <1>2, PTL DEF ReaderSpec, Spec

\* The reader never makes the lexer look past the NUL that ends the text.
THEOREM ReaderInText == ReaderSpec => []StaysInText
BY LexerRuns, InText, PTL

\* The tokens the reader is given are those of the text.
THEOREM ReaderFindsTokens == ReaderSpec => FindsTokens
BY LexerRuns, Refinement, PTL

(***************************************************************************)
(* The chains of the table are complete and in order after every location  *)
(* that is stored.                                                         *)
(***************************************************************************)
THEOREM LocsInvariance == ReaderSpec => [](LocsInv /\ NextInv)
<1>1. IInv /\ LocsInv /\ NextInv /\ [ReaderNext]_readerVars => (LocsInv /\ NextInv)'
  <2> SUFFICES ASSUME IInv, LocsInv, NextInv, [ReaderNext]_readerVars
               PROVE  LocsInv' /\ NextInv'
    OBVIOUS
  <2>1. /\ Begin \/ Scan \/ Finish \/ UNCHANGED vars
        /\ \/ UNCHANGED locs
           \/ UNCHANGED vars /\ record_location
    BY ReaderSteps DEF readerVars, reader
  <2>2. NextInv'
    BY <2>1, StepKeepsNext
  <2>3. text' = text /\ text \in Seq(STRING)
    BY <2>1 DEF Begin, Scan, Finish, vars, IInv, LexerTypeOK
  <2>4. CASE UNCHANGED locs
    BY <2>2, <2>3, <2>4 DEF LocsInv
  <2>5. CASE record_location
    BY <2>2, <2>3, <2>5, RecordKeepsLocs
  <2> QED BY <2>1, <2>4, <2>5
<1> QED BY InitLocs, LexerRuns, Invariance, <1>1, PTL DEF ReaderSpec

(***************************************************************************)
(* get_location_entry finds every entry that was stored, whatever the      *)
(* addresses, the size of the table and the order the slots are met in,    *)
(* and nothing for an address without one; what is found is in the text.   *)
(***************************************************************************)
THEOREM LocationsAreKept == ReaderSpec => []LocationsKept
<1>1. LocsInv => LocationsKept
  <2> SUFFICES ASSUME LocsInv PROVE LocationsKept
    OBVIOUS
  <2> DEFINE n == Len(locs.entries)
  <2>1. /\ LinkedUpTo(locs, n) /\ n \in Nat /\ n <= Len(Addresses) /\ Len(Addresses) \in Nat
        /\ locs.entries \in Seq(EntrySet)
        /\ \A k \in 1 .. n : /\ locs.entries[k].hash = Addresses[k]
                             /\ locs.entries[k].offset \in 1 .. (Len(text) + 1)
    BY AddressesAssumption DEF LocsInv, LinkedUpTo, TableSet
  <2>2. DOMAIN locs.entries = 1 .. n /\ DOMAIN Addresses = 1 .. Len(Addresses)
    BY <2>1, AddressesAssumption
  <2>3. ASSUME NEW i \in 1 .. Len(Addresses)
        PROVE  get_location_entry(locs, Addresses[i]) = IF i \in 2 .. n THEN i - 1 ELSE 0
    <3> DEFINE v == get_location_entry(locs, Addresses[i])
    <3>0. Addresses[i] \in Nat
      BY <2>2, AddressesAssumption
    <3>1. \/ v = 0 /\ \A k \in 1 .. (n - 1) : locs.entries[k + 1].hash # Addresses[i]
          \/ v \in 1 .. (n - 1) /\ locs.entries[v + 1].hash = Addresses[i]
      BY <3>0, <2>1, Search DEF get_location_entry
    <3> HIDE DEF v
    <3>2. CASE v = 0 /\ \A k \in 1 .. (n - 1) : locs.entries[k + 1].hash # Addresses[i]
      <4>1. ASSUME i \in 2 .. n PROVE FALSE
        <5>1. i - 1 \in 1 .. (n - 1) /\ (i - 1) + 1 = i /\ i \in 1 .. n
          BY <2>1, <4>1
        <5> QED BY <5>1, <3>2, <2>1
      <4> QED BY <4>1, <3>2 DEF v
    <3>3. CASE v \in 1 .. (n - 1) /\ locs.entries[v + 1].hash = Addresses[i]
      <4>1. v + 1 \in 1 .. n /\ v + 1 \in DOMAIN Addresses
        BY <3>3, <2>1, <2>2
      <4>2. Addresses[v + 1] = Addresses[i]
        BY <4>1, <3>3, <2>1
      <4>3. v + 1 = i
        BY <4>1, <4>2, <2>2, AddressesAssumption
      <4> QED BY <4>3, <3>3, <2>1 DEF v
    <3> QED BY <3>1, <3>2, <3>3
  <2>4. ASSUME NEW k \in 1 .. n PROVE get_location_entry(locs, locs.entries[k].hash) = k - 1
    <3>1. k \in 1 .. Len(Addresses) /\ locs.entries[k].hash = Addresses[k]
      BY <2>1
    <3>2. get_location_entry(locs, Addresses[k]) = IF k \in 2 .. n THEN k - 1 ELSE 0
      BY <3>1, <2>3
    <3>3. k \notin 2 .. n => k - 1 = 0
      BY <2>1
    <3> QED BY <3>1, <3>2, <3>3
  <2>5. ASSUME NEW i \in (n + 1) .. Len(Addresses) PROVE get_location_entry(locs, Addresses[i]) = 0
    <3>1. i \in 1 .. Len(Addresses) /\ i \notin 2 .. n
      BY <2>1
    <3> QED BY <3>1, <2>3
  <2> QED BY <2>1, <2>2, <2>4, <2>5 DEF LocationsKept
<1> QED BY <1>1, LocsInvariance, PTL
=============================================================================
