------------------------- MODULE Mvcc_search_proofs -------------------------
(***************************************************************************)
(* Theorems about the searches of module Mvcc: what a search has put out   *)
(* while merges start, move keys under it and stop is exact, and a delete  *)
(* mark it sees is followed by its row.  The invariant is ScanInv.         *)
(***************************************************************************)
EXTENDS Mvcc_proofs

-----------------------------------------------------------------------------
(***************************************************************************)
(* The invariant of a search.  Keys are compared as they were written, so  *)
(* that it does not matter whether a copy is patched.                      *)
(***************************************************************************)

\* The written keys that t has to see, with its own statements up to m.
Seen(t, m) == {k \in written : Sees(t, m, k.id)}

\* The rows that a transaction has to find that sees the keys V.
RowsOf(V) ==
  {r \in Rows : /\ r \in Stored \/ \E k \in V : k.row = r /\ ~k.del
                /\ ~ \E k \in V : k.row = r /\ k.del}

\* The written key k has a copy in bb.
Copied(k, bb) == \E b \in bb : [b EXCEPT !.num = 0] = k

\* The search at p has passed the place of the row r in the storage tree.
Done(r, p) == Pos(StorageKey(r)) <= p

LeafOf(k) == BonsaiLeaf[<<k.row, k.del>>]

\* The place of a row or of a delete mark is not behind the leaf copied to bb,
\* or to sb.
ReachB(bb, r, d) == \A j \in bb : BonsaiLeaf[<<r, d>>] <= LeafOf(j)
ReachS(sb, r) == \A j \in sb : StorageLeaf[r] <= StorageLeaf[j.row]

\* bb, and sb, is up to date: between p and the end of its leaf it has what the
\* tree has.
FreshB(V, p, bb) ==
  \A k \in V : Copied(k, bb) <=> InBonsai(k) /\ Pos(k) > p /\ ReachB(bb, k.row, k.del)
FreshS(p, sb) ==
  \A r \in Rows : StorageKey(r) \in sb <=> r \in storage /\ ~Done(r, p) /\ ReachS(sb, r)

\* bb is an old copy, but nothing is in the tree that it has not.
Held(V, p, bb) ==
  \A k \in V : InBonsai(k) /\ Pos(k) > p /\ ReachB(bb, k.row, k.del) => Copied(k, bb)

HasKey(V, bb, r, d) == \E k \in V : k.row = r /\ k.del = d /\ Copied(k, bb)
HasRow(V, bb, sb, r) == StorageKey(r) \in sb \/ HasKey(V, bb, r, FALSE)
HasDel(V, p, mark, bb, r) == (mark /\ r = RowOf(p)) \/ HasKey(V, bb, r, TRUE)

\* The two copies, of whatever time each, tell together which rows are there: a
\* row is in one of them, and its delete only together with it.
Exact(V, p, mark, bb, sb) ==
  \A r \in Rows : ~Done(r, p) /\ ReachB(bb, r, FALSE) /\ ReachS(sb, r) =>
    /\ r \in RowsOf(V) <=> HasRow(V, bb, sb, r) /\ ~HasDel(V, p, mark, bb, r)
    /\ HasDel(V, p, mark, bb, r) => HasRow(V, bb, sb, r)
    /\ StorageKey(r) \in sb => ~HasKey(V, bb, r, FALSE)

\* The copies are of one leaf each, behind p, and have no place twice.
Shape(p, bb, sb) ==
  /\ \A k \in bb \cup sb : Pos(k) > p
  /\ sb \subseteq {StorageKey(r) : r \in Rows}
  /\ \A j, k \in bb : LeafOf(j) = LeafOf(k) /\ (Pos(j) = Pos(k) => j = k)
  /\ \A j, k \in sb : StorageLeaf[j.row] = StorageLeaf[k.row]

\* What the search has passed: no delete mark without its row, unless it was the
\* last key, and no row with its key in the Bonsai tree still to come.
Passed(V, p, mark, bb) ==
  /\ \A k \in V : InBonsai(k) \/ Copied(k, bb) =>
       /\ k.del /\ Pos(k) <= p /\ ~Done(k.row, p) => mark
       /\ ~k.del /\ Done(k.row, p) => Pos(k) <= p
  /\ mark => \E k \in V : k.del /\ k.row = RowOf(p) /\ ~Done(k.row, p)

\* The delete mark that was the last key is still in the tree.
MarkThere(V, p) == \E k \in V : k.del /\ k.row = RowOf(p) /\ InBonsai(k)

\* No merge can move keys under the search.
IsFresh(s) == ~s.active \/ s.ingate

\* The copies serve the next step.
Ready(V, s) ==
  /\ IsFresh(s) =>
       /\ s.edge # "bonsai" => FreshB(V, s.pos, s.bbuf)
       /\ s.edge # "storage" => FreshS(s.pos, s.sbuf)
       /\ s.deletenext => MarkThere(V, s.pos)
  /\ ~IsFresh(s) /\ s.edge = "no" =>
       /\ Held(V, s.pos, s.bbuf)
       /\ Exact(V, s.pos, s.deletenext, s.bbuf, s.sbuf)

\* A search between two steps, of a transaction that sees the keys V.
OnOK(V, s) ==
  /\ Shape(s.pos, s.bbuf, s.sbuf)
  /\ Passed(V, s.pos, s.deletenext, s.bbuf)
  /\ s.out = {r \in RowsOf(V) : Done(r, s.pos)}
  /\ s.ingate => s.deletenext
  /\ s.reset => ~s.deletenext
  /\ ~s.reset => Ready(V, s)

ClearSearch(s) ==
  /\ s.pos = 0 /\ s.edge = "no" /\ s.out = {} /\ s.bbuf = {} /\ s.sbuf = {}
  /\ ~s.deletenext /\ ~s.reset /\ ~s.ingate

SearchOK(t) ==
  LET s == sea[t]
      V == Seen(t, s.maxid)
  IN /\ s.st \in {"new", "adding", "listed"} => ClearSearch(s)
     /\ s.st = "end" => ~s.deletenext /\ ~s.ingate
     /\ s.st = "end" /\ trxst[t] = "begin" => s.out = RowsOf(V)
     /\ s.st = "on" => OnOK(V, s)

\* A search is that of a running transaction, and sees no open statement of it.
ViewInv ==
  \A t \in Readers :
    /\ sea[t].st \in {"adding", "listed", "on"} => trxst[t] = "begin"
    /\ sea[t].st = "end" => trxst[t] # "new"
    /\ \A i \in 1..trxid : stmt[i].trx = t /\ i <= sea[t].maxid => stmt[i].st # "open"
    /\ sea[t].maxid <= trxid

\* The statements of a transaction run one after the other, and a row is deleted
\* after it was inserted.
OrderInv ==
  /\ \A i, j \in 1..trxid : stmt[i].trx = stmt[j].trx /\ stmt[i].st = "open" => j <= i
  /\ \A k, d \in written :
       k.row = d.row /\ ~k.del /\ d.del /\ stmt[k.id].trx = stmt[d.id].trx => k.id <= d.id

\* No key is in a tree twice, patched and not.
SamePlace(S) == \A j, k \in S : Pos(j) = Pos(k) => j = k

ScanInv == ViewInv /\ OrderInv /\ SamePlace(bonsai) /\ \A t \in Readers : SearchOK(t)

-----------------------------------------------------------------------------
(***************************************************************************)
(* Places of keys                                                          *)
(***************************************************************************)

\* The key of a row in the storage tree.
LEMMA StorageKeys ==
  ASSUME NEW r \in Rows
  PROVE  /\ StorageKey(r) \in Keys /\ StorageKey(r).row = r /\ ~StorageKey(r).del
         /\ StorageKey(r).id = 0 /\ Pos(StorageKey(r)) \in Nat
<1>1. MaxId \in Nat /\ r \in Nat
  BY BoundsAssumption
<1>2. StorageKey(r) \in Keys
  BY <1>1 DEF StorageKey, Keys
<1> QED
  BY <1>2, PosNat DEF StorageKey

\* A delete mark comes before its row.
LEMMA RowPlaces ==
  ASSUME NEW k \in Keys
  PROVE  /\ k.del => Pos(k) < Pos(StorageKey(k.row))
         /\ ~k.del => Pos(StorageKey(k.row)) <= Pos(k)
         /\ k.id > 0 => Pos(k) > 0
         /\ Pos(StorageKey(k.row)) > 0
<1>1. k.row \in Nat /\ k.id \in 0..MaxId /\ MaxId \in Nat /\ k.del \in BOOLEAN
  BY KeyFields
<1>2. PICK x \in Nat : x = 2 * (MaxId + 1) * k.row
  BY <1>1
<1>3. Pos(k) = x + (IF k.del THEN 0 ELSE MaxId + 1) + k.id
  BY <1>2 DEF Pos
<1>4. Pos(StorageKey(k.row)) = x + (MaxId + 1) + 0
  BY <1>2 DEF Pos, StorageKey
<1> QED
  BY <1>1, <1>3, <1>4

\* The quotient and the rest.
LEMMA Quotient ==
  ASSUME NEW p \in Nat, NEW c \in Nat, c > 0
  PROVE  p \div c \in Nat /\ c * (p \div c) <= p /\ p <= c * (p \div c) + c - 1
<1>1. PICK q \in Int : q = p \div c
  OBVIOUS
<1>2. PICK m \in 0..(c - 1) : m = p % c
  OBVIOUS
<1>3. p = c * q + m
  BY <1>1, <1>2
<1>4. q >= 0
  <2> SUFFICES ASSUME q < 0
               PROVE  FALSE
    BY <1>1
  <2>1. PICK z \in Nat : q = -1 - z
    <3>1. -1 - q \in Nat
      OBVIOUS
    <3> QED
      BY <3>1
  <2>2. c * q = 0 - c - c * z
    BY <2>1
  <2>3. c * z \in Nat
    BY <2>1
  <2> QED
    BY <1>2, <1>3, <2>2, <2>3
<1>5. c * q \in Int
  BY <1>1
<1> QED
  BY <1>1, <1>2, <1>3, <1>4, <1>5

\* The row of a place.
LEMMA RowPlace ==
  ASSUME NEW p \in Nat
  PROVE  /\ RowOf(p) \in Nat /\ RowEnd(RowOf(p)) \in Nat /\ p <= RowEnd(RowOf(p))
         /\ \A k \in Keys : /\ k.row < RowOf(p) => Pos(k) < p
                            /\ Pos(k) <= p => k.row <= RowOf(p)
                            /\ Pos(k) <= RowEnd(RowOf(p)) <=> k.row <= RowOf(p)
<1>1. MaxId \in Nat
  BY BoundsAssumption
<1>2. PICK m \in Nat : m = MaxId + 1 /\ m > 0
  BY <1>1
<1>3. PICK c \in Nat : c = 2 * m /\ c > 0
  BY <1>2
<1>4. PICK q \in Nat : q = p \div c /\ c * q <= p /\ p <= c * q + c - 1
  BY <1>3, Quotient
<1>5. RowOf(p) = q
  BY <1>2, <1>3, <1>4 DEF RowOf
<1>6. PICK y \in Nat : y = c * q
  BY <1>4
<1>7. RowEnd(q) = y + c - 1
  <2>1. c * (q + 1) = y + c
    BY <1>4, <1>6
  <2> QED
    BY <1>2, <1>3, <2>1 DEF RowEnd
<1>8. ASSUME NEW k \in Keys
      PROVE  /\ k.row < q => Pos(k) < p
             /\ Pos(k) <= p => k.row <= q
             /\ Pos(k) <= y + c - 1 <=> k.row <= q
  <2>1. /\ k.row \in Nat /\ k.id \in 0..MaxId /\ k.del \in BOOLEAN
    BY KeyFields
  <2>2. PICK a \in Nat : a = (IF k.del THEN 0 ELSE m) + k.id
    BY <1>2, <2>1
  <2>3. a < c
    BY <1>1, <1>2, <1>3, <2>1, <2>2
  <2>4. PICK x \in Nat : x = c * k.row
    BY <2>1
  <2>5. Pos(k) = x + a
    BY <1>2, <1>3, <2>1, <2>2, <2>4 DEF Pos
  <2>6. ASSUME NEW i \in Nat, NEW j \in Nat, i < j
        PROVE  c * i + c <= c * j
    <3>1. PICK z \in Nat : j = i + 1 + z
      <4>1. j - i - 1 \in Nat /\ j = i + 1 + (j - i - 1)
        BY <2>6
      <4> QED
        BY <4>1
    <3>2. c * j = c * i + c + c * z
      BY <3>1
    <3>3. c * z \in Nat /\ c * i \in Nat /\ c * j \in Nat
      BY <3>1
    <3> QED
      BY <3>2, <3>3
  <2>7. k.row < q => x + c <= y
    BY <1>6, <2>1, <2>4, <2>6
  <2>8. q < k.row => y + c <= x
    BY <1>6, <2>1, <2>4, <2>6
  <2>9. k.row = q => x = y
    BY <1>6, <2>4
  <2> QED
    BY <1>3, <1>4, <1>6, <2>1, <2>2, <2>3, <2>4, <2>5, <2>7, <2>8, <2>9
<1> QED
  BY <1>3, <1>4, <1>5, <1>6, <1>7, <1>8

\* The row of the place of a key, and of a place between a delete mark and its row.
LEMMA RowOfKey ==
  ASSUME NEW k \in Keys, NEW p \in Nat, Pos(k) <= p,
         (k.del /\ p < Pos(StorageKey(k.row))) \/ p = Pos(k)
  PROVE  RowOf(p) = k.row
<1>1. /\ RowOf(p) \in Nat /\ k.row <= RowOf(p)
      /\ \A j \in Keys : j.row < RowOf(p) => Pos(j) < p
  BY RowPlace
<1>2. k.row \in Nat /\ Pos(k) \in Nat /\ k.row \in Rows
  BY KeyFields, PosNat
<1>3. StorageKey(k.row) \in Keys /\ StorageKey(k.row).row = k.row /\ Pos(StorageKey(k.row)) \in Nat
  BY <1>2, StorageKeys
<1>4. ~(k.row < RowOf(p))
  BY <1>1, <1>2, <1>3
<1> QED
  BY <1>1, <1>2, <1>4

\* The leaves are in the order of the keys.
LEMMA LeafOrder ==
  ASSUME NEW j \in Keys, NEW k \in Keys, Pos(j) <= Pos(k)
  PROVE  /\ LeafOf(j) <= LeafOf(k) /\ LeafOf(j) \in Nat /\ LeafOf(k) \in Nat
         /\ StorageLeaf[j.row] <= StorageLeaf[k.row]
         /\ StorageLeaf[j.row] \in Nat /\ StorageLeaf[k.row] \in Nat
<1>1. /\ j.row \in Rows /\ k.row \in Rows /\ j.row \in Nat /\ k.row \in Nat
      /\ j.del \in BOOLEAN /\ k.del \in BOOLEAN
  BY KeyFields
<1>2. /\ LeafOf(j) \in Nat /\ LeafOf(k) \in Nat
      /\ StorageLeaf[j.row] \in Nat /\ StorageLeaf[k.row] \in Nat
  BY <1>1, LeavesAssumption, BoundsAssumption DEF LeafOf
<1>3. j.row < k.row \/ j.row = k.row
  BY <1>1, PosOrder
<1>4. j.row = k.row => j.del \/ ~k.del
  <2>1. Pos(j) \in Nat /\ Pos(k) \in Nat /\ Pos(StorageKey(k.row)) \in Nat
    BY <1>1, PosNat, StorageKeys
  <2> QED
    BY <2>1, RowPlaces
<1>5. LeafOf(j) <= LeafOf(k)
  <2>1. CASE j.row < k.row \/ (j.row = k.row /\ j.del)
    BY <1>1, <2>1, LeavesAssumption DEF LeafOf
  <2>2. CASE j.row = k.row /\ ~j.del
    <3>1. LeafOf(j) = LeafOf(k)
      BY <1>1, <1>4, <2>2 DEF LeafOf
    <3> QED
      BY <1>2, <3>1
  <2> QED
    BY <1>3, <2>1, <2>2
<1>6. StorageLeaf[j.row] <= StorageLeaf[k.row]
  BY <1>1, <1>2, <1>3, LeavesAssumption
<1> QED
  BY <1>2, <1>5, <1>6

\* The leaf of a key is a number.
LEMMA LeafNumber ==
  ASSUME NEW k \in Keys
  PROVE  LeafOf(k) \in Nat
<1>1. k.row \in Rows /\ k.del \in BOOLEAN
  BY KeyFields
<1>2. \A r \in Rows, d \in BOOLEAN : BonsaiLeaf[<<r, d>>] \in Nat
  BY LeavesAssumption, BoundsAssumption
<1> QED
  BY <1>1, <1>2 DEF LeafOf

-----------------------------------------------------------------------------
(***************************************************************************)
(* A step of a search: the smaller of the first keys of the two copies     *)
(***************************************************************************)

\* What is seen of a row: one insert at most, and one delete, that is not seen
\* without the insert.
View(V) ==
  /\ V \subseteq written
  /\ \A j, k \in V : j.row = k.row /\ j.del = k.del => j = k
  /\ \A d \in V, k \in written : k.row = d.row /\ ~k.del => k \in V

WereWritten(bb) == bb \subseteq Keys /\ \A b \in bb : [b EXCEPT !.num = 0] \in written

\* The search is at p, with copies that serve the next step.
Poised(V, p, mark, bb, sb) ==
  /\ View(V) /\ WereWritten(bb) /\ p \in Nat /\ mark \in BOOLEAN
  /\ Shape(p, bb, sb) /\ Passed(V, p, mark, bb) /\ Held(V, p, bb)
  /\ Exact(V, p, mark, bb, sb)

\* A copy and the key as it was written.
LEMMA CopyKey ==
  ASSUME BaseInv, NEW bb, WereWritten(bb), NEW b \in bb, NEW k, k = [b EXCEPT !.num = 0]
  PROVE  /\ b \in Keys /\ k \in Keys /\ k \in written
         /\ k.row = b.row /\ k.del = b.del /\ k.id = b.id /\ b.id > 0
         /\ Pos(k) = Pos(b) /\ LeafOf(k) = LeafOf(b) /\ Copied(k, bb)
<1>1. b \in Keys /\ k \in written
  BY DEF WereWritten
<1>2. k \in Keys /\ k.row = b.row /\ k.del = b.del /\ k.id = b.id
  BY <1>1, PlainKey
<1>3. k.id \in 1..trxid
  BY <1>1, WrittenKey
<1>4. Pos(k) = Pos(b) /\ LeafOf(k) = LeafOf(b)
  BY <1>2 DEF Pos, LeafOf
<1> QED
  BY <1>1, <1>2, <1>3, <1>4 DEF Copied

\* The copy of a key.
LEMMA CopyOf ==
  ASSUME BaseInv, NEW bb, WereWritten(bb), NEW k, Copied(k, bb)
  PROVE  \E b \in bb : /\ k = [b EXCEPT !.num = 0] /\ b \in Keys
                       /\ k.row = b.row /\ k.del = b.del /\ Pos(k) = Pos(b)
                       /\ LeafOf(k) = LeafOf(b)
<1>1. PICK b \in bb : [b EXCEPT !.num = 0] = k
  BY DEF Copied
<1> QED
  BY <1>1, CopyKey

\* The next key of a search.
NextKey(p, bb, sb, k) == bb \cup sb # {} /\ k = FirstKey(bb \cup sb) /\ Shape(p, bb, sb)

\* The next key lies behind p and before all others of the two copies.
LEMMA NextKeyFields ==
  ASSUME BaseInv, NEW p \in Nat, NEW bb, NEW sb, WereWritten(bb), NEW k, NextKey(p, bb, sb, k)
  PROVE  /\ k \in Keys /\ Pos(k) \in Nat /\ p < Pos(k) /\ k \in bb \cup sb /\ k.row \in Rows
         /\ sb \subseteq Keys
         /\ \A j \in bb \cup sb : Pos(k) <= Pos(j) /\ (j # k => Pos(k) < Pos(j))
         /\ k \in bb => k \notin sb
         /\ k \in sb => k = StorageKey(k.row) /\ ~k.del
<1>1. /\ bb \subseteq Keys /\ sb \subseteq {StorageKey(r) : r \in Rows} /\ sb \subseteq Keys
      /\ \A j \in bb \cup sb : Pos(j) > p
      /\ \A i, j \in bb : Pos(i) = Pos(j) => i = j
  BY StorageKeys DEF NextKey, Shape, WereWritten
<1>2. k \in bb \cup sb /\ \A j \in bb \cup sb : Pos(k) <= Pos(j)
  <2>1. PICK S : S = bb \cup sb
    OBVIOUS
  <2>2. S \subseteq Keys /\ S # {} /\ k = FirstKey(S)
    BY <1>1, <2>1 DEF NextKey
  <2> QED
    BY <2>1, <2>2, FirstKeyProperties
<1>3. \A j \in bb : j.id > 0
  <2> SUFFICES ASSUME NEW j \in bb
               PROVE  j.id > 0
    OBVIOUS
  <2>1. PICK i : i = [j EXCEPT !.num = 0]
    OBVIOUS
  <2> QED
    BY <2>1, CopyKey
<1>4. \A j \in sb : j.id = 0 /\ ~j.del /\ j = StorageKey(j.row)
  BY <1>1, StorageKeys
<1>5. \A j \in bb \cup sb : j \in Keys /\ Pos(j) \in Nat
  BY <1>1, PosNat
<1>6. ASSUME NEW j \in bb \cup sb, Pos(j) = Pos(k)
      PROVE  j = k
  <2>1. j.row = k.row /\ j.del = k.del /\ j.id = k.id
    BY <1>2, <1>5, <1>6, PosOrder
  <2>2. j \in bb <=> k \in bb
    BY <1>2, <1>3, <1>4, <2>1
  <2> QED
    BY <1>1, <1>2, <1>4, <1>6, <2>1, <2>2
<1>7. k \in Keys /\ k.row \in Rows
  BY <1>2, <1>5, KeyFields
<1> QED
  BY <1>1, <1>2, <1>3, <1>4, <1>5, <1>6, <1>7

\* What is not behind the next key is not behind the leaves of the copies.
LEMMA Reached ==
  ASSUME BaseInv, NEW p \in Nat, NEW bb, NEW sb, WereWritten(bb), NEW k, NextKey(p, bb, sb, k),
         NEW x \in Keys, Pos(x) <= Pos(k)
  PROVE  ReachB(bb, x.row, x.del) /\ ReachS(sb, x.row)
<1>1. /\ \A j \in bb \cup sb : Pos(k) <= Pos(j) /\ j \in Keys
      /\ Pos(k) \in Nat /\ Pos(x) \in Nat
  <2>1. \A j \in bb \cup sb : Pos(k) <= Pos(j)
    BY NextKeyFields
  <2>2. Pos(k) \in Nat /\ sb \subseteq Keys
    BY NextKeyFields
  <2>3. bb \subseteq Keys
    BY DEF WereWritten
  <2> QED
    BY <2>1, <2>2, <2>3, PosNat
<1>2. ASSUME NEW j \in bb \cup sb
      PROVE  Pos(x) <= Pos(j)
  <2>1. Pos(j) \in Nat
    BY <1>1, PosNat
  <2> QED
    BY <1>1, <2>1
<1>3. \A j \in bb : LeafOf(x) <= LeafOf(j)
  BY <1>1, <1>2, LeafOrder
<1>4. \A j \in sb : StorageLeaf[x.row] <= StorageLeaf[j.row]
  BY <1>1, <1>2, LeafOrder
<1> QED
  BY <1>3, <1>4 DEF ReachB, ReachS, LeafOf

\* A row whose place in the storage tree is not behind the next key is reached.
LEMMA ReachedRow ==
  ASSUME BaseInv, NEW p \in Nat, NEW bb, NEW sb, WereWritten(bb), NEW k, NextKey(p, bb, sb, k),
         NEW r \in Rows, Pos(StorageKey(r)) <= Pos(k)
  PROVE  ReachB(bb, r, FALSE) /\ ReachS(sb, r)
<1>1. PICK x \in Keys : x.row = r /\ ~x.del /\ Pos(x) = Pos(StorageKey(r))
  BY StorageKeys
<1>2. x.del = FALSE
  BY <1>1, KeyFields
<1>3. ReachB(bb, x.row, x.del) /\ ReachS(sb, x.row)
  BY <1>1, Reached
<1> QED
  BY <1>1, <1>2, <1>3

\* No key that is seen lies between p and the next key.
LEMMA Between ==
  ASSUME BaseInv, NEW V, NEW p \in Nat, NEW bb, NEW sb, WereWritten(bb), View(V),
         Held(V, p, bb), NEW k, NextKey(p, bb, sb, k),
         NEW j \in V, InBonsai(j) \/ Copied(j, bb), p < Pos(j), Pos(j) <= Pos(k)
  PROVE  k \in bb /\ j = [k EXCEPT !.num = 0]
<1>1. j \in Keys /\ j \in written
  BY WrittenKey DEF View
<1>2. Copied(j, bb)
  <2>1. ReachB(bb, j.row, j.del)
    BY <1>1, Reached
  <2> QED
    BY <2>1 DEF Held
<1>3. PICK b \in bb : j = [b EXCEPT !.num = 0] /\ Pos(j) = Pos(b) /\ b \in Keys
  BY <1>2, CopyOf
<1>4. b = k
  <2>1. \A i \in bb \cup sb : i # k => Pos(k) < Pos(i)
    BY NextKeyFields
  <2>2. Pos(k) \in Nat /\ Pos(b) \in Nat
    BY <1>3, NextKeyFields, PosNat
  <2> QED
    BY <1>3, <2>1, <2>2
<1> QED
  BY <1>3, <1>4

\* Behind a delete mark that is seen comes its row.
LEMMA MarkNext ==
  ASSUME BaseInv, NEW V, NEW p, NEW bb, NEW sb,
         Poised(V, p, TRUE, bb, sb)
  PROVE  /\ \E j \in bb \cup sb : j.row = RowOf(p)
         /\ \A k : NextKey(p, bb, sb, k) => k.row = RowOf(p)
<1>1. /\ View(V) /\ WereWritten(bb) /\ p \in Nat
      /\ Shape(p, bb, sb) /\ Exact(V, p, TRUE, bb, sb)
  BY DEF Poised
<1>2. PICK d \in V : d.del /\ d.row = RowOf(p) /\ ~Done(d.row, p)
  BY DEF Poised, Passed
<1>3. PICK r \in Rows : r = RowOf(p) /\ ~Done(r, p)
  <2>1. d.row \in Rows
    BY <1>1, WrittenKey DEF View
  <2> QED
    BY <1>2, <2>1
<1>4. bb \cup sb \subseteq Keys /\ \A j \in bb \cup sb : p < Pos(j) /\ j.row \in Nat /\ r <= j.row
  <2>1. bb \cup sb \subseteq Keys /\ \A j \in bb \cup sb : p < Pos(j)
    BY <1>1, StorageKeys DEF WereWritten, Shape
  <2>2. ASSUME NEW j \in bb \cup sb
        PROVE  j.row \in Nat /\ r <= j.row
    <3>1. j.row \in Nat /\ Pos(j) \in Nat /\ p < Pos(j) /\ r \in Nat
      BY <2>1, KeyFields, PosNat, BoundsAssumption
    <3>2. ~(j.row < r)
      <4>1. j \in Keys
        BY <2>1
      <4> QED
        BY <1>1, <1>3, <3>1, <4>1, RowPlace
    <3> QED
      BY <3>1, <3>2
  <2> QED
    BY <2>1, <2>2
<1>5. \E j \in bb \cup sb : j.row = r
  <2>1. SUFFICES ASSUME \A j \in bb \cup sb : j.row # r
                 PROVE  FALSE
    OBVIOUS
  <2>2. \A j \in bb \cup sb : r < j.row
    <3>1. r \in Nat
      BY BoundsAssumption
    <3> QED
      BY <1>4, <2>1, <3>1
  <2>3. PICK x \in Keys : x.row = r /\ ~x.del
    BY StorageKeys
  <2>4. \A j \in bb \cup sb : Pos(x) <= Pos(j)
    <3> SUFFICES ASSUME NEW j \in bb \cup sb
                 PROVE  Pos(x) <= Pos(j)
      OBVIOUS
    <3>1. j \in Keys /\ x.row < j.row
      BY <1>4, <2>2, <2>3
    <3>2. Pos(x) \in Nat /\ Pos(j) \in Nat /\ Pos(x) < Pos(j)
      BY <3>1, PosOrder, PosNat
    <3> QED
      BY <3>2
  <2>5. ReachB(bb, r, FALSE) /\ ReachS(sb, r)
    <3>1. x.del = FALSE
      BY <2>3, KeyFields
    <3>2. \A j \in bb : LeafOf(x) <= LeafOf(j)
      BY <1>4, <2>4, LeafOrder
    <3>3. \A j \in sb : StorageLeaf[x.row] <= StorageLeaf[j.row]
      BY <1>4, <2>4, LeafOrder
    <3> QED
      BY <2>3, <3>1, <3>2, <3>3 DEF ReachB, ReachS, LeafOf
  <2>6. HasDel(V, p, TRUE, bb, r)
    BY <1>3 DEF HasDel
  <2>7. HasRow(V, bb, sb, r)
    BY <1>1, <1>3, <2>5, <2>6 DEF Exact
  <2>8. CASE StorageKey(r) \in sb
    BY <2>1, <2>8, StorageKeys
  <2>9. CASE HasKey(V, bb, r, FALSE)
    <3>1. PICK k \in V : k.row = r /\ Copied(k, bb)
      BY <2>9 DEF HasKey
    <3>2. PICK b \in bb : k.row = b.row
      BY <1>1, <3>1, CopyOf
    <3> QED
      BY <2>1, <3>1, <3>2
  <2> QED
    BY <2>7, <2>8, <2>9 DEF HasRow
<1>6. ASSUME NEW k, NextKey(p, bb, sb, k)
      PROVE  k.row = r
  <2>1. PICK j \in bb \cup sb : j.row = r
    BY <1>5
  <2>2. PICK q \in Nat : q = p
    BY <1>1
  <2>3. NextKey(q, bb, sb, k)
    BY <1>6, <2>2
  <2>4. k \in bb \cup sb /\ \A i \in bb \cup sb : Pos(k) <= Pos(i) /\ (i # k => Pos(k) < Pos(i))
    BY <1>1, <2>3, NextKeyFields
  <2>5. k \in Keys /\ j \in Keys /\ Pos(k) <= Pos(j)
    BY <1>4, <2>1, <2>4
  <2>6. k.row <= j.row /\ r <= k.row /\ k.row \in Nat /\ r \in Nat
    BY <1>4, <2>4, <2>5, PosOrder, BoundsAssumption
  <2> QED
    BY <2>1, <2>6
<1> QED
  BY <1>3, <1>5, <1>6

\* The search takes the key k; next tells whether it has then to look for the row of
\* a delete mark.
Takes(V, p, mark, bb, sb, k, next) ==
  /\ Poised(V, p, mark, bb, sb) /\ NextKey(p, bb, sb, k)
  /\ next = IF k \in sb \/ [k EXCEPT !.num = 0] \in V THEN k.del ELSE mark

\* What is known of the key that is taken and of the mark after it.
LEMMA TakesFields ==
  ASSUME BaseInv, NEW V, NEW p, NEW mark, NEW bb, NEW sb, NEW k, NEW next,
         Takes(V, p, mark, bb, sb, k, next)
  PROVE  /\ p \in Nat /\ mark \in BOOLEAN /\ WereWritten(bb) /\ View(V) /\ bb \cup sb \subseteq Keys
         /\ k \in Keys /\ Pos(k) \in Nat /\ p < Pos(k) /\ k.row \in Rows /\ k.del \in BOOLEAN
         /\ next \in BOOLEAN /\ RowOf(Pos(k)) = k.row
         /\ k \in bb \cup sb /\ (k \in bb => k \notin sb)
         /\ k \in sb => k = StorageKey(k.row) /\ ~k.del
         /\ \A j \in (bb \cup sb) \ {k} : Pos(k) < Pos(j)
         /\ mark => k.row = RowOf(p)
<1>1. p \in Nat /\ mark \in BOOLEAN /\ WereWritten(bb) /\ View(V) /\ NextKey(p, bb, sb, k)
  BY DEF Takes, Poised
<1>2. k \in Keys /\ Pos(k) \in Nat /\ p < Pos(k) /\ k \in bb \cup sb /\ k.row \in Rows
  BY <1>1, NextKeyFields
<1>3. /\ sb \subseteq Keys /\ (k \in bb => k \notin sb)
      /\ k \in sb => k = StorageKey(k.row) /\ ~k.del
  BY <1>1, NextKeyFields
<1>8. bb \subseteq Keys
  BY <1>1 DEF WereWritten
<1>4. \A j \in bb \cup sb : j # k => Pos(k) < Pos(j)
  BY <1>1, NextKeyFields
<1>5. ASSUME mark
      PROVE  k.row = RowOf(p)
  <2>1. Poised(V, p, mark, bb, sb)
    BY DEF Takes
  <2>2. mark = TRUE
    BY <1>1, <1>5
  <2>3. Poised(V, p, TRUE, bb, sb)
    BY <2>1, <2>2
  <2> QED
    BY <1>1, <2>3, MarkNext
<1>6. k.del \in BOOLEAN /\ next \in BOOLEAN
  BY <1>1, <1>2, KeyFields DEF Takes
<1>7. RowOf(Pos(k)) = k.row
  BY <1>2, RowOfKey
<1> QED
  BY <1>1, <1>2, <1>3, <1>4, <1>5, <1>6, <1>7, <1>8

\* No row that is done at p is not done behind it, and what is done there and was not
\* at p lies between.
LEMMA DoneLater ==
  ASSUME NEW p \in Nat, NEW q \in Nat, p <= q, NEW r \in Rows
  PROVE  /\ Done(r, p) => Done(r, q)
         /\ ~Done(r, p) <=> p < Pos(StorageKey(r))
<1>1. Pos(StorageKey(r)) \in Nat
  BY StorageKeys
<1> QED
  BY <1>1 DEF Done

\* The copies without the key that was taken have their shape, behind it.
LEMMA StepShape ==
  ASSUME BaseInv, NEW V, NEW p, NEW mark, NEW bb, NEW sb, NEW k, NEW next,
         Takes(V, p, mark, bb, sb, k, next)
  PROVE  Shape(Pos(k), bb \ {k}, sb \ {k})
<1>1. \A j \in (bb \cup sb) \ {k} : Pos(k) < Pos(j)
  BY TakesFields
<1>2. \A j \in (bb \ {k}) \cup (sb \ {k}) : Pos(j) > Pos(k)
  BY <1>1
<1>3. Shape(p, bb, sb)
  BY DEF Takes, Poised
<1> QED
  BY <1>2, <1>3 DEF Shape

\* The leaves of the copies that still hold a key are the same.
LEMMA StepReach ==
  ASSUME BaseInv, NEW V, NEW p, NEW mark, NEW bb, NEW sb, NEW k, NEW next,
         Takes(V, p, mark, bb, sb, k, next)
  PROVE  /\ (k \in bb => bb \ {k} # {}) => \A r, d : ReachB(bb \ {k}, r, d) <=> ReachB(bb, r, d)
         /\ (k \in sb => sb \ {k} # {}) => \A r : ReachS(sb \ {k}, r) <=> ReachS(sb, r)
<1>1. /\ \A i, j \in bb : LeafOf(i) = LeafOf(j)
      /\ \A i, j \in sb : StorageLeaf[i.row] = StorageLeaf[j.row]
  BY DEF Takes, Poised, Shape
<1>2. ASSUME k \in bb => bb \ {k} # {}, NEW r, NEW d
      PROVE  ReachB(bb \ {k}, r, d) <=> ReachB(bb, r, d)
  <2>1. CASE k \in bb
    <3>1. PICK j \in bb \ {k} : LeafOf(j) = LeafOf(k)
      BY <1>1, <1>2, <2>1
    <3> QED
      BY <2>1, <3>1 DEF ReachB
  <2>2. CASE k \notin bb
    BY <2>2 DEF ReachB
  <2> QED
    BY <2>1, <2>2
<1>3. ASSUME k \in sb => sb \ {k} # {}, NEW r
      PROVE  ReachS(sb \ {k}, r) <=> ReachS(sb, r)
  <2>1. CASE k \in sb
    <3>1. PICK j \in sb \ {k} : StorageLeaf[j.row] = StorageLeaf[k.row]
      BY <1>1, <1>3, <2>1
    <3> QED
      BY <2>1, <3>1 DEF ReachS
  <2>2. CASE k \notin sb
    BY <2>2 DEF ReachS
  <2> QED
    BY <2>1, <2>2
<1> QED
  BY <1>2, <1>3

\* What is still copied of the keys that are seen.
LEMMA StepCopied ==
  ASSUME BaseInv, NEW V, NEW p, NEW mark, NEW bb, NEW sb, NEW k, NEW next,
         Takes(V, p, mark, bb, sb, k, next), NEW j
  PROVE  /\ Copied(j, bb \ {k}) => Copied(j, bb) /\ Pos(k) < Pos(j)
         /\ Copied(j, bb) /\ Pos(j) # Pos(k) => Copied(j, bb \ {k})
         /\ Copied(j, bb) => Copied(j, bb \ {k}) \/ (k \in bb /\ j = [k EXCEPT !.num = 0])
<1>1. WereWritten(bb)
  BY TakesFields
<1>2. \A i \in (bb \cup sb) \ {k} : Pos(k) < Pos(i)
  BY TakesFields
<1>3. ASSUME Copied(j, bb \ {k})
      PROVE  Copied(j, bb) /\ Pos(k) < Pos(j)
  <2>1. PICK b \in bb \ {k} : [b EXCEPT !.num = 0] = j
    BY <1>3 DEF Copied
  <2>2. Pos(j) = Pos(b)
    BY <1>1, <2>1, CopyKey
  <2> QED
    BY <1>2, <2>1, <2>2 DEF Copied
<1>4. ASSUME Copied(j, bb)
      PROVE  /\ Copied(j, bb \ {k}) \/ (k \in bb /\ j = [k EXCEPT !.num = 0])
             /\ Pos(j) # Pos(k) => Copied(j, bb \ {k})
  <2>1. PICK b \in bb : [b EXCEPT !.num = 0] = j
    BY <1>4 DEF Copied
  <2>2. Pos(j) = Pos(b)
    BY <1>1, <2>1, CopyKey
  <2> QED
    BY <2>1, <2>2 DEF Copied
<1> QED
  BY <1>3, <1>4

\* Nothing that is seen is passed over.
LEMMA StepPassed ==
  ASSUME BaseInv, NEW V, NEW p, NEW mark, NEW bb, NEW sb, NEW k, NEW next,
         Takes(V, p, mark, bb, sb, k, next)
  PROVE  Passed(V, Pos(k), next, bb \ {k})
<1>1. PICK q : q = Pos(k)
  OBVIOUS
<1>2. /\ p \in Nat /\ mark \in BOOLEAN /\ WereWritten(bb) /\ View(V) /\ q \in Nat /\ p < q
      /\ k \in Keys /\ k.row \in Rows /\ k.del \in BOOLEAN /\ RowOf(q) = k.row
      /\ k \in bb \cup sb /\ (k \in bb => k \notin sb)
      /\ k \in sb => k = StorageKey(k.row) /\ ~k.del
      /\ mark => k.row = RowOf(p)
  BY <1>1, TakesFields
<1>3. /\ Shape(p, bb, sb) /\ Passed(V, p, mark, bb) /\ Held(V, p, bb)
      /\ Exact(V, p, mark, bb, sb) /\ NextKey(p, bb, sb, k)
      /\ next = IF k \in sb \/ [k EXCEPT !.num = 0] \in V THEN k.del ELSE mark
  BY DEF Takes, Poised
<1>4. \A j \in V : j \in Keys /\ j \in written /\ j.row \in Rows /\ j.del \in BOOLEAN /\ Pos(j) \in Nat
  BY <1>2, WrittenKey, KeyFields, PosNat DEF View
<1>5. \A j \in V : Copied(j, bb \ {k}) => Copied(j, bb)
  BY StepCopied
<1>6. k \in bb => /\ [k EXCEPT !.num = 0] \in written /\ [k EXCEPT !.num = 0].row = k.row
                  /\ [k EXCEPT !.num = 0].del = k.del /\ Pos([k EXCEPT !.num = 0]) = q
  <2> SUFFICES ASSUME k \in bb, NEW x, x = [k EXCEPT !.num = 0]
               PROVE  x \in written /\ x.row = k.row /\ x.del = k.del /\ Pos(x) = q
    OBVIOUS
  <2> QED
    BY <1>1, <1>2, CopyKey
<1>7. /\ k.del => q < Pos(StorageKey(k.row))
      /\ ~k.del => Pos(StorageKey(k.row)) <= q
  BY <1>1, <1>2, RowPlaces
<1>8. ASSUME NEW j \in V, InBonsai(j) \/ Copied(j, bb \ {k}), j.del, Pos(j) <= q, ~Done(j.row, q)
      PROVE  next
  <2>1. InBonsai(j) \/ Copied(j, bb)
    BY <1>5, <1>8
  <2>2. CASE Pos(j) <= p
    <3>1. ~Done(j.row, p)
      BY <1>2, <1>4, <1>8, DoneLater
    <3>2. mark
      BY <1>3, <1>8, <2>1, <2>2, <3>1 DEF Passed
    <3>3. RowOf(p) = j.row
      <4>1. p < Pos(StorageKey(j.row))
        BY <1>2, <1>4, <3>1, DoneLater
      <4> QED
        BY <1>2, <1>4, <1>8, <2>2, <4>1, RowOfKey
    <3>4. k.del
      <4>1. k.row = j.row
        BY <1>2, <3>2, <3>3
      <4>2. ~(Pos(StorageKey(k.row)) <= q)
        BY <1>8, <4>1 DEF Done
      <4> QED
        BY <1>7, <4>2
    <3> QED
      BY <1>3, <3>2, <3>4
  <2>3. CASE p < Pos(j)
    <3>1. k \in bb /\ j = [k EXCEPT !.num = 0]
      BY <1>1, <1>2, <1>3, <1>8, <2>1, <2>3, Between
    <3>2. k.del
      BY <1>6, <1>8, <3>1
    <3> QED
      BY <1>3, <3>1, <3>2
  <2> QED
    BY <1>2, <1>4, <2>2, <2>3
<1>9. ASSUME NEW j \in V, InBonsai(j) \/ Copied(j, bb \ {k}), ~j.del, Done(j.row, q), q < Pos(j)
      PROVE  FALSE
  <2>1. InBonsai(j) \/ Copied(j, bb)
    BY <1>5, <1>9
  <2>2. Done(j.row, p) => Pos(j) <= p
    BY <1>3, <1>9, <2>1 DEF Passed
  <2>3. ~Done(j.row, p)
    BY <1>2, <1>4, <1>9, <2>2
  <2>4. p < Pos(StorageKey(j.row)) /\ Pos(StorageKey(j.row)) <= q
    BY <1>2, <1>4, <1>9, <2>3, DoneLater DEF Done
  <2>5. k.row = j.row
    <3>1. k.row <= j.row
      BY <1>1, <1>2, <1>4, <1>9, PosOrder
    <3>2. j.row <= k.row
      <4>1. StorageKey(j.row) \in Keys /\ StorageKey(j.row).row = j.row
        BY <1>4, StorageKeys
      <4> QED
        BY <1>1, <1>2, <2>4, <4>1, PosOrder
    <3>3. k.row \in Nat /\ j.row \in Nat
      BY <1>2, <1>4, BoundsAssumption
    <3> QED
      BY <3>1, <3>2, <3>3
  <2>6. ~k.del
    <3>1. Pos(StorageKey(k.row)) \in Nat
      BY <1>2, StorageKeys
    <3> QED
      BY <1>2, <1>7, <2>4, <2>5, <3>1
  <2>7. CASE k \in bb
    <3>1. [k EXCEPT !.num = 0] \in V
      BY <1>2, <1>6, <1>9, <2>5, <2>6, <2>7 DEF View
    <3>2. j = [k EXCEPT !.num = 0]
      BY <1>2, <1>4, <1>6, <1>9, <2>5, <2>6, <2>7, <3>1 DEF View
    <3> QED
      BY <1>2, <1>4, <1>6, <1>9, <2>7, <3>2
  <2>8. CASE k \in sb
    <3>1. PICK r \in Rows : r = j.row /\ k = StorageKey(r)
      BY <1>2, <1>4, <2>5, <2>8
    <3>2. ReachB(bb, r, FALSE) /\ ReachS(sb, r)
      BY <1>1, <1>2, <1>3, <2>4, <3>1, ReachedRow
    <3>3. ~HasKey(V, bb, r, FALSE)
      BY <1>3, <2>3, <2>8, <3>1, <3>2 DEF Exact
    <3>4. j.del = FALSE
      BY <1>4, <1>9
    <3>5. p < Pos(j)
      BY <1>2, <1>4, <1>9
    <3>6. Copied(j, bb)
      BY <1>3, <2>1, <3>1, <3>2, <3>4, <3>5 DEF Held
    <3> QED
      BY <3>1, <3>3, <3>4, <3>6 DEF HasKey
  <2> QED
    BY <1>2, <2>7, <2>8
<1>10. ASSUME next
       PROVE  \E d \in V : d.del /\ d.row = RowOf(q) /\ ~Done(d.row, q)
  <2>1. CASE k \in sb \/ [k EXCEPT !.num = 0] \in V
    <3>1. k \in bb /\ k.del /\ [k EXCEPT !.num = 0] \in V
      BY <1>2, <1>3, <1>10, <2>1
    <3>2. ~Done(k.row, q)
      BY <1>2, <1>7, <3>1, StorageKeys DEF Done
    <3> QED
      BY <1>2, <1>6, <3>1, <3>2
  <2>2. CASE ~(k \in sb \/ [k EXCEPT !.num = 0] \in V)
    <3>1. mark /\ k \in bb /\ [k EXCEPT !.num = 0] \notin V
      BY <1>2, <1>3, <1>10, <2>2
    <3>2. PICK d \in V : d.del /\ d.row = RowOf(p)
      BY <1>3, <3>1 DEF Passed
    <3>3. d.row = k.row
      BY <1>2, <3>1, <3>2
    <3>4. k.del
      BY <1>2, <1>6, <3>1, <3>3 DEF View
    <3>5. ~Done(k.row, q)
      BY <1>2, <1>7, <3>4, StorageKeys DEF Done
    <3> QED
      BY <1>2, <3>2, <3>3, <3>5
  <2> QED
    BY <2>1, <2>2
<1>11. \A j \in V : InBonsai(j) \/ Copied(j, bb \ {k}) =>
         /\ j.del /\ Pos(j) <= q /\ ~Done(j.row, q) => next
         /\ ~j.del /\ Done(j.row, q) => Pos(j) <= q
  BY <1>2, <1>4, <1>8, <1>9
<1> QED
  BY <1>1, <1>10, <1>11 DEF Passed

\* The search puts out what it has to.
LEMMA StepOut ==
  ASSUME BaseInv, NEW V, NEW p, NEW mark, NEW bb, NEW sb, NEW k, NEW next,
         Takes(V, p, mark, bb, sb, k, next), NEW r \in Rows
  PROVE  r \in RowsOf(V) /\ Done(r, Pos(k)) <=>
           \/ r \in RowsOf(V) /\ Done(r, p)
           \/ /\ r = k.row /\ ~k.del /\ ~mark
              /\ k \in sb \/ [k EXCEPT !.num = 0] \in V
<1>1. PICK q : q = Pos(k)
  OBVIOUS
<1>2. /\ p \in Nat /\ mark \in BOOLEAN /\ WereWritten(bb) /\ View(V) /\ q \in Nat /\ p < q
      /\ k \in Keys /\ k.row \in Rows /\ k.del \in BOOLEAN
      /\ k \in bb \cup sb /\ (k \in bb => k \notin sb)
      /\ k \in sb => k = StorageKey(k.row) /\ ~k.del
      /\ mark => k.row = RowOf(p)
      /\ bb \cup sb \subseteq Keys
  BY <1>1, TakesFields
<1>3. /\ Passed(V, p, mark, bb) /\ Exact(V, p, mark, bb, sb) /\ NextKey(p, bb, sb, k)
  BY DEF Takes, Poised
<1>4. \A j \in V : j \in Keys /\ j \in written /\ j.row \in Rows /\ j.del \in BOOLEAN /\ Pos(j) \in Nat
  BY <1>2, WrittenKey, KeyFields, PosNat DEF View
<1>5. k \in bb => /\ [k EXCEPT !.num = 0] \in written /\ [k EXCEPT !.num = 0].row = k.row
                  /\ [k EXCEPT !.num = 0].del = k.del /\ Pos([k EXCEPT !.num = 0]) = q
                  /\ Copied([k EXCEPT !.num = 0], bb)
  <2> SUFFICES ASSUME k \in bb, NEW x, x = [k EXCEPT !.num = 0]
               PROVE  x \in written /\ x.row = k.row /\ x.del = k.del /\ Pos(x) = q /\ Copied(x, bb)
    OBVIOUS
  <2> QED
    BY <1>1, <1>2, CopyKey
<1>6. PICK o \in Nat : o = Pos(StorageKey(r))
  BY StorageKeys
<1>7. /\ Done(r, p) <=> o <= p
      /\ Done(r, q) <=> o <= q
  BY <1>6 DEF Done
<1>8. r = k.row => (k.del => q < o) /\ (~k.del => o <= q)
  BY <1>1, <1>2, <1>6, RowPlaces
<1>9. \A j \in bb \cup sb : q <= Pos(j)
  <2>1. \A j \in bb \cup sb : Pos(k) <= Pos(j)
    BY <1>2, <1>3, NextKeyFields
  <2> QED
    BY <1>1, <2>1
\* A row behind p and not behind k.
<1>10. ASSUME p < o, o <= q
       PROVE  /\ r \in RowsOf(V) <=> HasRow(V, bb, sb, r) /\ ~HasDel(V, p, mark, bb, r)
              /\ \A j \in bb \cup sb : j.row = r => ~j.del
  <2>1. ReachB(bb, r, FALSE) /\ ReachS(sb, r)
    BY <1>1, <1>2, <1>3, <1>6, <1>10, ReachedRow
  <2>2. ASSUME NEW j \in bb \cup sb, j.row = r
        PROVE  ~j.del
    <3>1. j \in Keys /\ Pos(j) \in Nat /\ q <= Pos(j)
      BY <1>2, <1>9, PosNat
    <3>2. j.del => Pos(j) < o
      BY <1>6, <2>2, <3>1, RowPlaces
    <3> QED
      BY <1>2, <1>10, <3>1, <3>2
  <2> QED
    <3>1. ~Done(r, p)
      BY <1>2, <1>7, <1>10
    <3> QED
      BY <1>3, <2>1, <2>2, <3>1 DEF Exact
<1>11. ASSUME p < o, o <= q, r \in RowsOf(V)
       PROVE  /\ r = k.row /\ ~k.del /\ ~mark
              /\ k \in sb \/ [k EXCEPT !.num = 0] \in V
  <2>1. HasRow(V, bb, sb, r) /\ ~HasDel(V, p, mark, bb, r)
    BY <1>10, <1>11
  <2>2. k.row = r
    <3>1. PICK j \in bb \cup sb : j.row = r
      <4>1. CASE StorageKey(r) \in sb
        BY <4>1, StorageKeys
      <4>2. CASE HasKey(V, bb, r, FALSE)
        <5>1. PICK j \in V : j.row = r /\ Copied(j, bb)
          BY <4>2 DEF HasKey
        <5> QED
          BY <1>2, <5>1, CopyOf
      <4> QED
        BY <2>1, <4>1, <4>2 DEF HasRow
    <3>2. j \in Keys /\ k.row <= j.row
      <4>1. j \in Keys
        BY <1>2
      <4> QED
        BY <1>1, <1>2, <1>9, <4>1, PosOrder
    <3>3. r <= k.row
      BY <1>1, <1>2, <1>6, <1>11, StorageKeys, PosOrder
    <3>4. r \in Nat /\ k.row \in Nat
      BY <1>2, BoundsAssumption
    <3> QED
      BY <3>1, <3>2, <3>3, <3>4
  <2>3. ~k.del
    BY <1>2, <1>10, <1>11, <2>2
  <2>4. ~mark
    BY <1>2, <2>1, <2>2 DEF HasDel
  <2>5. k \in sb \/ [k EXCEPT !.num = 0] \in V
    <3>1. SUFFICES ASSUME k \in bb, k \notin sb
                   PROVE  [k EXCEPT !.num = 0] \in V
      BY <1>2
    <3>2. CASE StorageKey(r) \in sb
      <4>1. StorageKey(r) \in bb \cup sb /\ StorageKey(r) # k
        BY <3>1, <3>2
      <4>2. q < o
        BY <1>1, <1>6, <4>1, TakesFields
      <4> QED
        BY <1>2, <1>6, <1>11, <4>2
    <3>3. CASE HasKey(V, bb, r, FALSE)
      <4>1. PICK j \in V : j.row = r
        BY <3>3 DEF HasKey
      <4> QED
        BY <1>2, <1>5, <2>2, <2>3, <3>1, <4>1 DEF View
    <3> QED
      BY <2>1, <3>2, <3>3 DEF HasRow
  <2> QED
    BY <2>2, <2>3, <2>4, <2>5
<1>12. ASSUME r = k.row, ~k.del, ~mark, k \in sb \/ [k EXCEPT !.num = 0] \in V
       PROVE  r \in RowsOf(V) /\ o <= q
  <2>1. o <= q
    BY <1>8, <1>12
  <2>2. p < o
    <3>1. CASE k \in sb
      <4>1. o = q
        BY <1>1, <1>2, <1>6, <1>12, <3>1
      <4> QED
        BY <1>2, <4>1
    <3>2. CASE k \in bb
      <4>1. [k EXCEPT !.num = 0] \in V
        BY <1>2, <1>12, <3>2
      <4>2. Done(r, p) => q <= p
        BY <1>3, <1>5, <1>12, <3>2, <4>1 DEF Passed
      <4> QED
        BY <1>2, <1>6, <1>7, <4>2
    <3> QED
      BY <1>2, <3>1, <3>2
  <2>3. HasRow(V, bb, sb, r)
    <3>1. CASE k \in sb
      BY <1>2, <1>12, <3>1 DEF HasRow
    <3>2. CASE k \in bb
      <4>1. [k EXCEPT !.num = 0] \in V
        BY <1>2, <1>12, <3>2
      <4>2. k.del = FALSE
        BY <1>2, <1>12
      <4> QED
        BY <1>5, <1>12, <3>2, <4>1, <4>2 DEF HasRow, HasKey
    <3> QED
      BY <1>2, <3>1, <3>2
  <2>4. ~HasKey(V, bb, r, TRUE)
    <3> SUFFICES ASSUME NEW j \in V, j.row = r, j.del = TRUE, Copied(j, bb)
                 PROVE  FALSE
      BY DEF HasKey
    <3>1. PICK b \in bb : j.row = b.row /\ j.del = b.del
      BY <1>2, CopyOf
    <3> QED
      BY <1>10, <2>1, <2>2, <3>1
  <2> QED
    BY <1>10, <1>12, <2>1, <2>2, <2>3, <2>4 DEF HasDel
<1> QED
  BY <1>1, <1>2, <1>6, <1>7, <1>11, <1>12

\* When both copies still hold a key they serve the step after.
LEMMA StepHeld ==
  ASSUME BaseInv, NEW V, NEW p, NEW mark, NEW bb, NEW sb, NEW k, NEW next,
         Takes(V, p, mark, bb, sb, k, next), k \in bb => bb \ {k} # {}
  PROVE  Held(V, Pos(k), bb \ {k})
<1> SUFFICES ASSUME NEW j \in V, InBonsai(j), Pos(j) > Pos(k), ReachB(bb \ {k}, j.row, j.del)
             PROVE  Copied(j, bb \ {k})
  BY DEF Held
<1>1. /\ p \in Nat /\ Pos(k) \in Nat /\ p < Pos(k) /\ View(V)
  BY TakesFields
<1>2. j \in Keys /\ j.row \in Rows /\ j.del \in BOOLEAN /\ Pos(j) \in Nat
  BY <1>1, WrittenKey, KeyFields, PosNat DEF View
<1>3. ReachB(bb, j.row, j.del)
  BY StepReach
<1>4. Copied(j, bb)
  BY <1>1, <1>2, <1>3 DEF Takes, Poised, Held
<1>5. Pos(j) # Pos(k)
  BY <1>1, <1>2
<1> QED
  BY <1>4, <1>5, StepCopied

\* The copies still tell which rows are there.
LEMMA StepExact ==
  ASSUME BaseInv, NEW V, NEW p, NEW mark, NEW bb, NEW sb, NEW k, NEW next,
         Takes(V, p, mark, bb, sb, k, next),
         k \in bb => bb \ {k} # {}, k \in sb => sb \ {k} # {}
  PROVE  Exact(V, Pos(k), next, bb \ {k}, sb \ {k})
<1>1. PICK q : q = Pos(k)
  OBVIOUS
<1>2. /\ p \in Nat /\ mark \in BOOLEAN /\ WereWritten(bb) /\ View(V) /\ q \in Nat /\ p < q
      /\ k \in Keys /\ k.row \in Rows /\ k.del \in BOOLEAN /\ RowOf(q) = k.row
      /\ k \in bb \cup sb /\ (k \in bb => k \notin sb)
      /\ k \in sb => k = StorageKey(k.row) /\ ~k.del
      /\ mark => k.row = RowOf(p)
  BY <1>1, TakesFields
<1>3. /\ Exact(V, p, mark, bb, sb)
      /\ next = IF k \in sb \/ [k EXCEPT !.num = 0] \in V THEN k.del ELSE mark
  BY DEF Takes, Poised
<1>4. k \in bb => /\ [k EXCEPT !.num = 0].row = k.row /\ [k EXCEPT !.num = 0].del = k.del
                  /\ Pos([k EXCEPT !.num = 0]) = q /\ Copied([k EXCEPT !.num = 0], bb)
  <2> SUFFICES ASSUME k \in bb, NEW x, x = [k EXCEPT !.num = 0]
               PROVE  x.row = k.row /\ x.del = k.del /\ Pos(x) = q /\ Copied(x, bb)
    OBVIOUS
  <2> QED
    BY <1>1, <1>2, CopyKey
<1>5. SUFFICES ASSUME NEW r \in Rows, ~Done(r, q), ReachB(bb \ {k}, r, FALSE), ReachS(sb \ {k}, r)
               PROVE  /\ r \in RowsOf(V) <=> /\ HasRow(V, bb \ {k}, sb \ {k}, r)
                                             /\ ~HasDel(V, q, next, bb \ {k}, r)
                      /\ HasDel(V, q, next, bb \ {k}, r) => HasRow(V, bb \ {k}, sb \ {k}, r)
                      /\ StorageKey(r) \in sb \ {k} => ~HasKey(V, bb \ {k}, r, FALSE)
  BY <1>1 DEF Exact
<1>6. ~Done(r, p)
  BY <1>2, <1>5, DoneLater
<1>7. ReachB(bb, r, FALSE)
  BY <1>5, StepReach
<1>8. ReachS(sb, r)
  BY <1>5, StepReach
<1>9. /\ r \in RowsOf(V) <=> HasRow(V, bb, sb, r) /\ ~HasDel(V, p, mark, bb, r)
      /\ HasDel(V, p, mark, bb, r) => HasRow(V, bb, sb, r)
      /\ StorageKey(r) \in sb => ~HasKey(V, bb, r, FALSE)
  BY <1>3, <1>6, <1>7, <1>8 DEF Exact
<1>10. q < Pos(StorageKey(r))
  BY <1>2, <1>5, DoneLater
<1>11. k.row = r => k.del /\ k \in bb
  <2>1. k.row = r /\ ~k.del => Pos(StorageKey(r)) <= q
    BY <1>1, <1>2, RowPlaces
  <2>2. Pos(StorageKey(r)) \in Nat
    BY StorageKeys
  <2> QED
    BY <1>2, <1>10, <2>1, <2>2
<1>12. StorageKey(r) \in sb \ {k} <=> StorageKey(r) \in sb
  BY <1>11, <1>2, StorageKeys
<1>13. ASSUME NEW j \in V, NEW d, j.row = r, j.del = d, Copied(j, bb)
       PROVE  Copied(j, bb \ {k}) \/ (d /\ k \in bb /\ k.del /\ k.row = r /\ [k EXCEPT !.num = 0] \in V)
  <2>1. Copied(j, bb \ {k}) \/ (k \in bb /\ j = [k EXCEPT !.num = 0])
    BY <1>13, StepCopied
  <2> QED
    BY <1>4, <1>11, <1>13, <2>1
<1>14. \A d : HasKey(V, bb \ {k}, r, d) => HasKey(V, bb, r, d)
  BY StepCopied DEF HasKey
<1>15. HasKey(V, bb \ {k}, r, FALSE) <=> HasKey(V, bb, r, FALSE)
  <2>1. HasKey(V, bb, r, FALSE) => HasKey(V, bb \ {k}, r, FALSE)
    BY <1>13 DEF HasKey
  <2> QED
    BY <1>14, <2>1
<1>16. HasDel(V, q, next, bb \ {k}, r) <=> HasDel(V, p, mark, bb, r)
  <2>1. ASSUME next, r = RowOf(q)
        PROVE  HasDel(V, p, mark, bb, r)
    <3>1. k.row = r /\ k.del /\ k \in bb /\ k \notin sb
      BY <1>2, <1>11, <2>1
    <3>2. CASE [k EXCEPT !.num = 0] \in V
      <4>1. k.del = TRUE
        BY <1>2, <3>1
      <4> QED
        BY <1>4, <3>1, <3>2, <4>1 DEF HasDel, HasKey
    <3>3. CASE [k EXCEPT !.num = 0] \notin V
      BY <1>2, <1>3, <2>1, <3>1, <3>3 DEF HasDel
    <3> QED
      BY <3>2, <3>3
  <2>2. ASSUME HasKey(V, bb, r, TRUE)
        PROVE  HasDel(V, q, next, bb \ {k}, r)
    <3>1. PICK j \in V : j.row = r /\ j.del = TRUE /\ Copied(j, bb)
      BY <2>2 DEF HasKey
    <3>2. CASE Copied(j, bb \ {k})
      BY <3>1, <3>2 DEF HasDel, HasKey
    <3>3. CASE k \in bb /\ k.del /\ k.row = r /\ [k EXCEPT !.num = 0] \in V
      BY <1>2, <1>3, <3>3 DEF HasDel
    <3> QED
      BY <1>13, <3>1, <3>2, <3>3
  <2>3. ASSUME mark, r = RowOf(p)
        PROVE  HasDel(V, q, next, bb \ {k}, r)
    <3>1. k.row = r /\ k.del
      BY <1>2, <1>11, <2>3
    <3> QED
      BY <1>2, <1>3, <2>3, <3>1 DEF HasDel
  <2> QED
    BY <1>14, <2>1, <2>2, <2>3 DEF HasDel
<1> QED
  BY <1>9, <1>12, <1>15, <1>16 DEF HasRow

-----------------------------------------------------------------------------
(***************************************************************************)
(* Copies that are up to date                                              *)
(***************************************************************************)

\* The keys a transaction has to see are not aborted, and a delete is seen together
\* with its row.
LEMMA SeenView ==
  ASSUME FateInv, RowsInv, OrderInv, NEW t \in Trx, trxst[t] = "begin", NEW m \in Nat,
         NEW V, V = Seen(t, m)
  PROVE  /\ View(V)
         /\ \A d \in V : d.del => d.row \in Stored \/ \E k \in V : k.row = d.row /\ ~k.del
         /\ RowsOf(V) = Snapshot(t, m)
<1>1. BaseInv /\ Types /\ LevelInv
  BY DEF FateInv, BaseInv, RowsInv
<1>2. \A k \in V : k \in written /\ Sees(t, m, k.id) /\ Fate(k.id) # "abort"
  BY DEF Seen, Sees
<1>3. \A k \in written : /\ k \in Keys /\ k.row \in Rows /\ k.del \in BOOLEAN /\ k.id \in 1..trxid
                         /\ k.id \in Nat /\ num[stmt[k.id].trx] \in Nat
  <2>1. \A k \in written : k \in Keys /\ k.row \in Rows /\ k.id \in 1..trxid
    BY <1>1, WrittenKey
  <2> QED
    BY <1>1, <2>1, KeyFields, StmtAt
<1>4. level[t] \in Nat
  BY <1>1 DEF Types
<1>5. ASSUME NEW k \in written, NEW d \in V, Precedes(k, d), ~k.del, d.del, k.row = d.row
      PROVE  k \in V
  <2>1. d \in written /\ Sees(t, m, d.id)
    BY <1>2
  <2>2. CASE Fate(d.id) = "commit"
    <3>1. Fate(k.id) = "commit" /\ num[stmt[k.id].trx] <= num[stmt[d.id].trx]
      BY <1>1, <1>5, <2>1, <2>2, DeleteOfOld
    <3>2. num[stmt[d.id].trx] <= level[t]
      BY <2>1, <2>2 DEF Sees
    <3>3. num[stmt[k.id].trx] <= level[t]
      BY <1>3, <1>4, <2>1, <3>1, <3>2
    <3> QED
      BY <3>1, <3>3 DEF Seen, Sees
  <2>3. CASE Fate(d.id) # "commit"
    <3>1. stmt[d.id].trx = t /\ d.id <= m /\ Fate(d.id) = "begin"
      BY <2>1, <2>3 DEF Sees
    <3>2. CASE Fate(k.id) = "commit" /\ num[stmt[k.id].trx] <= level[t]
      BY <3>2 DEF Seen, Sees
    <3>3. CASE stmt[k.id].trx = t /\ (k.id = d.id \/ stmt[k.id].st = "done")
      <4>1. k.id <= d.id
        BY <1>3, <1>5, <2>1, <3>1, <3>3 DEF OrderInv
      <4>2. k.id <= m
        BY <1>3, <2>1, <3>1, <4>1
      <4>3. Fate(k.id) = "begin"
        BY <3>1, <3>3 DEF Fate
      <4> QED
        BY <3>3, <4>2, <4>3 DEF Seen, Sees
    <3> QED
      BY <1>5, <3>1, <3>2, <3>3 DEF Precedes
  <2> QED
    BY <2>2, <2>3
<1>6. \A r \in Rows : RowInv(r)
  BY DEF RowsInv
<1>7. ASSUME NEW j \in V, NEW k \in V, j.row = k.row, j.del = k.del
      PROVE  j = k
  <2>1. PICK r \in Rows : r = k.row /\ RowInv(r) /\ j \in written /\ k \in written
    BY <1>2, <1>3, <1>6
  <2>2. CASE k.del
    BY <1>2, <1>7, <2>1, <2>2 DEF RowInv, Deletes
  <2>3. CASE ~k.del
    BY <1>7, <2>1, <2>3 DEF RowInv, Inserts
  <2> QED
    BY <2>2, <2>3
<1>8. ASSUME NEW d \in V, d.del
      PROVE  d.row \in Stored \/ \E k \in V : k.row = d.row /\ ~k.del
  <2>1. PICK r \in Rows : r = d.row /\ RowInv(r)
    BY <1>2, <1>3, <1>6
  <2>2. r \in Stored \/ \E k \in Inserts(r) : Precedes(k, d)
    BY <1>2, <1>8, <2>1 DEF RowInv, Deletes
  <2> QED
    BY <1>5, <1>8, <2>1, <2>2 DEF Inserts
<1>9. ASSUME NEW d \in V, NEW k \in written, k.row = d.row, ~k.del
      PROVE  k \in V
  <2>1. PICK r \in Rows : r = k.row /\ RowInv(r) /\ k \in Inserts(r)
    BY <1>3, <1>6, <1>9 DEF Inserts
  <2>2. CASE ~d.del
    <3>1. d \in Inserts(r)
      BY <1>2, <1>9, <2>1, <2>2 DEF Inserts
    <3> QED
      BY <2>1, <3>1 DEF RowInv
  <2>3. CASE d.del
    <3>1. \E j \in V : j.row = r /\ ~j.del
      BY <1>8, <1>9, <2>1, <2>3 DEF RowInv
    <3>2. PICK j \in V : j \in Inserts(r)
      BY <1>2, <3>1 DEF Inserts
    <3> QED
      BY <2>1, <3>2 DEF RowInv
  <2> QED
    BY <2>2, <2>3
<1>10. View(V)
  BY <1>2, <1>7, <1>9 DEF View
<1>11. RowsOf(V) = Snapshot(t, m)
  BY DEF RowsOf, Snapshot, Seen
<1> QED
  BY <1>8, <1>10, <1>11

\* What the trees have of a row.
TreeRow(V, r) == r \in storage \/ \E k \in V : k.row = r /\ ~k.del /\ InBonsai(k)
TreeDel(V, r) == \E k \in V : k.row = r /\ k.del /\ InBonsai(k)

\* The trees tell which rows a transaction has to find.
LEMMA TreeRows ==
  ASSUME FateInv, RowsInv, OrderInv, NEW t \in Trx, trxst[t] = "begin", NEW m \in Nat,
         NEW V, V = Seen(t, m), NEW r \in Rows
  PROVE  /\ r \in RowsOf(V) <=> TreeRow(V, r) /\ ~TreeDel(V, r)
         /\ TreeDel(V, r) => TreeRow(V, r)
         /\ r \in storage => ~ \E k \in V : k.row = r /\ ~k.del /\ InBonsai(k)
<1>1. BaseInv /\ Types /\ LeftInv /\ LevelInv /\ RowInv(r)
  BY DEF FateInv, BaseInv, RowsInv
<1>2. \A k \in V : k \in written /\ Sees(t, m, k.id) /\ Fate(k.id) # "abort"
  BY DEF Seen, Sees
<1>3. ASSUME NEW k \in written, Gone(k)
      PROVE  k \in V
  <2>1. Fate(k.id) = "commit" /\ num[stmt[k.id].trx] <= merge.level
    BY <1>1, <1>3 DEF LeftInv, Gone
  <2>2. merge.level <= level[t]
    BY <1>1 DEF LevelInv
  <2>3. num[stmt[k.id].trx] \in Nat /\ merge.level \in Nat /\ level[t] \in Nat
    <3>1. k.id \in 1..trxid
      BY <1>1, WrittenKey
    <3>2. level[t] \in Nat
      BY <1>1 DEF Types
    <3> QED
      BY <1>1, <3>1, <3>2, StmtAt, MergeFields
  <2> QED
    BY <2>1, <2>2, <2>3 DEF Sees, Seen
<1>4. ASSUME NEW k \in V, ~InBonsai(k)
      PROVE  Gone(k)
  BY <1>1, <1>2, <1>4 DEF LeftInv, Gone
<1>5. Snapshot(t, m) = InTrees(t, m) /\ RowsOf(V) = Snapshot(t, m)
  BY TreesOfLevel, SeenView
<1>6. ASSUME NEW k \in bonsai, Accepts(t, m, k)
      PROVE  \E j \in V : j.row = k.row /\ j.del = k.del /\ InBonsai(j)
  <2>1. PICK j : j = [k EXCEPT !.num = 0]
    OBVIOUS
  <2>2. j \in written /\ j.row = k.row /\ j.del = k.del /\ j.id = k.id /\ InBonsai(j)
    BY <2>1, TreeKey
  <2>3. Sees(t, m, j.id)
    BY <1>6, <2>2, AcceptsSees
  <2> QED
    BY <2>2, <2>3 DEF Seen
<1>7. ASSUME NEW j \in V, InBonsai(j)
      PROVE  \E k \in bonsai : k.row = j.row /\ k.del = j.del /\ Accepts(t, m, k)
  <2>1. PICK k \in bonsai : j = [k EXCEPT !.num = 0]
    BY <1>7 DEF InBonsai
  <2>2. j.row = k.row /\ j.del = k.del /\ j.id = k.id
    BY <2>1, TreeKey
  <2> QED
    BY <1>2, <2>2, AcceptsSees
<1>8. r \in InTrees(t, m) <=> TreeRow(V, r) /\ ~TreeDel(V, r)
  <2>1. TreeRow(V, r) <=> r \in storage \/ \E k \in bonsai : k.row = r /\ ~k.del /\ Accepts(t, m, k)
    BY <1>6, <1>7 DEF TreeRow
  <2>2. TreeDel(V, r) <=> \E k \in bonsai : k.row = r /\ k.del /\ Accepts(t, m, k)
    BY <1>6, <1>7 DEF TreeDel
  <2> QED
    BY <2>1, <2>2 DEF InTrees
<1>9. ASSUME TreeDel(V, r)
      PROVE  TreeRow(V, r)
  <2>1. PICK d \in V : d.row = r /\ d.del /\ InBonsai(d)
    BY <1>9 DEF TreeDel
  <2>2. ~Removed(r)
    <3> SUFFICES ASSUME NEW e \in Deletes(r), Gone(e)
                 PROVE  FALSE
      BY DEF Removed
    <3>1. e \in V
      BY <1>3 DEF Deletes
    <3>2. e # d
      BY <2>1 DEF Gone
    <3> QED
      BY <1>1, <1>2, <2>1, <3>1, <3>2 DEF RowInv, Deletes
  <2>3. r \in storage <=> r \in Stored \/ \E k \in Inserts(r) : Gone(k)
    BY <1>1, <2>2 DEF RowInv
  <2>4. r \in Stored \/ \E k \in V : k.row = r /\ ~k.del
    BY <2>1, SeenView
  <2>5. CASE r \in Stored
    BY <2>3, <2>5 DEF TreeRow
  <2>6. ASSUME NEW k \in V, k.row = r, ~k.del
        PROVE  TreeRow(V, r)
    <3>1. k \in Inserts(r)
      BY <1>2, <2>6 DEF Inserts
    <3> QED
      BY <1>4, <2>3, <2>6, <3>1 DEF TreeRow
  <2> QED
    BY <2>4, <2>5, <2>6
<1>10. ASSUME r \in storage, NEW k \in V, k.row = r, ~k.del, InBonsai(k)
       PROVE  FALSE
  <2>1. k \in Inserts(r)
    BY <1>2, <1>10 DEF Inserts
  <2>2. ~Removed(r)
    BY <1>1, <1>10 DEF RowInv
  <2>3. \E j \in Inserts(r) : Gone(j)
    BY <1>1, <1>10, <2>1, <2>2 DEF RowInv
  <2> QED
    BY <1>1, <1>10, <2>1, <2>3 DEF RowInv, Gone
<1> QED
  BY <1>5, <1>8, <1>9, <1>10

\* Copies that are up to date serve the next step.
LEMMA FreshReady ==
  ASSUME FateInv, RowsInv, OrderInv, NEW t \in Trx, trxst[t] = "begin", NEW m \in Nat,
         NEW V, V = Seen(t, m), NEW p \in Nat, NEW mark \in BOOLEAN, NEW bb, NEW sb,
         WereWritten(bb), FreshB(V, p, bb), FreshS(p, sb), Passed(V, p, mark, bb),
         mark => MarkThere(V, p)
  PROVE  Held(V, p, bb) /\ Exact(V, p, mark, bb, sb)
<1>1. Held(V, p, bb)
  BY DEF Held, FreshB
<1>2. View(V) /\ BaseInv
  BY SeenView DEF FateInv
<1>3. \A k \in V : k \in written /\ k \in Keys /\ k.row \in Rows /\ k.del \in BOOLEAN /\ Pos(k) \in Nat
  BY <1>2, WrittenKey, KeyFields, PosNat DEF View
<1>4. ASSUME NEW r \in Rows, ~Done(r, p), ReachB(bb, r, FALSE), ReachS(sb, r)
      PROVE  /\ r \in RowsOf(V) <=> HasRow(V, bb, sb, r) /\ ~HasDel(V, p, mark, bb, r)
             /\ HasDel(V, p, mark, bb, r) => HasRow(V, bb, sb, r)
             /\ StorageKey(r) \in sb => ~HasKey(V, bb, r, FALSE)
  <2>1. PICK o \in Nat : o = Pos(StorageKey(r)) /\ p < o
    BY <1>4, StorageKeys, DoneLater
  <2>2. StorageKey(r) \in sb <=> r \in storage
    BY <1>4 DEF FreshS
  <2>3. ASSUME NEW k \in V, k.row = r, ~k.del
        PROVE  Copied(k, bb) <=> InBonsai(k)
    <3>1. k.del = FALSE /\ p < Pos(k)
      BY <1>3, <2>1, <2>3, RowPlaces
    <3> QED
      BY <1>3, <1>4, <2>3, <3>1 DEF FreshB
  <2>4. HasKey(V, bb, r, FALSE) <=> \E k \in V : k.row = r /\ ~k.del /\ InBonsai(k)
    BY <1>3, <2>3 DEF HasKey
  <2>5. HasRow(V, bb, sb, r) <=> TreeRow(V, r)
    BY <2>2, <2>4 DEF HasRow, TreeRow
  <2>6. ReachB(bb, r, TRUE)
    <3> SUFFICES ASSUME NEW j \in bb
                 PROVE  BonsaiLeaf[<<r, TRUE>>] <= LeafOf(j)
      BY DEF ReachB
    <3>1. BonsaiLeaf[<<r, TRUE>>] <= BonsaiLeaf[<<r, FALSE>>]
      BY LeavesAssumption
    <3>2. /\ BonsaiLeaf[<<r, TRUE>>] \in Nat /\ BonsaiLeaf[<<r, FALSE>>] \in Nat
          /\ LeafOf(j) \in Nat
      <4>1. j \in Keys
        BY DEF WereWritten
      <4>2. \A d \in BOOLEAN : BonsaiLeaf[<<r, d>>] \in Nat
        BY LeavesAssumption, BoundsAssumption
      <4> QED
        BY <4>1, <4>2, LeafNumber
    <3>3. BonsaiLeaf[<<r, FALSE>>] <= LeafOf(j)
      BY <1>4 DEF ReachB
    <3> QED
      BY <3>1, <3>2, <3>3
  <2>7. ASSUME HasDel(V, p, mark, bb, r)
        PROVE  TreeDel(V, r)
    <3>1. CASE mark /\ r = RowOf(p)
      BY <3>1 DEF MarkThere, TreeDel
    <3>2. CASE HasKey(V, bb, r, TRUE)
      BY <3>2 DEF HasKey, TreeDel, FreshB
    <3> QED
      BY <2>7, <3>1, <3>2 DEF HasDel
  <2>8. ASSUME NEW d \in V, d.row = r, d.del, InBonsai(d)
        PROVE  HasDel(V, p, mark, bb, r)
    <3>1. CASE Pos(d) > p
      <4>1. d.del = TRUE
        BY <1>3, <2>8
      <4>2. Copied(d, bb)
        BY <2>6, <2>8, <3>1, <4>1 DEF FreshB
      <4> QED
        BY <2>8, <4>1, <4>2 DEF HasDel, HasKey
    <3>2. CASE Pos(d) <= p
      <4>1. mark
        BY <1>4, <2>8, <3>2 DEF Passed
      <4>2. RowOf(p) = r
        BY <1>3, <2>1, <2>8, <3>2, RowOfKey
      <4> QED
        BY <4>1, <4>2 DEF HasDel
    <3> QED
      BY <1>3, <3>1, <3>2
  <2>9. HasDel(V, p, mark, bb, r) <=> TreeDel(V, r)
    BY <2>7, <2>8 DEF TreeDel
  <2>10. /\ r \in RowsOf(V) <=> TreeRow(V, r) /\ ~TreeDel(V, r)
         /\ TreeDel(V, r) => TreeRow(V, r)
         /\ r \in storage => ~ \E k \in V : k.row = r /\ ~k.del /\ InBonsai(k)
    BY TreeRows
  <2> QED
    BY <2>2, <2>4, <2>5, <2>9, <2>10
<1> QED
  BY <1>1, <1>4 DEF Exact

\* A leaf loaded from the Bonsai tree.
LEMMA LoadedBonsai ==
  ASSUME FateInv, SamePlace(bonsai), NEW p \in Nat, NEW bb, bb = LoadBonsai(p)
  PROVE  /\ WereWritten(bb) /\ bb \subseteq bonsai
         /\ \A k \in bb : Pos(k) > p
         /\ \A j, k \in bb : LeafOf(j) = LeafOf(k) /\ (Pos(j) = Pos(k) => j = k)
         /\ \A k : Copied(k, bb) => InBonsai(k)
         /\ \A V : V \subseteq written => FreshB(V, p, bb)
<1>1. BaseInv /\ bonsai \subseteq Keys
  BY DEF FateInv, BaseInv, Types
<1>2. PICK S : S = After(bonsai, p)
  OBVIOUS
<1>3. S \subseteq Keys /\ S \subseteq bonsai /\ \A k \in bonsai : k \in S <=> Pos(k) > p
  BY <1>1, <1>2 DEF After
<1>4. PICK f : f = FirstKey(S)
  OBVIOUS
<1>5. bb = {k \in S : LeafOf(k) = LeafOf(f)}
  BY <1>2, <1>4 DEF LoadBonsai, LeafOf
<1>6. S # {} => f \in S /\ \A j \in S : Pos(f) <= Pos(j)
  BY <1>3, <1>4, FirstKeyProperties
<1>7. WereWritten(bb) /\ bb \subseteq bonsai
  <2>1. bb \subseteq bonsai /\ bb \subseteq Keys
    BY <1>3, <1>5
  <2>2. \A k \in bonsai : [k EXCEPT !.num = 0] \in written
    BY DEF FateInv, BaseInv, WrittenInv
  <2> QED
    BY <2>1, <2>2 DEF WereWritten
<1>8. \A k \in bb : Pos(k) > p /\ LeafOf(k) = LeafOf(f) /\ k \in Keys
  BY <1>3, <1>5
<1>9. \A j, k \in bb : LeafOf(j) = LeafOf(k) /\ (Pos(j) = Pos(k) => j = k)
  BY <1>7, <1>8 DEF SamePlace
<1>10. \A k : Copied(k, bb) => InBonsai(k)
  BY <1>7 DEF Copied, InBonsai
<1>11. ASSUME NEW k \in written
       PROVE  Copied(k, bb) <=> InBonsai(k) /\ Pos(k) > p /\ ReachB(bb, k.row, k.del)
  <2>1. ASSUME Copied(k, bb)
        PROVE  InBonsai(k) /\ Pos(k) > p /\ ReachB(bb, k.row, k.del)
    <3>1. PICK b \in bb : Pos(k) = Pos(b) /\ LeafOf(k) = LeafOf(b)
      BY <1>1, <1>7, <2>1, CopyOf
    <3>2. \A j \in bb : LeafOf(k) = LeafOf(j)
      BY <1>9, <3>1
    <3>3. \A j \in bb : LeafOf(j) \in Nat
      BY <1>8, LeafNumber
    <3>4. \A j \in bb : LeafOf(k) <= LeafOf(j)
      BY <3>2, <3>3
    <3>5. ReachB(bb, k.row, k.del)
      BY <3>4 DEF ReachB, LeafOf
    <3> QED
      BY <1>8, <1>10, <2>1, <3>1, <3>5
  <2>2. ASSUME InBonsai(k), Pos(k) > p, ReachB(bb, k.row, k.del)
        PROVE  Copied(k, bb)
    <3>1. PICK b \in bonsai : [b EXCEPT !.num = 0] = k
      BY <2>2 DEF InBonsai
    <3>2. b \in Keys /\ Pos(b) = Pos(k) /\ LeafOf(b) = LeafOf(k)
      <4>1. b \in Keys /\ k.row = b.row /\ k.del = b.del /\ k.id = b.id
        BY <3>1, TreeKey
      <4> QED
        BY <4>1 DEF Pos, LeafOf
    <3>3. b \in S
      BY <1>3, <2>2, <3>1, <3>2
    <3>4. f \in bb /\ f \in Keys /\ Pos(f) <= Pos(b)
      BY <1>3, <1>5, <1>6, <3>3
    <3>5. LeafOf(f) <= LeafOf(b) /\ LeafOf(f) \in Nat /\ LeafOf(b) \in Nat
      BY <3>2, <3>4, LeafOrder
    <3>6. LeafOf(b) <= LeafOf(f)
      BY <2>2, <3>2, <3>4 DEF ReachB, LeafOf
    <3>7. b \in bb
      BY <1>5, <3>3, <3>5, <3>6
    <3> QED
      BY <3>1, <3>7 DEF Copied
  <2> QED
    BY <2>1, <2>2
<1> QED
  BY <1>7, <1>8, <1>9, <1>10, <1>11 DEF FreshB

\* A leaf loaded from the storage tree.
LEMMA LoadedStorage ==
  ASSUME storage \subseteq Rows, NEW p \in Nat, NEW sb, sb = LoadStorage(p)
  PROVE  /\ sb \subseteq {StorageKey(r) : r \in Rows} /\ sb \subseteq Keys
         /\ \A k \in sb : Pos(k) > p
         /\ \A j, k \in sb : StorageLeaf[j.row] = StorageLeaf[k.row]
         /\ FreshS(p, sb)
<1>1. PICK S : S = After({StorageKey(r) : r \in storage}, p)
  OBVIOUS
<1>2. S \subseteq {StorageKey(r) : r \in Rows} /\ S \subseteq Keys
  BY <1>1, StorageKeys DEF After
<1>3. \A r \in Rows : StorageKey(r) \in S <=> r \in storage /\ Pos(StorageKey(r)) > p
  BY <1>1, StorageKeys DEF After
<1>4. PICK f : f = FirstKey(S)
  OBVIOUS
<1>5. sb = {k \in S : StorageLeaf[k.row] = StorageLeaf[f.row]}
  BY <1>1, <1>4 DEF LoadStorage
<1>6. S # {} => f \in S /\ \A j \in S : Pos(f) <= Pos(j)
  BY <1>2, <1>4, FirstKeyProperties
<1>7. \A k \in S : Pos(k) > p
  BY <1>1 DEF After
<1>8. ASSUME NEW r \in Rows
      PROVE  StorageKey(r) \in sb <=> r \in storage /\ ~Done(r, p) /\ ReachS(sb, r)
  <2>1. StorageKey(r).row = r /\ StorageKey(r) \in Keys
    BY StorageKeys
  <2>2. ~Done(r, p) <=> Pos(StorageKey(r)) > p
    BY StorageKeys DEF Done
  <2>3. ASSUME StorageKey(r) \in sb
        PROVE  ReachS(sb, r)
    <3>1. \A j \in sb : StorageLeaf[j.row] = StorageLeaf[r]
      BY <1>5, <2>1, <2>3
    <3>2. StorageLeaf[r] \in Nat
      BY LeavesAssumption, BoundsAssumption
    <3> QED
      BY <3>1, <3>2 DEF ReachS
  <2>4. ASSUME r \in storage, ~Done(r, p), ReachS(sb, r)
        PROVE  StorageKey(r) \in sb
    <3>1. PICK b : b = StorageKey(r) /\ b \in S /\ b.row = r /\ b \in Keys
      BY <1>3, <2>1, <2>2, <2>4
    <3>2. f \in sb /\ f \in Keys /\ Pos(f) <= Pos(b)
      BY <1>2, <1>5, <1>6, <3>1
    <3>3. /\ StorageLeaf[f.row] <= StorageLeaf[b.row]
          /\ StorageLeaf[f.row] \in Nat /\ StorageLeaf[b.row] \in Nat
      BY <3>1, <3>2, LeafOrder
    <3>4. StorageLeaf[b.row] <= StorageLeaf[f.row]
      BY <2>4, <3>1, <3>2 DEF ReachS
    <3> QED
      BY <1>5, <3>1, <3>3, <3>4
  <2> QED
    BY <1>3, <1>5, <2>2, <2>3, <2>4
<1> QED
  BY <1>2, <1>5, <1>7, <1>8 DEF FreshS

\* Copies that are up to date are so behind the next key.
LEMMA StepFreshB ==
  ASSUME BaseInv, NEW V, NEW p, NEW mark, NEW bb, NEW sb, NEW k, NEW next,
         Takes(V, p, mark, bb, sb, k, next), FreshB(V, p, bb), k \in bb => bb \ {k} # {}
  PROVE  FreshB(V, Pos(k), bb \ {k})
<1> SUFFICES ASSUME NEW j \in V
             PROVE  Copied(j, bb \ {k}) <=>
                      InBonsai(j) /\ Pos(j) > Pos(k) /\ ReachB(bb \ {k}, j.row, j.del)
  BY DEF FreshB
<1>1. p \in Nat /\ Pos(k) \in Nat /\ p < Pos(k) /\ View(V)
  BY TakesFields
<1>2. Pos(j) \in Nat
  BY <1>1, WrittenKey, PosNat DEF View
<1>3. ReachB(bb \ {k}, j.row, j.del) <=> ReachB(bb, j.row, j.del)
  BY StepReach
<1>4. Copied(j, bb) <=> InBonsai(j) /\ Pos(j) > p /\ ReachB(bb, j.row, j.del)
  BY DEF FreshB
<1>5. /\ Copied(j, bb \ {k}) => Copied(j, bb) /\ Pos(k) < Pos(j)
      /\ Copied(j, bb) /\ Pos(j) # Pos(k) => Copied(j, bb \ {k})
  BY StepCopied
<1> QED
  BY <1>1, <1>2, <1>3, <1>4, <1>5

\* The copy of the storage tree stays up to date.
LEMMA StepFreshS ==
  ASSUME BaseInv, NEW V, NEW p, NEW mark, NEW bb, NEW sb, NEW k, NEW next,
         Takes(V, p, mark, bb, sb, k, next), FreshS(p, sb), k \in sb => sb \ {k} # {}
  PROVE  FreshS(Pos(k), sb \ {k})
<1> SUFFICES ASSUME NEW r \in Rows
             PROVE  StorageKey(r) \in sb \ {k} <=>
                      r \in storage /\ ~Done(r, Pos(k)) /\ ReachS(sb \ {k}, r)
  BY DEF FreshS
<1>1. p \in Nat /\ Pos(k) \in Nat /\ p < Pos(k)
  BY TakesFields
<1>2. ReachS(sb \ {k}, r) <=> ReachS(sb, r)
  BY StepReach
<1>3. StorageKey(r) \in sb <=> r \in storage /\ ~Done(r, p) /\ ReachS(sb, r)
  BY DEF FreshS
<1>4. PICK o \in Nat : o = Pos(StorageKey(r))
  BY StorageKeys
<1>5. StorageKey(r) \in sb \ {k} => Pos(k) < o
  BY <1>4, TakesFields
<1>6. (Done(r, p) <=> o <= p) /\ (Done(r, Pos(k)) <=> o <= Pos(k))
  BY <1>4 DEF Done
<1>7. StorageKey(r) = k => o = Pos(k)
  BY <1>4
<1> QED
  BY <1>1, <1>2, <1>3, <1>4, <1>5, <1>6, <1>7

\* The delete mark that the search has passed is in the tree if it was taken from there.
LEMMA StepMark ==
  ASSUME BaseInv, NEW V, NEW p, NEW mark, NEW bb, NEW sb, NEW k, NEW next,
         Takes(V, p, mark, bb, sb, k, next), FreshB(V, p, bb), mark = TRUE => MarkThere(V, p)
  PROVE  next = TRUE => MarkThere(V, Pos(k))
<1>1. /\ k \in bb \cup sb /\ k.del \in BOOLEAN /\ RowOf(Pos(k)) = k.row /\ WereWritten(bb)
      /\ k \in sb => ~k.del
      /\ mark => k.row = RowOf(p)
  BY TakesFields
<1>2. /\ next = IF k \in sb \/ [k EXCEPT !.num = 0] \in V THEN k.del ELSE mark
      /\ mark \in BOOLEAN
  BY DEF Takes, Poised
<1>3. CASE k \in bb /\ k.del /\ [k EXCEPT !.num = 0] \in V
  <2>1. PICK x \in V : x = [k EXCEPT !.num = 0]
    BY <1>3
  <2>2. x.row = k.row /\ x.del = k.del /\ Copied(x, bb)
    BY <1>1, <1>3, <2>1, CopyKey
  <2> QED
    BY <1>1, <1>3, <2>2 DEF FreshB, MarkThere
<1>4. CASE mark
  BY <1>1, <1>4 DEF MarkThere
<1> QED
  BY <1>1, <1>2, <1>3, <1>4

-----------------------------------------------------------------------------
(***************************************************************************)
(* A call of a search                                                      *)
(***************************************************************************)

\* Where a search starts again: nothing that is seen lies between.
LEMMA ResetAt ==
  ASSUME BaseInv, NEW V, View(V), NEW p \in Nat, NEW mark \in BOOLEAN, NEW bb,
         Passed(V, p, mark, bb), NEW q, q = IF mark THEN RowEnd(RowOf(p)) ELSE p
  PROVE  /\ q \in Nat
         /\ \A b : (\A k : Copied(k, b) => InBonsai(k)) => Passed(V, q, FALSE, b)
         /\ \A r \in RowsOf(V) : Done(r, q) <=> Done(r, p)
<1>1. \A k \in V : k \in Keys /\ k \in written /\ k.row \in Rows /\ Pos(k) \in Nat
  BY WrittenKey, PosNat DEF View
<1>2. CASE ~mark
  <2>1. q = p
    BY <1>2
  <2>2. ASSUME NEW b, \A k : Copied(k, b) => InBonsai(k)
        PROVE  Passed(V, q, FALSE, b)
    BY <1>2, <2>1, <2>2 DEF Passed
  <2> QED
    BY <2>1, <2>2
<1>3. CASE mark
  <2>1. PICK n \in Nat : n = RowOf(p)
    BY RowPlace
  <2>2. q = RowEnd(RowOf(p)) /\ q = RowEnd(n)
    BY <1>3, <2>1
  <2>3. /\ q \in Nat /\ p <= q
        /\ \A k \in Keys : /\ k.row < n => Pos(k) < p
                           /\ Pos(k) <= q <=> k.row <= n
    BY <2>1, <2>2, RowPlace
  <2>4. \A r \in Rows : /\ Done(r, q) <=> r <= n
                        /\ r < n => Done(r, p)
                        /\ Done(r, p) => Done(r, q)
    <3> SUFFICES ASSUME NEW r \in Rows
                 PROVE  /\ Done(r, q) <=> r <= n
                        /\ r < n => Done(r, p)
                        /\ Done(r, p) => Done(r, q)
      OBVIOUS
    <3>1. PICK x \in Keys : x = StorageKey(r) /\ x.row = r /\ Pos(x) \in Nat
      BY StorageKeys
    <3> QED
      BY <2>3, <3>1 DEF Done
  <2>5. ASSUME NEW b, NEW k \in V
        PROVE  /\ ~(Pos(k) <= q /\ ~Done(k.row, q))
               /\ Done(k.row, q) => Pos(k) <= q
    BY <1>1, <2>3, <2>4
  <2>6. \A b : Passed(V, q, FALSE, b)
    BY <2>5 DEF Passed
  <2>7. ASSUME NEW r \in RowsOf(V)
        PROVE  Done(r, q) <=> Done(r, p)
    <3>1. r \in Rows /\ r \in Nat
      BY BoundsAssumption DEF RowsOf
    <3>2. r # n
      <4>1. \E d \in V : d.del /\ d.row = RowOf(p)
        BY <1>3 DEF Passed
      <4> QED
        BY <2>1, <4>1 DEF RowsOf
    <3> QED
      BY <2>1, <2>4, <3>1, <3>2
  <2> QED
    BY <2>3, <2>6, <2>7
<1> QED
  BY <1>2, <1>3

\* Nothing lies before the start.
LEMMA AtStart ==
  ASSUME BaseInv, NEW V, View(V), NEW bb
  PROVE  Passed(V, 0, FALSE, bb) /\ \A r \in Rows : ~Done(r, 0)
<1>1. \A r \in Rows : ~Done(r, 0)
  <2> SUFFICES ASSUME NEW r \in Rows
               PROVE  ~Done(r, 0)
    OBVIOUS
  <2>1. PICK x \in Keys : x.row = r /\ Pos(x) \in Nat /\ Pos(x) = Pos(StorageKey(r))
    BY StorageKeys
  <2>2. Pos(StorageKey(x.row)) > 0
    BY RowPlaces
  <2> QED
    BY <2>1, <2>2 DEF Done
<1>2. \A k \in V : k.row \in Rows /\ Pos(k) > 0 /\ Pos(k) \in Nat
  <2> SUFFICES ASSUME NEW k \in V
               PROVE  k.row \in Rows /\ Pos(k) > 0 /\ Pos(k) \in Nat
    OBVIOUS
  <2>1. k \in Keys /\ k.id > 0 /\ k.row \in Rows
    BY WrittenKey DEF View
  <2> QED
    BY <2>1, RowPlaces, PosNat
<1> QED
  BY <1>1, <1>2 DEF Passed

\* A search that is positioned at p has copies that serve the step.
Steady(V, p, s) ==
  /\ Poised(V, p, s.deletenext, s.bbuf, s.sbuf)
  /\ s.out = {r \in RowsOf(V) : Done(r, p)}
  /\ IsFresh(s) => /\ FreshB(V, p, s.bbuf) /\ FreshS(p, s.sbuf)
                   /\ s.deletenext = TRUE => MarkThere(V, p)

\* Copies that are up to date make it so.
LEMMA SteadyFresh ==
  ASSUME FateInv, RowsInv, OrderInv, NEW t \in Trx, trxst[t] = "begin", NEW m \in Nat,
         NEW V, V = Seen(t, m), NEW p \in Nat, NEW s, s.deletenext \in BOOLEAN, WereWritten(s.bbuf),
         Shape(p, s.bbuf, s.sbuf), Passed(V, p, s.deletenext, s.bbuf),
         s.out = {r \in RowsOf(V) : Done(r, p)},
         FreshB(V, p, s.bbuf), FreshS(p, s.sbuf), s.deletenext => MarkThere(V, p)
  PROVE  Steady(V, p, s)
<1>1. PICK mark \in BOOLEAN : mark = s.deletenext
  OBVIOUS
<1>2. PICK bb, sb : bb = s.bbuf /\ sb = s.sbuf
  OBVIOUS
<1>3. Held(V, p, bb) /\ Exact(V, p, mark, bb, sb)
  BY <1>1, <1>2, FreshReady
<1>4. View(V)
  BY SeenView
<1> QED
  BY <1>1, <1>2, <1>3, <1>4 DEF Steady, Poised

\* Whether a search is listed or on, it is at its place.
LEMMA SearchAt ==
  ASSUME BaseInv, NEW V, View(V), NEW s \in SearchType, s.st \in {"listed", "on"},
         s.st = "listed" => ClearSearch(s), s.st = "on" => OnOK(V, s)
  PROVE  /\ Shape(s.pos, s.bbuf, s.sbuf) /\ Passed(V, s.pos, s.deletenext, s.bbuf)
         /\ s.out = {r \in RowsOf(V) : Done(r, s.pos)}
         /\ s.reset => ~s.deletenext
<1>1. CASE s.st = "on"
  BY <1>1 DEF OnOK
<1>2. CASE s.st = "listed"
  <2>1. /\ s.pos = 0 /\ s.out = {} /\ s.bbuf = {} /\ s.sbuf = {} /\ ~s.reset
        /\ s.deletenext = FALSE
    BY <1>2, SearchFields DEF ClearSearch
  <2>2. \A r \in RowsOf(V) : ~Done(r, 0)
    BY AtStart DEF RowsOf
  <2>3. Passed(V, 0, FALSE, {})
    BY AtStart
  <2>4. Shape(0, {}, {})
    BY DEF Shape
  <2> QED
    BY <2>1, <2>2, <2>3, <2>4
<1> QED
  BY <1>1, <1>2

\* Two leaves of the trees, loaded at the same place.
LEMMA ShapeOf ==
  ASSUME NEW p, NEW bb, NEW sb,
         \A k \in bb : Pos(k) > p, \A k \in sb : Pos(k) > p,
         sb \subseteq {StorageKey(r) : r \in Rows},
         \A j, k \in bb : LeafOf(j) = LeafOf(k) /\ (Pos(j) = Pos(k) => j = k),
         \A j, k \in sb : StorageLeaf[j.row] = StorageLeaf[k.row]
  PROVE  Shape(p, bb, sb)
  BY DEF Shape

\* The search starts again.
LEMMA ResetSteady ==
  ASSUME FateInv, RowsInv, OrderInv, SamePlace(bonsai), NEW t \in Trx, trxst[t] = "begin",
         NEW s \in SearchType, NEW V, V = Seen(t, s.maxid), s.st \in {"listed", "on"},
         s.st = "listed" => ClearSearch(s), s.st = "on" => OnOK(V, s), NEW x, x = Reset(s)
  PROVE  \E p \in Nat : Steady(V, p, x)
<1>1. BaseInv /\ View(V) /\ storage \subseteq Rows /\ s.maxid \in Nat
  BY SearchFields, SeenView DEF FateInv, BaseInv, Types
<1>2. PICK p \in Nat, mark \in BOOLEAN : p = s.pos /\ mark = s.deletenext
  BY SearchFields
<1>3. PICK q : q = ResetPos(s)
  OBVIOUS
<1>4. q = IF mark THEN RowEnd(RowOf(p)) ELSE p
  BY <1>2, <1>3 DEF ResetPos
<1>5. PICK old : Passed(V, p, mark, old) /\ s.out = {r \in RowsOf(V) : Done(r, p)}
  BY <1>1, <1>2, SearchAt
<1>6. /\ q \in Nat
      /\ \A b : (\A k : Copied(k, b) => InBonsai(k)) => Passed(V, q, FALSE, b)
      /\ \A r \in RowsOf(V) : Done(r, q) <=> Done(r, p)
  BY <1>1, <1>4, <1>5, ResetAt
<1>7. PICK bb, sb : bb = LoadBonsai(q) /\ sb = LoadStorage(q)
  OBVIOUS
<1>8. x.bbuf = bb /\ x.sbuf = sb /\ x.deletenext = FALSE /\ x.out = s.out
  BY <1>3, <1>7 DEF Reset, SearchType
<1>9. /\ WereWritten(bb) /\ \A k \in bb : Pos(k) > q
      /\ \A j, k \in bb : LeafOf(j) = LeafOf(k) /\ (Pos(j) = Pos(k) => j = k)
      /\ \A k : Copied(k, bb) => InBonsai(k)
      /\ \A W : W \subseteq written => FreshB(W, q, bb)
  BY <1>6, <1>7, LoadedBonsai
<1>10. /\ sb \subseteq {StorageKey(r) : r \in Rows} /\ \A k \in sb : Pos(k) > q
       /\ \A j, k \in sb : StorageLeaf[j.row] = StorageLeaf[k.row]
       /\ FreshS(q, sb)
  BY <1>1, <1>6, <1>7, LoadedStorage
<1>11. Shape(q, bb, sb)
  BY <1>9, <1>10, ShapeOf
<1>12. FreshB(V, q, bb)
  BY <1>1, <1>9 DEF View
<1>13. Passed(V, q, FALSE, bb)
  BY <1>6, <1>9
<1>14. x.out = {r \in RowsOf(V) : Done(r, q)}
  BY <1>5, <1>6, <1>8
<1>15. Steady(V, q, x)
  <2>1. /\ WereWritten(x.bbuf) /\ Shape(q, x.bbuf, x.sbuf) /\ Passed(V, q, x.deletenext, x.bbuf)
        /\ FreshB(V, q, x.bbuf) /\ FreshS(q, x.sbuf)
    BY <1>8, <1>9, <1>10, <1>11, <1>12, <1>13
  <2>2. x.deletenext \in BOOLEAN /\ (x.deletenext => MarkThere(V, q))
    BY <1>8
  <2>3. PICK m \in Nat : m = s.maxid /\ V = Seen(t, m)
    BY <1>1
  <2> QED
    BY <1>6, <1>14, <2>1, <2>2, <2>3, SteadyFresh
<1> QED
  BY <1>6, <1>15

\* The search goes on, with the leaf behind the end of a copy.
LEMMA OnSteady ==
  ASSUME FateInv, RowsInv, OrderInv, SamePlace(bonsai), NEW t \in Trx, trxst[t] = "begin",
         NEW s \in SearchType, NEW V, V = Seen(t, s.maxid), s.st = "on", OnOK(V, s),
         WereWritten(s.bbuf), ~NeedsReset(s), NEW x, x = Positioned(s)
  PROVE  Steady(V, s.pos, x) /\ x.deletenext = s.deletenext
<1>1. BaseInv /\ View(V) /\ storage \subseteq Rows /\ s.maxid \in Nat
  BY SearchFields, SeenView DEF FateInv, BaseInv, Types
<1>2. PICK p \in Nat, mark \in BOOLEAN : p = s.pos /\ mark = s.deletenext
  BY SearchFields
<1>3. /\ Shape(p, s.bbuf, s.sbuf) /\ Passed(V, p, mark, s.bbuf)
      /\ s.out = {r \in RowsOf(V) : Done(r, p)} /\ Ready(V, s)
  BY <1>2 DEF OnOK, NeedsReset
<1>4. s.edge # "no" => IsFresh(s)
  BY DEF NeedsReset, IsFresh
<1>5. CASE s.edge = "no"
  <2>1. x = s
    BY <1>5 DEF Positioned
  <2>2. CASE IsFresh(s)
    <3>1. FreshB(V, p, s.bbuf) /\ FreshS(p, s.sbuf) /\ (mark => MarkThere(V, p))
      BY <1>2, <1>3, <1>5, <2>2 DEF Ready
    <3> QED
      BY <1>1, <1>2, <1>3, <2>1, <3>1, SteadyFresh
  <2>3. CASE ~IsFresh(s)
    <3>1. Held(V, p, s.bbuf) /\ Exact(V, p, mark, s.bbuf, s.sbuf)
      BY <1>2, <1>3, <1>5, <2>3 DEF Ready
    <3> QED
      BY <1>1, <1>2, <1>3, <2>1, <2>3, <3>1 DEF Steady, Poised
  <2> QED
    BY <2>2, <2>3
<1>6. CASE s.edge = "bonsai"
  <2>1. PICK bb : bb = LoadBonsai(p)
    OBVIOUS
  <2>2. x.bbuf = bb /\ x.sbuf = s.sbuf /\ x.deletenext = mark /\ x.out = s.out
    BY <1>2, <1>6, <2>1 DEF Positioned, SearchType
  <2>3. /\ WereWritten(bb) /\ \A k \in bb : Pos(k) > p
        /\ \A j, k \in bb : LeafOf(j) = LeafOf(k) /\ (Pos(j) = Pos(k) => j = k)
        /\ \A k : Copied(k, bb) => InBonsai(k)
        /\ \A W : W \subseteq written => FreshB(W, p, bb)
    BY <2>1, LoadedBonsai
  <2>4. Shape(p, bb, s.sbuf)
    BY <1>3, <2>3 DEF Shape
  <2>5. FreshB(V, p, bb)
    BY <1>1, <2>3 DEF View
  <2>6. Passed(V, p, mark, bb)
    BY <1>3, <2>3 DEF Passed
  <2>7. FreshS(p, s.sbuf) /\ (mark => MarkThere(V, p))
    BY <1>2, <1>3, <1>4, <1>6 DEF Ready
  <2> QED
    BY <1>1, <1>2, <1>3, <2>2, <2>3, <2>4, <2>5, <2>6, <2>7, SteadyFresh
<1>7. CASE s.edge = "storage"
  <2>1. PICK sb : sb = LoadStorage(p)
    OBVIOUS
  <2>2. x.bbuf = s.bbuf /\ x.sbuf = sb /\ x.deletenext = mark /\ x.out = s.out
    BY <1>2, <1>7, <2>1 DEF Positioned, SearchType
  <2>3. /\ sb \subseteq {StorageKey(r) : r \in Rows} /\ \A k \in sb : Pos(k) > p
        /\ \A j, k \in sb : StorageLeaf[j.row] = StorageLeaf[k.row]
        /\ FreshS(p, sb)
    BY <1>1, <2>1, LoadedStorage
  <2>4. Shape(p, s.bbuf, sb)
    BY <1>3, <2>3 DEF Shape
  <2>5. FreshB(V, p, s.bbuf) /\ (mark => MarkThere(V, p))
    BY <1>2, <1>3, <1>4, <1>7 DEF Ready
  <2> QED
    BY <1>1, <1>2, <1>3, <2>2, <2>3, <2>4, <2>5, SteadyFresh
<1> QED
  BY <1>5, <1>6, <1>7, SearchFields

\* What a search accepts is what its transaction has to see.
LEMMA AcceptsSeen ==
  ASSUME FateInv, NEW t \in Readers, NEW m, NEW k, k \in bonsai \/ k \in Copies(t),
         NEW j, j = [k EXCEPT !.num = 0]
  PROVE  Accepts(t, m, k) <=> j \in Seen(t, m)
<1>1. k \in Keys /\ j \in written
  BY HeldIds DEF FateInv
<1>2. KeyOK(k)
  BY DEF FateInv, KeysInv
<1>3. FateKnown(k)
  BY <1>2, KeyFate
<1>4. j.id = k.id
  BY <1>1, PlainKey
<1>5. Accepts(t, m, k) <=> Sees(t, m, k.id)
  <2>1. CASE k.num # 0
    BY <1>2, <1>3, <2>1 DEF KeyOK, Accepts, Sees
  <2>2. CASE k.num = 0
    BY <1>2, <1>3, <2>2 DEF KeyOK, FateKnown, Accepts, Sees
  <2> QED
    BY <2>1, <2>2
<1> QED
  BY <1>1, <1>4, <1>5 DEF Seen

\* The fields of a search after a step.
Stepped(V, p, x, y, k, next) ==
  /\ Takes(V, p, x.deletenext, x.bbuf, x.sbuf, k, next)
  /\ y.bbuf = x.bbuf \ {k} /\ y.sbuf = x.sbuf \ {k} /\ y.pos = Pos(k)
  /\ y.deletenext = next /\ y.ingate = (x.ingate /\ next)
  /\ y.active = x.active /\ y.reset = x.reset /\ y.st = x.st /\ y.maxid = x.maxid
  /\ y.edge # "bonsai" => (k \in x.bbuf => x.bbuf \ {k} # {})
  /\ y.edge # "storage" => (k \in x.sbuf => x.sbuf \ {k} # {})
  /\ y.out = IF (k \in x.sbuf \/ [k EXCEPT !.num = 0] \in V) /\ ~k.del /\ ~x.deletenext
             THEN x.out \cup {k.row} ELSE x.out

\* The fields of a search after it has taken a key.
LEMMA StepFields ==
  ASSUME FateInv, NEW t \in Readers, NEW x \in SearchType, NEW V, V = Seen(t, x.maxid),
         NEW p, Steady(V, p, x), x.bbuf \cup x.sbuf # {}, x.bbuf \subseteq bonsai \cup Copies(t),
         NEW y, y = Step(t, x)
  PROVE  \E k, next : Stepped(V, p, x, y, k, next)
<1>1. Poised(V, p, x.deletenext, x.bbuf, x.sbuf) /\ BaseInv
  BY DEF Steady, FateInv
<1>2. PICK k : k = FirstKey(x.bbuf \cup x.sbuf)
  OBVIOUS
<1>3. NextKey(p, x.bbuf, x.sbuf, k)
  BY <1>1, <1>2 DEF NextKey, Poised
<1>4. PICK seen \in BOOLEAN : seen = (k \in x.sbuf \/ [k EXCEPT !.num = 0] \in V)
  OBVIOUS
<1>5. PICK next : next = IF k \in x.sbuf \/ [k EXCEPT !.num = 0] \in V THEN k.del ELSE x.deletenext
  OBVIOUS
<1>6. Takes(V, p, x.deletenext, x.bbuf, x.sbuf, k, next)
  BY <1>1, <1>3, <1>5 DEF Takes
<1>7. k \in x.bbuf \cup x.sbuf /\ (k \in x.bbuf => k \notin x.sbuf)
  <2>1. PICK bb, sb, mark : bb = x.bbuf /\ sb = x.sbuf /\ mark = x.deletenext
    OBVIOUS
  <2>2. Takes(V, p, mark, bb, sb, k, next)
    BY <1>6, <2>1
  <2>3. k \in bb \cup sb /\ (k \in bb => k \notin sb)
    BY <1>1, <2>2, TakesFields
  <2> QED
    BY <2>1, <2>3
<1>8. (k \notin x.bbuf \/ Accepts(t, x.maxid, k)) <=> seen
  <2>1. CASE k \in x.bbuf
    <3>1. PICK j : j = [k EXCEPT !.num = 0]
      OBVIOUS
    <3>2. Accepts(t, x.maxid, k) <=> j \in V
      BY <2>1, <3>1, AcceptsSeen
    <3> QED
      BY <1>4, <1>7, <2>1, <3>1, <3>2
  <2>2. CASE k \notin x.bbuf
    BY <1>4, <1>7, <2>2
  <2> QED
    BY <2>1, <2>2
<1>9. next = IF seen THEN k.del ELSE x.deletenext
  BY <1>4, <1>5
<1>10. y = [x EXCEPT !.bbuf = x.bbuf \ {k}, !.sbuf = x.sbuf \ {k}, !.pos = Pos(k),
              !.edge = CASE k \in x.bbuf /\ x.bbuf \ {k} = {} -> "bonsai"
                         [] k \notin x.bbuf /\ x.sbuf \ {k} = {} -> "storage"
                         [] OTHER -> "no",
              !.deletenext = next, !.ingate = x.ingate /\ next,
              !.out = IF seen /\ ~k.del /\ ~x.deletenext THEN x.out \cup {k.row} ELSE x.out]
  BY <1>2, <1>8, <1>9 DEF Step
<1>11. PICK e : e = CASE k \in x.bbuf /\ x.bbuf \ {k} = {} -> "bonsai"
                      [] k \notin x.bbuf /\ x.sbuf \ {k} = {} -> "storage"
                      [] OTHER -> "no"
  OBVIOUS
<1>12. /\ y.bbuf = x.bbuf \ {k} /\ y.sbuf = x.sbuf \ {k} /\ y.pos = Pos(k) /\ y.edge = e
       /\ y.deletenext = next /\ y.ingate = (x.ingate /\ next)
       /\ y.active = x.active /\ y.reset = x.reset /\ y.st = x.st /\ y.maxid = x.maxid
       /\ y.out = IF seen /\ ~k.del /\ ~x.deletenext THEN x.out \cup {k.row} ELSE x.out
  BY <1>10, <1>11 DEF SearchType
<1>13. /\ e # "bonsai" => (k \in x.bbuf => x.bbuf \ {k} # {})
       /\ e # "storage" => (k \in x.sbuf => x.sbuf \ {k} # {})
  BY <1>7, <1>11
<1>14. y.out = IF (k \in x.sbuf \/ [k EXCEPT !.num = 0] \in V) /\ ~k.del /\ ~x.deletenext
               THEN x.out \cup {k.row} ELSE x.out
  BY <1>4, <1>12
<1>15. Stepped(V, p, x, y, k, next)
  BY <1>6, <1>12, <1>13, <1>14 DEF Stepped
<1> QED
  BY <1>15

\* A step of a search that is positioned.
LEMMA StepOn ==
  ASSUME FateInv, NEW t \in Readers, NEW x \in SearchType, NEW V, V = Seen(t, x.maxid), ~x.reset,
         NEW p, Steady(V, p, x), x.bbuf \cup x.sbuf # {}, x.bbuf \subseteq bonsai \cup Copies(t),
         NEW y, y = Step(t, x)
  PROVE  OnOK(V, y) /\ y.st = x.st /\ y.maxid = x.maxid
<1>0. PICK k, next : Stepped(V, p, x, y, k, next)
  BY StepFields
<1>1. /\ Takes(V, p, x.deletenext, x.bbuf, x.sbuf, k, next)
      /\ y.bbuf = x.bbuf \ {k} /\ y.sbuf = x.sbuf \ {k} /\ y.pos = Pos(k)
      /\ y.deletenext = next /\ y.ingate = (x.ingate /\ next)
      /\ y.active = x.active /\ y.reset = x.reset /\ y.st = x.st /\ y.maxid = x.maxid
      /\ y.edge # "bonsai" => (k \in x.bbuf => x.bbuf \ {k} # {})
      /\ y.edge # "storage" => (k \in x.sbuf => x.sbuf \ {k} # {})
      /\ y.out = IF (k \in x.sbuf \/ [k EXCEPT !.num = 0] \in V) /\ ~k.del /\ ~x.deletenext
                 THEN x.out \cup {k.row} ELSE x.out
  BY <1>0 DEF Stepped
<1>2. PICK bb, sb : bb = x.bbuf /\ sb = x.sbuf
  OBVIOUS
<1>3. PICK mark \in BOOLEAN : mark = x.deletenext
  BY SearchFields
<1>4. Takes(V, p, mark, bb, sb, k, next) /\ BaseInv
  BY <1>1, <1>2, <1>3 DEF FateInv
<1>5. next \in BOOLEAN /\ k.row \in Rows /\ x.ingate \in BOOLEAN
  BY <1>4, SearchFields, TakesFields
<1>6. Shape(y.pos, y.bbuf, y.sbuf)
  BY <1>1, <1>2, <1>4, StepShape
<1>7. Passed(V, y.pos, y.deletenext, y.bbuf)
  BY <1>1, <1>2, <1>4, StepPassed
<1>8. y.out = {r \in RowsOf(V) : Done(r, y.pos)}
  <2>1. x.out = {r \in RowsOf(V) : Done(r, p)}
    BY DEF Steady
  <2>2. \A r \in Rows : r \in RowsOf(V) /\ Done(r, Pos(k)) <=>
           \/ r \in RowsOf(V) /\ Done(r, p)
           \/ /\ r = k.row /\ ~k.del /\ ~mark
              /\ k \in sb \/ [k EXCEPT !.num = 0] \in V
    BY <1>4, StepOut
  <2>3. RowsOf(V) \subseteq Rows
    BY DEF RowsOf
  <2>4. CASE (k \in sb \/ [k EXCEPT !.num = 0] \in V) /\ ~k.del /\ ~mark
    <3>1. y.out = x.out \cup {k.row}
      BY <1>1, <1>2, <1>3, <2>4
    <3>2. \A r \in Rows : r \in RowsOf(V) /\ Done(r, Pos(k)) <=>
             (r \in RowsOf(V) /\ Done(r, p)) \/ r = k.row
      BY <2>2, <2>4
    <3>3. y.pos = Pos(k)
      BY <1>1
    <3> QED
      BY <1>5, <2>1, <2>3, <3>1, <3>2, <3>3
  <2>5. CASE ~((k \in sb \/ [k EXCEPT !.num = 0] \in V) /\ ~k.del /\ ~mark)
    <3>1. y.out = x.out
      BY <1>1, <1>2, <1>3, <2>5
    <3>2. \A r \in Rows : r \in RowsOf(V) /\ Done(r, Pos(k)) <=> r \in RowsOf(V) /\ Done(r, p)
      BY <2>2, <2>5
    <3>3. y.pos = Pos(k)
      BY <1>1
    <3> QED
      BY <2>1, <2>3, <3>1, <3>2, <3>3
  <2> QED
    BY <2>4, <2>5
<1>9. /\ y.ingate => y.deletenext
      /\ y.reset => ~y.deletenext
  BY <1>1, <1>5
<1>10. Ready(V, y)
  <2>1. IsFresh(y) => IsFresh(x)
    BY <1>1, <1>5 DEF IsFresh
  <2>2. ASSUME IsFresh(y)
        PROVE  /\ y.edge # "bonsai" => FreshB(V, y.pos, y.bbuf)
               /\ y.edge # "storage" => FreshS(y.pos, y.sbuf)
               /\ y.deletenext => MarkThere(V, y.pos)
    <3>1. FreshB(V, p, bb) /\ FreshS(p, sb) /\ (mark = TRUE => MarkThere(V, p))
      BY <1>2, <1>3, <2>1, <2>2 DEF Steady
    <3>2. y.edge # "bonsai" => FreshB(V, Pos(k), bb \ {k})
      BY <1>1, <1>2, <1>4, <3>1, StepFreshB
    <3>3. y.edge # "storage" => FreshS(Pos(k), sb \ {k})
      BY <1>1, <1>2, <1>4, <3>1, StepFreshS
    <3>4. next = TRUE => MarkThere(V, Pos(k))
      BY <1>4, <3>1, StepMark
    <3> QED
      BY <1>1, <1>2, <1>5, <3>2, <3>3, <3>4
  <2>3. ASSUME y.edge = "no"
        PROVE  Held(V, y.pos, y.bbuf) /\ Exact(V, y.pos, y.deletenext, y.bbuf, y.sbuf)
    <3>1. /\ k \in bb => bb \ {k} # {}
          /\ k \in sb => sb \ {k} # {}
      BY <1>1, <1>2, <2>3
    <3>2. Held(V, Pos(k), bb \ {k})
      BY <1>4, <3>1, StepHeld
    <3>3. Exact(V, Pos(k), next, bb \ {k}, sb \ {k})
      BY <1>4, <3>1, StepExact
    <3> QED
      BY <1>1, <1>2, <3>2, <3>3
  <2> QED
    BY <2>2, <2>3 DEF Ready
<1> QED
  BY <1>1, <1>6, <1>7, <1>8, <1>9, <1>10 DEF OnOK

\* A search that finds no key has put out everything.
LEMMA EndOut ==
  ASSUME NEW V, NEW p, NEW x, Steady(V, p, x), x.bbuf \cup x.sbuf = {}
  PROVE  x.out = RowsOf(V)
<1>1. PICK mark : Exact(V, p, mark, {}, {})
  BY DEF Steady, Poised
<1>2. ASSUME NEW r \in RowsOf(V)
      PROVE  Done(r, p)
  <2>1. r \in Rows
    BY DEF RowsOf
  <2>2. ReachB({}, r, FALSE) /\ ReachS({}, r)
    BY DEF ReachB, ReachS
  <2>3. ~HasRow(V, {}, {}, r)
    BY DEF HasRow, HasKey, Copied
  <2> QED
    BY <1>1, <2>1, <2>2, <2>3 DEF Exact
<1> QED
  BY <1>2 DEF Steady

-----------------------------------------------------------------------------
(***************************************************************************)
(* Steps around a search                                                   *)
(***************************************************************************)

\* While no merge moves keys, those that a search sees stay in the tree.
LEMMA EnvOn ==
  ASSUME NEW V, NEW s, OnOK(V, s), \A k \in V : InBonsai(k)' => InBonsai(k),
         IsFresh(s) => storage' = storage /\ \A k \in V : InBonsai(k)' <=> InBonsai(k)
  PROVE  OnOK(V, s)'
<1>1. PICK p, mark, bb, sb : p = s.pos /\ mark = s.deletenext /\ bb = s.bbuf /\ sb = s.sbuf
  OBVIOUS
<1>2. Passed(V, p, mark, bb) => Passed(V, p, mark, bb)'
  BY DEF Passed
<1>3. Held(V, p, bb) => Held(V, p, bb)'
  BY DEF Held
<1>4. ASSUME IsFresh(s)
      PROVE  /\ FreshB(V, p, bb) => FreshB(V, p, bb)'
             /\ FreshS(p, sb) => FreshS(p, sb)'
             /\ MarkThere(V, p) => MarkThere(V, p)'
  <2>1. FreshB(V, p, bb) => FreshB(V, p, bb)'
    BY <1>4 DEF FreshB
  <2>2. FreshS(p, sb) => FreshS(p, sb)'
    BY <1>4 DEF FreshS
  <2>3. MarkThere(V, p) => MarkThere(V, p)'
    BY <1>4 DEF MarkThere
  <2> QED
    BY <2>1, <2>2, <2>3
<1>5. Ready(V, s) => Ready(V, s)'
  BY <1>1, <1>3, <1>4 DEF Ready
<1> QED
  BY <1>1, <1>2, <1>5 DEF OnOK

\* dbe_indsea_setmergestart finds copies that are up to date.
LEMMA MarkOn ==
  ASSUME FateInv, RowsInv, OrderInv, NEW t \in Trx, trxst[t] = "begin",
         NEW s \in SearchType, NEW V, V = Seen(t, s.maxid), OnOK(V, s), WereWritten(s.bbuf),
         ~s.ingate, ~s.deletenext, NEW y, y = [s EXCEPT !.active = TRUE]
  PROVE  OnOK(V, y)
<1>1. PICK p \in Nat, m \in Nat : p = s.pos /\ m = s.maxid
  BY SearchFields
<1>2. PICK bb, sb : bb = s.bbuf /\ sb = s.sbuf
  OBVIOUS
<1>3. s.deletenext = FALSE
  BY SearchFields
<1>4. /\ y.active = TRUE /\ y.pos = s.pos /\ y.bbuf = s.bbuf /\ y.sbuf = s.sbuf /\ y.out = s.out
      /\ y.ingate = s.ingate /\ y.deletenext = s.deletenext /\ y.reset = s.reset /\ y.edge = s.edge
  BY DEF SearchType
<1>5. ~IsFresh(y)
  BY <1>4 DEF IsFresh
<1>6. Passed(V, p, FALSE, bb) /\ ~s.reset => Ready(V, s)
  BY <1>1, <1>2, <1>3 DEF OnOK
<1>7. ASSUME ~s.reset, s.edge = "no"
      PROVE  Held(V, p, bb) /\ Exact(V, p, FALSE, bb, sb)
  <2>1. CASE IsFresh(s)
    <3>1. FreshB(V, p, bb) /\ FreshS(p, sb)
      BY <1>1, <1>2, <1>6, <1>7, <2>1 DEF Ready, OnOK
    <3>2. Passed(V, p, FALSE, bb) /\ WereWritten(bb)
      BY <1>1, <1>2, <1>3 DEF OnOK
    <3> QED
      BY <1>1, <3>1, <3>2, FreshReady
  <2>2. CASE ~IsFresh(s)
    BY <1>1, <1>2, <1>3, <1>7, <2>2 DEF Ready, OnOK
  <2> QED
    BY <2>1, <2>2
<1>8. ~y.reset => Ready(V, y)
  BY <1>1, <1>2, <1>3, <1>4, <1>5, <1>7 DEF Ready
<1> QED
  BY <1>4, <1>8 DEF OnOK

\* dbe_indsea_setmergestop leaves a search without copies.
LEMMA StopOn ==
  ASSUME NEW V, NEW s \in SearchType, OnOK(V, s), s.st = "on", ~s.deletenext,
         NEW y, y = Freed(s)
  PROVE  OnOK(V, y)
<1>1. y = [s EXCEPT !.active = FALSE, !.reset = TRUE, !.bbuf = {}, !.sbuf = {}]
  BY DEF Freed
<1>2. /\ y.pos = s.pos /\ y.bbuf = {} /\ y.sbuf = {} /\ y.out = s.out /\ y.reset = TRUE
      /\ y.ingate = s.ingate /\ y.deletenext = s.deletenext
  BY <1>1 DEF SearchType
<1>3. Shape(y.pos, {}, {})
  BY DEF Shape
<1>4. PICK p, mark, bb : p = s.pos /\ mark = s.deletenext /\ bb = s.bbuf
  OBVIOUS
<1>5. Passed(V, p, mark, bb)
  BY <1>4 DEF OnOK
<1>6. \A k : ~Copied(k, {})
  BY DEF Copied
<1>7. Passed(V, p, mark, {})
  BY <1>5, <1>6 DEF Passed
<1> QED
  BY <1>2, <1>3, <1>4, <1>7 DEF OnOK

\* What changes a search.
LEMMA SeaStep ==
  ASSUME Types, [Next]_vars, NEW t \in Readers
  PROVE  \/ sea'[t] = sea[t]
         \/ /\ MergeMark /\ Listed(t) /\ sea'[t] = [sea[t] EXCEPT !.active = TRUE]
            /\ UNCHANGED <<trxs, stmt, trees>>
         \/ /\ MergeStop /\ Listed(t) /\ sea'[t] = Freed(sea[t])
            /\ UNCHANGED <<trxs, stmt, trees>>
         \/ SearchOpen(t) \/ SearchStore(t) \/ SearchNext(t) \/ SearchClose(t)
<1>1. CASE MergeMark
  BY <1>1 DEF MergeMark
<1>2. CASE MergeStop
  BY <1>2 DEF MergeStop
<1>3. CASE MergeStart \/ MergeLeaf \/ MergeMove \/ MergeEnd \/ MergeError \/ MergeClean
  BY <1>3 DEF MergeStart, MergeLeaf, MergeMove, MergeEnd, MergeError, MergeClean
<1>4. ASSUME NEW u \in Trx,
             \/ Begin(u) \/ StmtBegin(u) \/ PublishAbortId(u) \/ \E c \in BOOLEAN : EndTrx(u, c)
             \/ \E i \in 1..trxid : \/ AddStmt(u, i) \/ StmtCommit(u, i) \/ StmtRollback(u, i)
                                    \/ \E r \in Rows, del \in BOOLEAN : Write(u, i, r, del)
      PROVE  sea' = sea
  BY <1>4 DEF Begin, StmtBegin, PublishAbortId, EndTrx, AddStmt, StmtCommit, StmtRollback, Write
<1>5. ASSUME NEW u \in Readers, u # t,
             SearchOpen(u) \/ SearchStore(u) \/ SearchNext(u) \/ SearchClose(u)
      PROVE  sea'[t] = sea[t]
  BY <1>5, SearchSteps
<1>6. CASE UNCHANGED vars
  BY <1>6 DEF vars
<1> QED
  BY <1>1, <1>2, <1>3, <1>4, <1>5, <1>6 DEF Next

\* What a transaction sees, with its statements that have ended, stays.
LEMMA SeenStep ==
  ASSUME FateInv, LeftInv, [Next]_vars, NEW t \in Trx, trxst[t] = "begin", trxst'[t] = "begin",
         NEW m \in Nat, \A i \in 1..trxid : stmt[i].trx = t /\ i <= m => stmt[i].st # "open"
  PROVE  Seen(t, m)' = Seen(t, m)
<1>1. Types /\ StmtInv /\ BaseInv
  BY DEF FateInv, BaseInv
<1>2. level'[t] = level[t] /\ level[t] \in Nat /\ level[t] <= maxtrxnum /\ maxtrxnum \in Nat
  <2>1. level'[t] = level[t]
    BY <1>1, TrxStep
  <2> QED
    BY <1>1, <2>1 DEF Types
<1>3. ASSUME NEW k \in written
      PROVE  Sees(t, m, k.id)' <=> Sees(t, m, k.id)
  <2>1. PICK i \in 1..trxid : i = k.id
    BY <1>1, WrittenKey
  <2>2. /\ Fate(i) \in {"commit", "abort"} => Fate(i)' = Fate(i)
        /\ Fate(i) = "commit" => num'[stmt'[i].trx] = num[stmt[i].trx]
        /\ Fate(i) # "commit" /\ Fate(i)' = "commit" => num'[stmt'[i].trx] = maxtrxnum + 1
        /\ Fate(i) \in {"begin", "commit", "abort"}
    BY <1>1, <2>1, FateStep
  <2>3. /\ stmt'[i].trx = stmt[i].trx
        /\ stmt'[i] = stmt[i] \/ stmt[i].st = "open"
    BY <1>1, StmtStep
  <2>4. CASE Fate(i) = "commit"
    BY <1>2, <2>1, <2>2, <2>3, <2>4 DEF Sees
  <2>5. CASE Fate(i) = "abort"
    BY <2>1, <2>2, <2>5 DEF Sees
  <2>6. CASE Fate(i) = "begin" /\ stmt[i].trx = t /\ i <= m
    <3>1. stmt'[i] = stmt[i] /\ stmt[i].st # "aborted"
      BY <2>3, <2>6 DEF Fate
    <3>2. Fate(i)' = "begin"
      BY <2>6, <3>1 DEF Fate
    <3> QED
      BY <2>1, <2>3, <2>6, <3>2 DEF Sees
  <2>7. CASE Fate(i) = "begin" /\ stmt[i].trx = t /\ ~(i <= m)
    <3>1. Fate(i)' # "commit"
      BY <2>3, <2>7 DEF Fate
    <3> QED
      BY <2>1, <2>7, <3>1 DEF Sees
  <2>8. CASE Fate(i) = "begin" /\ stmt[i].trx # t
    <3>1. Fate(i)' = "commit" => ~(num'[stmt'[i].trx] <= level'[t])
      BY <1>2, <2>2, <2>8
    <3>2. stmt'[i].trx # t
      BY <2>3, <2>8
    <3> QED
      BY <2>1, <2>8, <3>1, <3>2 DEF Sees
  <2> QED
    BY <2>2, <2>4, <2>5, <2>6, <2>7, <2>8
<1>4. ASSUME NEW k \in written', k \notin written
      PROVE  ~Sees(t, m, k.id)'
  <2>1. PICK u \in Trx, i \in 1..trxid, r \in Rows, del \in BOOLEAN : Write(u, i, r, del)
    BY <1>1, <1>4, Frame
  <2>2. /\ written' = written \cup {[row |-> r, del |-> del, id |-> i, num |-> 0]}
        /\ stmt[i].trx = u /\ stmt[i].st = "open"
        /\ UNCHANGED <<trxst, num, level, stmt>>
    BY <2>1 DEF Write, Open, trxs
  <2>3. k.id = i
    BY <1>4, <2>2
  <2>4. Fate(i)' = "begin" /\ stmt'[i].trx = u
    <3>1. trxst[u] = "begin"
      BY <1>1, <2>2 DEF StmtInv
    <3> QED
      BY <2>2, <3>1 DEF Fate
  <2>5. ~(u = t /\ i <= m)
    BY <2>2
  <2> QED
    BY <2>3, <2>4, <2>5 DEF Sees
<1>5. written \subseteq written'
  BY <1>1, Monotone
<1> QED
  BY <1>3, <1>4, <1>5 DEF Seen

\* The last finished statement: none of the transaction up to it is open.
LEMMA ReadIdClosed ==
  ASSUME Types, OrderInv, NEW t
  PROVE  /\ ReadId(t) \in Nat /\ ReadId(t) <= trxid
         /\ \A i \in 1..trxid : stmt[i].trx = t /\ i <= ReadId(t) => stmt[i].st # "open"
<1>1. trxid \in Nat
  BY DEF Types, trxid
<1>2. PICK F : F = Finished(t)
  OBVIOUS
<1>3. F \subseteq 1..trxid /\ \A i \in F : stmt[i].trx = t /\ stmt[i].st # "open"
  BY <1>2 DEF Finished
<1>4. CASE F = {}
  BY <1>1, <1>2, <1>4 DEF ReadId
<1>5. CASE F # {}
  <2>1. F \subseteq 0..trxid
    BY <1>1, <1>3
  <2>2. \E n \in F : \A m \in F : m <= n
    BY <1>1, <1>5, <2>1, GreatestNat
  <2>3. \A n \in F, m \in F : m <= n <=> n >= m
    BY <1>1, <2>1
  <2>4. \E n \in F : \A m \in F : n >= m
    BY <2>2, <2>3
  <2>5. Max(F) \in F
    BY <2>4 DEF Max
  <2>6. PICK n \in F : n = ReadId(t)
    BY <1>2, <1>5, <2>5 DEF ReadId
  <2>7. ASSUME NEW i \in 1..trxid, stmt[i].trx = t, i <= n
        PROVE  stmt[i].st # "open"
    <3>1. stmt[i].st = "open" => n <= i
      BY <1>3, <2>6, <2>7 DEF OrderInv
    <3>2. n \in Nat /\ i \in Nat
      BY <1>1, <2>1
    <3>3. n <= i => n = i
      BY <2>7, <3>2
    <3> QED
      BY <1>3, <3>1, <3>3
  <2> QED
    BY <1>1, <1>3, <2>6, <2>7
<1> QED
  BY <1>4, <1>5

\* A step of a search keeps what it may see of its own transaction.
LEMMA NextSearch ==
  ASSUME Types, NEW t \in Readers, SearchNext(t)
  PROVE  /\ sea[t].st \in {"listed", "on"} /\ UNCHANGED <<trxs, stmt, trees>>
         /\ \E x \in SearchType :
              /\ x = Positioned(sea[t]) /\ x.st = "on" /\ x.maxid = sea[t].maxid
              /\ x.bbuf \subseteq bonsai \cup Copies(t)
              /\ x.bbuf \cup x.sbuf = {} =>
                   /\ sea'[t].st = "end" /\ sea'[t].out = x.out /\ sea'[t].maxid = x.maxid
                   /\ ~sea'[t].deletenext /\ ~sea'[t].ingate
              /\ x.bbuf \cup x.sbuf # {} =>
                   sea'[t] = Step(t, x) /\ sea'[t].st = "on" /\ sea'[t].maxid = x.maxid
<1>1. /\ sea \in [Readers -> SearchType] /\ bonsai \subseteq Keys /\ storage \subseteq Rows
      /\ sea[t] \in SearchType
  BY DEF Types
<1>2. sea[t].st \in {"listed", "on"} /\ UNCHANGED <<trxs, stmt, trees>>
  BY DEF SearchNext
<1>3. PICK s, x : s \in SearchType /\ s = sea[t] /\ x = Positioned(s)
  BY <1>1
<1>4. x \in SearchType /\ x.bbuf \subseteq s.bbuf \cup bonsai /\ x.st = "on"
  BY <1>1, <1>2, <1>3, PositionedTyped
<1>5. x.maxid = s.maxid
  <2>1. PICK b, c, d, e, g : /\ b = LoadBonsai(ResetPos(s)) /\ c = LoadStorage(ResetPos(s))
                             /\ d = LoadBonsai(s.pos) /\ e = LoadStorage(s.pos)
                             /\ g = (s.active \/ s.reset)
    OBVIOUS
  <2>2. \/ x = [s EXCEPT !.st = "on", !.reset = FALSE, !.deletenext = FALSE,
                 !.edge = "no", !.ingate = g, !.bbuf = b, !.sbuf = c]
        \/ x = [s EXCEPT !.bbuf = d]
        \/ x = [s EXCEPT !.sbuf = e]
        \/ x = s
    BY <1>3, <2>1 DEF Positioned, Reset
  <2> QED
    BY <1>3, <2>2 DEF SearchType
<1>6. CASE x.bbuf \cup x.sbuf = {}
  <2>1. sea'[t] = [NoSearch EXCEPT !.st = "end", !.out = x.out, !.maxid = x.maxid]
    BY <1>1, <1>3, <1>6 DEF SearchNext
  <2>2. /\ sea'[t].st = "end" /\ sea'[t].out = x.out /\ sea'[t].maxid = x.maxid
        /\ ~sea'[t].deletenext /\ ~sea'[t].ingate
    BY <2>1 DEF NoSearch
  <2> QED
    BY <1>2, <1>3, <1>4, <1>5, <1>6, <2>2 DEF Copies
<1>7. CASE x.bbuf \cup x.sbuf # {}
  <2>1. sea'[t] = Step(t, x)
    BY <1>1, <1>3, <1>7 DEF SearchNext
  <2>2. PICK y \in SearchType : y = Step(t, x) /\ y.st = x.st
    BY <1>4, <1>7, StepTyped
  <2>3. y.maxid = x.maxid
    BY <1>4, <2>2 DEF Step, SearchType
  <2> QED
    BY <1>2, <1>3, <1>4, <1>5, <1>7, <2>1, <2>2, <2>3 DEF Copies
<1> QED
  BY <1>6, <1>7

\* What a search sees of its own transaction has ended.
LEMMA ViewStep ==
  ASSUME Types, StmtInv, WrittenInv, ViewInv, OrderInv, [Next]_vars
  PROVE  ViewInv'
<1>1. trxid \in Nat /\ trxid' \in Nat /\ trxid <= trxid'
  <2>1. stmt \in Seq(StmtType) /\ stmt' \in Seq(StmtType)
    BY TypesStep DEF Types
  <2>2. trxid \in Nat /\ trxid' \in Nat
    BY <2>1 DEF trxid
  <2>3. \A i \in 1..trxid : i \in 1..trxid'
    BY StmtStep
  <2> QED
    BY <2>2, <2>3
<1>2. SUFFICES ASSUME NEW t \in Readers
               PROVE  /\ sea'[t].st \in {"adding", "listed", "on"} => trxst'[t] = "begin"
                      /\ sea'[t].st = "end" => trxst'[t] # "new"
                      /\ \A i \in 1..trxid' :
                           stmt'[i].trx = t /\ i <= sea'[t].maxid => stmt'[i].st # "open"
                      /\ sea'[t].maxid <= trxid'
  BY DEF ViewInv
<1>3. /\ sea[t].st \in {"adding", "listed", "on"} => trxst[t] = "begin"
      /\ sea[t].st = "end" => trxst[t] # "new"
      /\ \A i \in 1..trxid : stmt[i].trx = t /\ i <= sea[t].maxid => stmt[i].st # "open"
      /\ sea[t].maxid <= trxid
  BY DEF ViewInv
<1>4. t \in Trx /\ sea[t] \in SearchType
  BY BoundsAssumption DEF Types
<1>5. PICK m \in Nat : m = sea[t].maxid
  BY <1>4, SearchFields
<1>6. /\ \A i \in 1..trxid' : stmt'[i].trx = t /\ i <= m => stmt'[i].st # "open"
      /\ m <= trxid'
  <2>1. ASSUME NEW i \in 1..trxid', stmt'[i].trx = t, i <= m
        PROVE  stmt'[i].st # "open"
    <3>1. i \in 1..trxid
      BY <1>1, <1>3, <1>5, <2>1
    <3>2. /\ stmt'[i].trx = stmt[i].trx
          /\ stmt'[i] = stmt[i] \/ stmt'[i].st \in {"done", "aborted"}
      BY <3>1, StmtStep
    <3> QED
      BY <1>3, <1>5, <2>1, <3>1, <3>2
  <2> QED
    BY <1>1, <1>3, <1>5, <2>1
<1>7. trxst[t] # "new" => trxst'[t] # "new"
  BY <1>4, TrxStep
<1>8. CASE sea'[t] = sea[t]
  <2>1. ASSUME trxst[t] = "begin", trxst'[t] # "begin"
        PROVE  sea[t].st \in {"new", "end"}
    <3>1. trxst \in [Trx -> Stages]
      BY DEF Types
    <3>2. PICK u \in Trx : Begin(u) \/ PublishAbortId(u) \/ \E c \in BOOLEAN : EndTrx(u, c)
      BY <2>1, Frame DEF trxs
    <3>3. CASE Begin(u)
      BY <1>4, <2>1, <3>1, <3>3 DEF Begin
    <3>4. CASE PublishAbortId(u)
      BY <2>1, <3>4 DEF PublishAbortId
    <3>5. ASSUME NEW c \in BOOLEAN, EndTrx(u, c)
          PROVE  sea[t].st \in {"new", "end"}
      <4>1. u = t
        BY <1>4, <2>1, <3>1, <3>5 DEF EndTrx
      <4> QED
        BY <3>5, <4>1 DEF EndTrx
    <3> QED
      BY <3>2, <3>3, <3>4, <3>5
  <2> QED
    BY <1>3, <1>5, <1>6, <1>7, <1>8, <2>1
<1>9. CASE MergeMark /\ Listed(t) /\ sea'[t] = [sea[t] EXCEPT !.active = TRUE] /\ trxst' = trxst
  <2>1. sea'[t].st = sea[t].st /\ sea'[t].maxid = sea[t].maxid
    BY <1>4, <1>9 DEF SearchType
  <2> QED
    BY <1>3, <1>5, <1>6, <1>9, <2>1
<1>10. CASE MergeStop /\ Listed(t) /\ sea'[t] = Freed(sea[t]) /\ trxst' = trxst
  <2>1. sea'[t].st = sea[t].st /\ sea'[t].maxid = sea[t].maxid
    BY <1>4, <1>10 DEF SearchType, Freed
  <2> QED
    BY <1>3, <1>5, <1>6, <1>10, <2>1
<1>11. CASE SearchOpen(t)
  <2>1. /\ trxst[t] = "begin" /\ sea'[t].st = "adding" /\ sea'[t].maxid = ReadId(t)
        /\ UNCHANGED <<trxst, stmt, trxid>>
    BY <1>11 DEF SearchOpen, NoSearch, Types, trxs, trxid
  <2> QED
    BY <2>1, ReadIdClosed
<1>12. CASE SearchStore(t)
  <2>1. /\ sea[t].st = "adding" /\ trxst' = trxst
        /\ sea'[t] = [sea[t] EXCEPT !.st = "listed", !.active = sea[t].seen]
    BY <1>12 DEF SearchStore, Types, trxs
  <2>2. sea'[t].st = "listed" /\ sea'[t].maxid = sea[t].maxid
    BY <1>4, <2>1 DEF SearchType
  <2> QED
    BY <1>3, <1>5, <1>6, <2>1, <2>2
<1>13. CASE SearchNext(t)
  <2>1. /\ sea[t].st \in {"listed", "on"} /\ trxst' = trxst
        /\ sea'[t].st \in {"on", "end"} /\ sea'[t].maxid = sea[t].maxid
    BY <1>13, NextSearch DEF trxs
  <2> QED
    BY <1>3, <1>5, <1>6, <2>1
<1>14. CASE SearchClose(t)
  <2>1. sea'[t] = NoSearch
    BY <1>14 DEF SearchClose, Types
  <2>2. sea'[t].st = "new" /\ sea'[t].maxid = 0
    BY <2>1 DEF NoSearch
  <2> QED
    BY <1>1, <2>2
<1> QED
  BY <1>8, <1>9, <1>10, <1>11, <1>12, <1>13, <1>14, SeaStep DEF trxs

\* Statements run one after the other, a delete of a row follows its insert.
LEMMA OrderStep ==
  ASSUME BaseInv, OrderInv, [Next]_vars
  PROVE  OrderInv'
<1>1. Types /\ StmtInv /\ WrittenInv
  BY DEF BaseInv
<1>2. ASSUME NEW i \in 1..trxid', NEW j \in 1..trxid',
             stmt'[i].trx = stmt'[j].trx, stmt'[i].st = "open"
      PROVE  j <= i
  <2>1. CASE i \in 1..trxid /\ j \in 1..trxid
    <3>1. /\ stmt'[i].trx = stmt[i].trx /\ stmt'[j].trx = stmt[j].trx
          /\ stmt'[i] = stmt[i] \/ stmt'[i].st \in {"done", "aborted"}
      BY <1>1, <2>1, StmtStep
    <3>2. stmt[i].st = "open"
      BY <1>2, <3>1
    <3> QED
      BY <1>2, <2>1, <3>1, <3>2 DEF OrderInv
  <2>2. CASE i \notin 1..trxid \/ j \notin 1..trxid
    <3>1. PICK t \in Trx : StmtBegin(t)
      <4>1. stmt' # stmt
        BY <2>2 DEF trxid
      <4>2. ASSUME NEW t \in Trx, NEW n \in 1..trxid, StmtCommit(t, n) \/ StmtRollback(t, n)
            PROVE  Len(stmt') = Len(stmt)
        BY <1>1, <4>2 DEF StmtCommit, StmtRollback, Types
      <4> QED
        BY <1>1, <2>2, <4>1, <4>2, Frame DEF trxid
    <3>2. /\ stmt \in Seq(StmtType) /\ stmt' = Append(stmt, [trx |-> t, st |-> "open"])
          /\ \A n \in 1..trxid : ~Open(t, n)
      BY <1>1, <3>1 DEF StmtBegin, Types
    <3>3. PICK m \in Nat : m = Len(stmt)
      BY <3>2
    <3>4. trxid = m /\ trxid' = m + 1
      BY <3>2, <3>3 DEF trxid
    <3>5. stmt'[m + 1] = [trx |-> t, st |-> "open"]
      BY <3>2, <3>3
    <3>6. stmt'[m + 1].trx = t
      BY <3>5
    <3>7. ASSUME NEW n \in 1..m, stmt'[n].st = "open", stmt'[n].trx = t
          PROVE  FALSE
      <4>1. stmt'[n] = stmt[n]
        BY <3>2, <3>3, <3>7
      <4> QED
        BY <3>2, <3>4, <3>7, <4>1 DEF Open
    <3>8. (i \in 1..m \/ i = m + 1) /\ (j \in 1..m \/ j = m + 1)
      BY <1>2, <3>4
    <3>9. i = m + 1
      BY <1>2, <2>2, <3>4, <3>6, <3>7, <3>8
    <3> QED
      BY <3>8, <3>9
  <2> QED
    BY <2>1, <2>2
<1>3. ASSUME NEW k \in written', NEW d \in written', k.row = d.row, ~k.del, d.del,
             stmt'[k.id].trx = stmt'[d.id].trx
      PROVE  k.id <= d.id
  <2>1. CASE k \in written /\ d \in written
    <3>1. k.id \in 1..trxid /\ d.id \in 1..trxid
      BY <2>1, WrittenKey
    <3>2. stmt'[k.id].trx = stmt[k.id].trx /\ stmt'[d.id].trx = stmt[d.id].trx
      BY <1>1, <3>1, StmtStep
    <3> QED
      BY <1>3, <2>1, <3>2 DEF OrderInv
  <2>2. CASE k \notin written \/ d \notin written
    <3>1. PICK t \in Trx, i \in 1..trxid, r \in Rows, del \in BOOLEAN : Write(t, i, r, del)
      BY <1>1, <2>2, Frame
    <3>2. PICK w : w = [row |-> r, del |-> del, id |-> i, num |-> 0]
      OBVIOUS
    <3>3. /\ written' = written \cup {w} /\ stmt' = stmt /\ stmt[i].trx = t /\ stmt[i].st = "open"
          /\ w.row = r /\ w.del = del /\ w.id = i
          /\ IF del THEN TRUE ELSE MayInsert(r)
      BY <3>1, <3>2 DEF Write, Open
    <3>4. CASE d = w /\ k \in written
      <4>1. k.id \in 1..trxid
        BY <3>4, WrittenKey
      <4> QED
        BY <1>3, <3>3, <3>4, <4>1 DEF OrderInv
    <3>5. CASE k = w /\ d \in written
      <4>1. MayInsert(r)
        BY <1>3, <3>3, <3>5
      <4> QED
        BY <1>3, <3>3, <3>5, <4>1 DEF MayInsert
    <3>6. k \in written \cup {w} /\ d \in written \cup {w} /\ k # d
      BY <1>3, <3>3
    <3> QED
      BY <2>2, <3>4, <3>5, <3>6
  <2> QED
    BY <2>1, <2>2
<1> QED
  BY <1>2, <1>3 DEF OrderInv

\* A leaf that is cleaned has no place twice.
LEMMA PlaceClean ==
  ASSUME NEW S, S \subseteq Keys, SamePlace(S), NEW l
  PROVE  SamePlace(CleanLeaf(S, l))
<1>1. ASSUME NEW k \in CleanLeaf(S, l)
      PROVE  \E b \in S :
               /\ Pos(b) = Pos(k)
               /\ \/ /\ k = b
                     /\ ~(/\ b.num = 0 /\ Lookup(b.id) = "commit"
                          /\ BonsaiLeaf[<<b.row, b.del>>] = l)
                  \/ /\ b.num = 0 /\ Lookup(b.id) = "commit"
                     /\ BonsaiLeaf[<<b.row, b.del>>] = l
                     /\ k = [b EXCEPT !.num = num[stmt[b.id].trx]]
  <2>1. CASE k \in S /\ (BonsaiLeaf[<<k.row, k.del>>] = l => k.num # 0 \/ Lookup(k.id) \notin {"abort", "commit"})
    BY <2>1
  <2>2. CASE PatchedKey(S, l, k)
    <3>1. PICK b \in S : /\ b.num = 0 /\ Lookup(b.id) = "commit"
                         /\ BonsaiLeaf[<<b.row, b.del>>] = l
                         /\ k = [b EXCEPT !.num = num[stmt[b.id].trx]]
      BY <2>2 DEF PatchedKey
    <3>2. k.row = b.row /\ k.del = b.del /\ k.id = b.id
      BY <3>1 DEF Keys
    <3>3. Pos(b) = Pos(k)
      BY <3>2 DEF Pos
    <3> QED
      BY <3>1, <3>3
  <2> QED
    BY <2>1, <2>2, CleanLeafProperties
<1>2. ASSUME NEW j \in CleanLeaf(S, l), NEW k \in CleanLeaf(S, l), Pos(j) = Pos(k)
      PROVE  j = k
  <2>1. PICK a \in S :
               /\ Pos(a) = Pos(j)
               /\ \/ /\ j = a
                     /\ ~(/\ a.num = 0 /\ Lookup(a.id) = "commit"
                          /\ BonsaiLeaf[<<a.row, a.del>>] = l)
                  \/ /\ a.num = 0 /\ Lookup(a.id) = "commit"
                     /\ BonsaiLeaf[<<a.row, a.del>>] = l
                     /\ j = [a EXCEPT !.num = num[stmt[a.id].trx]]
    BY <1>1
  <2>2. PICK b \in S :
               /\ Pos(b) = Pos(k)
               /\ \/ /\ k = b
                     /\ ~(/\ b.num = 0 /\ Lookup(b.id) = "commit"
                          /\ BonsaiLeaf[<<b.row, b.del>>] = l)
                  \/ /\ b.num = 0 /\ Lookup(b.id) = "commit"
                     /\ BonsaiLeaf[<<b.row, b.del>>] = l
                     /\ k = [b EXCEPT !.num = num[stmt[b.id].trx]]
    BY <1>1
  <2>3. a = b
    BY <1>2, <2>1, <2>2 DEF SamePlace
  <2> QED
    BY <2>1, <2>2, <2>3
<1> QED
  BY <1>2 DEF SamePlace

\* No key is in the Bonsai tree twice.
LEMMA PlaceStep ==
  ASSUME FateInv, LeftInv, SamePlace(bonsai), [Next]_vars
  PROVE  SamePlace(bonsai)'
<1>1. Types /\ StmtInv /\ BaseInv /\ bonsai \subseteq Keys
  BY DEF FateInv, BaseInv, Types
<1>2. ASSUME bonsai' \subseteq bonsai
      PROVE  SamePlace(bonsai)'
  BY <1>2 DEF SamePlace
<1>3. ASSUME NEW t \in Trx, NEW i \in 1..trxid, NEW r \in Rows, NEW del \in BOOLEAN,
             Write(t, i, r, del)
      PROVE  SamePlace(bonsai)'
  <2>1. PICK w, S : w = [row |-> r, del |-> del, id |-> i, num |-> 0] /\ S = bonsai \cup {w}
    OBVIOUS
  <2>2. w \in Keys /\ w.row = r /\ w.del = del /\ w.id = i /\ w.num = 0
    <3>1. MaxId \in Nat /\ trxid \in Nat /\ trxid <= MaxId
      BY <1>1, BoundsAssumption DEF Types, trxid
    <3>2. i \in 0..MaxId
      BY <3>1
    <3> QED
      BY <2>1, <3>2 DEF Keys
  <2>3. w \notin written
    BY <1>3, <2>1, Fresh
  <2>4. ASSUME NEW b \in bonsai, Pos(b) = Pos(w)
        PROVE  FALSE
    <3>1. PICK k : k = [b EXCEPT !.num = 0]
      OBVIOUS
    <3>2. k \in written /\ k \in Keys /\ k.num = 0 /\ b \in Keys
      BY <3>1, TreeKey, PlainKey
    <3>3. b.row = w.row /\ b.del = w.del /\ b.id = w.id
      BY <2>2, <2>4, <3>2, PosOrder
    <3>4. k.row = w.row /\ k.del = w.del /\ k.id = w.id
      BY <3>1, <3>2, <3>3, PlainKey
    <3>5. k = w
      BY <2>2, <3>2, <3>4, SameKey
    <3> QED
      BY <2>3, <3>2, <3>5
  <2>5. S \subseteq Keys /\ SamePlace(S)
    BY <1>1, <2>1, <2>2, <2>4 DEF SamePlace
  <2>6. bonsai' = S \/ \E l : bonsai' = CleanLeaf(S, l)
    BY <1>3, <2>1 DEF Write
  <2>7. \A l : SamePlace(CleanLeaf(S, l))
    BY <2>5, PlaceClean
  <2> QED
    BY <2>5, <2>6, <2>7 DEF SamePlace
<1>4. CASE MergeLeaf
  <2>1. PICK l : bonsai' = CleanLeaf(bonsai, l)
    BY <1>4 DEF MergeLeaf
  <2>2. SamePlace(CleanLeaf(bonsai, l))
    BY <1>1, PlaceClean
  <2> QED
    BY <2>1, <2>2 DEF SamePlace
<1>5. ASSUME NEW t \in Trx,
             \/ Begin(t) \/ StmtBegin(t) \/ PublishAbortId(t) \/ \E c \in BOOLEAN : EndTrx(t, c)
             \/ \E i \in 1..trxid : AddStmt(t, i) \/ StmtCommit(t, i) \/ StmtRollback(t, i)
      PROVE  bonsai' = bonsai
  BY <1>5 DEF Begin, StmtBegin, PublishAbortId, EndTrx, AddStmt, StmtCommit, StmtRollback, trees
<1>6. ASSUME \/ MergeStart \/ MergeMark \/ MergeMove \/ MergeEnd
             \/ MergeError \/ MergeStop \/ MergeClean
      PROVE  bonsai' \subseteq bonsai
  BY <1>6 DEF MergeStart, MergeMark, MergeMove, MergeEnd, MergeError, MergeStop, MergeClean,
              trees, Without
<1>7. ASSUME NEW t \in Readers,
             SearchOpen(t) \/ SearchStore(t) \/ SearchNext(t) \/ SearchClose(t)
      PROVE  bonsai' = bonsai
  BY <1>7 DEF SearchOpen, SearchStore, SearchNext, SearchClose, trees
<1>8. ASSUME UNCHANGED vars
      PROVE  bonsai' = bonsai
  BY <1>8 DEF vars, trees
<1> QED
  BY <1>2, <1>3, <1>4, <1>5, <1>6, <1>7, <1>8 DEF Next

-----------------------------------------------------------------------------
(***************************************************************************)
(* The invariant of a search holds                                         *)
(***************************************************************************)

\* Only a move changes the storage tree.
LEMMA StorageStep ==
  ASSUME [Next]_vars, ~MergeMove
  PROVE  storage' = storage
<1>1. ASSUME NEW t \in Trx,
             \/ Begin(t) \/ StmtBegin(t) \/ PublishAbortId(t) \/ \E c \in BOOLEAN : EndTrx(t, c)
             \/ \E i \in 1..trxid : \/ AddStmt(t, i) \/ StmtCommit(t, i) \/ StmtRollback(t, i)
                                    \/ \E r \in Rows, del \in BOOLEAN : Write(t, i, r, del)
      PROVE  storage' = storage
  BY <1>1 DEF Begin, StmtBegin, PublishAbortId, EndTrx, AddStmt, StmtCommit, StmtRollback, Write, trees
<1>2. CASE MergeStart \/ MergeMark \/ MergeLeaf \/ MergeEnd \/ MergeError \/ MergeStop \/ MergeClean
  BY <1>2 DEF MergeStart, MergeMark, MergeLeaf, MergeEnd, MergeError, MergeStop, MergeClean, trees
<1>3. ASSUME NEW t \in Readers,
             SearchOpen(t) \/ SearchStore(t) \/ SearchNext(t) \/ SearchClose(t)
      PROVE  storage' = storage
  BY <1>3 DEF SearchOpen, SearchStore, SearchNext, SearchClose, trees
<1>4. CASE UNCHANGED vars
  BY <1>4 DEF vars, trees
<1> QED
  BY <1>1, <1>2, <1>3, <1>4 DEF Next

\* A search that is left alone while others work and the merge moves keys.
LEMMA OthersStep ==
  ASSUME ~InitRace, FateInv, RowsInv, ScanInv, [Next]_vars, ViewInv', NEW t \in Readers,
         sea'[t] = sea[t]
  PROVE  SearchOK(t)'
<1>1. t \in Trx /\ BaseInv /\ Types /\ StmtInv /\ LeftInv /\ SearchOK(t) /\ SearchInv
  BY BoundsAssumption DEF FateInv, BaseInv, RowsInv, ScanInv
<1>2. PICK s \in SearchType : s = sea[t] /\ s = sea'[t]
  BY <1>1 DEF Types
<1>3. PICK m \in Nat : m = s.maxid
  BY SearchFields
<1>4. PICK V, W : V = Seen(t, m) /\ W = Seen(t, m)'
  OBVIOUS
<1>5. /\ s.st \in {"adding", "listed", "on"} => trxst[t] = "begin" /\ trxst'[t] = "begin"
      /\ s.st = "end" => trxst[t] # "new"
      /\ \A i \in 1..trxid : stmt[i].trx = t /\ i <= m => stmt[i].st # "open"
  BY <1>2, <1>3 DEF ScanInv, ViewInv
<1>6. trxst[t] # "new" /\ trxst'[t] = "begin" => trxst[t] = "begin"
  BY <1>1, TrxStep
<1>7. trxst[t] = "begin" /\ trxst'[t] = "begin" => W = V
  BY <1>1, <1>4, <1>5, SeenStep
<1>8. /\ s.st \in {"new", "adding", "listed"} => ClearSearch(s)
      /\ s.st = "end" => ~s.deletenext /\ ~s.ingate
      /\ s.st = "end" /\ trxst[t] = "begin" => s.out = RowsOf(V)
      /\ s.st = "on" => OnOK(V, s)
  BY <1>1, <1>2, <1>3, <1>4 DEF SearchOK
<1>9. ASSUME s.st = "on"
      PROVE  OnOK(V, s)' /\ W = V
  <2>1. W = V /\ OnOK(V, s) /\ trxst[t] = "begin"
    BY <1>5, <1>7, <1>8, <1>9
  <2>2. V \subseteq written
    BY <1>4 DEF Seen
  <2>3. ASSUME NEW k \in V
        PROVE  /\ InBonsai(k)' => InBonsai(k)
               /\ ~MergeMove => (InBonsai(k)' <=> InBonsai(k))
    <3>1. Fate(k.id) # "abort"
      BY <1>4, <2>3 DEF Seen, Sees
    <3> QED
      BY <1>1, <2>2, <2>3, <3>1, InBonsaiStep
  <2>4. MergeMove => ~IsFresh(s)
    <3>1. ASSUME MergeMove
          PROVE  merge.st = "active" /\ ~s.ingate
      BY <1>2, <3>1 DEF MergeMove, Moves, Active
    <3>2. merge.st = "active" => s.active
      BY <1>1, <1>2, <1>9 DEF SearchInv
    <3> QED
      BY <3>1, <3>2 DEF IsFresh
  <2>5. ~MergeMove => storage' = storage
    BY StorageStep
  <2> QED
    BY <2>1, <2>3, <2>4, <2>5, EnvOn
<1>10. s.st = "end" /\ trxst'[t] = "begin" => s.out = RowsOf(W)
  BY <1>5, <1>6, <1>7, <1>8
<1>11. s.st = "on" => OnOK(W, s)'
  BY <1>9
<1> QED
  BY <1>2, <1>3, <1>4, <1>8, <1>10, <1>11 DEF SearchOK, RowsOf

\* What a search and its transaction see in a step that changes no tree.
LEMMA SameTrees ==
  ASSUME FateInv, LeftInv, [Next]_vars, UNCHANGED <<trxs, stmt, trees>>
  PROVE  /\ \A t, m : Seen(t, m)' = Seen(t, m)
         /\ \A V, s : OnOK(V, s) => OnOK(V, s)'
<1>1. UNCHANGED <<trxst, num, level, stmt, bonsai, storage, written>>
  BY DEF trxs, trees
<1>2. \A t, m : Seen(t, m)' = Seen(t, m)
  BY <1>1 DEF Seen, Sees, Fate
<1>3. \A k : InBonsai(k)' <=> InBonsai(k)
  BY <1>1 DEF InBonsai
<1>4. ASSUME NEW V, NEW s, OnOK(V, s)
      PROVE  OnOK(V, s)'
  BY <1>1, <1>3, <1>4, EnvOn
<1> QED
  BY <1>2, <1>4

\* A search that the merge marks, or that loses its copies to it.
LEMMA SignalStep ==
  ASSUME FateInv, RowsInv, ScanInv, [Next]_vars, NEW t \in Readers, ~InCall(t), Listed(t),
         UNCHANGED <<trxs, stmt, trees>>,
         sea'[t] = [sea[t] EXCEPT !.active = TRUE] \/ sea'[t] = Freed(sea[t])
  PROVE  SearchOK(t)'
<1>1. t \in Trx /\ BaseInv /\ Types /\ WrittenInv /\ LeftInv /\ OrderInv /\ SearchOK(t)
  BY BoundsAssumption DEF FateInv, BaseInv, RowsInv, ScanInv
<1>2. PICK s, y : s \in SearchType /\ s = sea[t] /\ y = sea'[t]
  BY <1>1 DEF Types
<1>3. PICK m \in Nat : m = s.maxid
  BY <1>2, SearchFields
<1>4. PICK V : V = Seen(t, m) /\ V = Seen(t, m)'
  BY <1>1, SameTrees
<1>5. ~s.deletenext /\ ~s.ingate /\ s.st \in {"adding", "listed", "on"} /\ trxst[t] = "begin"
  BY <1>2, SearchFields DEF InCall, Listed, ScanInv, ViewInv
<1>6. /\ y.st = s.st /\ y.maxid = s.maxid
      /\ y.st # "on" => /\ y.pos = s.pos /\ y.edge = s.edge /\ y.out = s.out
                        /\ y.bbuf = s.bbuf /\ y.sbuf = s.sbuf /\ y.deletenext = s.deletenext
                        /\ y.reset = s.reset /\ y.ingate = s.ingate
  BY <1>2 DEF Freed, SearchType
<1>7. y.st \in {"new", "adding", "listed"} => ClearSearch(y)
  BY <1>1, <1>2, <1>6 DEF SearchOK, ClearSearch
<1>8. ASSUME s.st = "on"
      PROVE  OnOK(V, y)
  <2>1. OnOK(V, s)
    BY <1>1, <1>2, <1>3, <1>4, <1>8 DEF SearchOK
  <2>2. WereWritten(s.bbuf)
    BY <1>1, <1>2, SearchFields DEF WrittenInv, WereWritten, Copies
  <2>3. CASE y = [s EXCEPT !.active = TRUE]
    BY <1>1, <1>2, <1>3, <1>4, <1>5, <2>1, <2>2, <2>3, MarkOn
  <2>4. CASE y = Freed(s)
    BY <1>2, <1>5, <1>8, <2>1, <2>4, StopOn
  <2> QED
    BY <1>2, <2>3, <2>4
<1>9. s.st = "on" => OnOK(V, y)'
  BY <1>1, <1>8, SameTrees
<1> QED
  BY <1>2, <1>3, <1>4, <1>5, <1>6, <1>7, <1>9 DEF SearchOK

\* A call of dbe_indsea_next.
LEMMA NextStep ==
  ASSUME FateInv, RowsInv, ScanInv, [Next]_vars, NEW t \in Readers, SearchNext(t)
  PROVE  SearchOK(t)'
<1>1. /\ t \in Trx /\ BaseInv /\ Types /\ WrittenInv /\ LeftInv /\ OrderInv /\ SamePlace(bonsai)
      /\ SearchOK(t)
  BY BoundsAssumption DEF FateInv, BaseInv, RowsInv, ScanInv
<1>2. PICK s, y : s \in SearchType /\ s = sea[t] /\ y = sea'[t]
  BY <1>1 DEF Types
<1>3. s.st \in {"listed", "on"} /\ UNCHANGED <<trxs, stmt, trees>>
  BY <1>1, <1>2, NextSearch
<1>4. PICK x \in SearchType :
              /\ x = Positioned(s) /\ x.st = "on" /\ x.maxid = s.maxid
              /\ x.bbuf \subseteq bonsai \cup Copies(t)
              /\ x.bbuf \cup x.sbuf = {} =>
                   /\ y.st = "end" /\ y.out = x.out /\ y.maxid = x.maxid
                   /\ ~y.deletenext /\ ~y.ingate
              /\ x.bbuf \cup x.sbuf # {} =>
                   y = Step(t, x) /\ y.st = "on" /\ y.maxid = x.maxid
  BY <1>1, <1>2, NextSearch
<1>5. trxst[t] = "begin"
  BY <1>2, <1>3 DEF ScanInv, ViewInv
<1>6. PICK m \in Nat : m = s.maxid
  BY <1>2, SearchFields
<1>7. PICK V : V = Seen(t, m) /\ V = Seen(t, m)'
  BY <1>1, <1>3, SameTrees
<1>8. (s.st = "listed" => ClearSearch(s)) /\ (s.st = "on" => OnOK(V, s))
  BY <1>1, <1>2, <1>6, <1>7 DEF SearchOK
<1>9. \E p \in Nat : Steady(V, p, x) /\ ~x.reset
  <2>1. CASE NeedsReset(s)
    <3>1. x = Reset(s)
      BY <1>4, <2>1 DEF Positioned
    <3>2. ~x.reset
      BY <3>1 DEF Reset, SearchType
    <3> QED
      BY <1>1, <1>2, <1>3, <1>5, <1>6, <1>7, <1>8, <3>1, <3>2, ResetSteady
  <2>2. CASE ~NeedsReset(s)
    <3>1. s.st = "on" /\ ~s.reset
      BY <1>3, <2>2 DEF NeedsReset
    <3>2. WereWritten(s.bbuf)
      BY <1>1, <1>2, SearchFields DEF WrittenInv, WereWritten, Copies
    <3>3. Steady(V, s.pos, x)
      BY <1>1, <1>2, <1>4, <1>5, <1>6, <1>7, <1>8, <2>2, <3>1, <3>2, OnSteady
    <3>4. x.reset = s.reset
      BY <1>4, <2>2 DEF Positioned, SearchType
    <3> QED
      BY <1>2, <3>1, <3>3, <3>4, SearchFields
  <2> QED
    BY <2>1, <2>2
<1>10. PICK p \in Nat : Steady(V, p, x) /\ ~x.reset
  BY <1>9
<1>11. CASE x.bbuf \cup x.sbuf = {}
  <2>1. x.out = RowsOf(V)
    BY <1>10, <1>11, EndOut
  <2>2. y.st = "end" /\ y.out = RowsOf(V) /\ y.maxid = m /\ ~y.deletenext /\ ~y.ingate
    BY <1>4, <1>6, <1>11, <2>1
  <2> QED
    BY <1>2, <1>7, <2>2 DEF SearchOK, RowsOf
<1>12. CASE x.bbuf \cup x.sbuf # {}
  <2>1. V = Seen(t, x.maxid)
    BY <1>4, <1>6, <1>7
  <2>2. y = Step(t, x) /\ y.st = "on" /\ y.maxid = m
    BY <1>4, <1>6, <1>12
  <2>3. OnOK(V, y)
    BY <1>4, <1>10, <1>12, <2>1, <2>2, StepOn
  <2>4. OnOK(V, y)'
    BY <1>1, <1>3, <2>3, SameTrees
  <2> QED
    BY <1>2, <1>7, <2>2, <2>4 DEF SearchOK
<1> QED
  BY <1>11, <1>12

\* Every step of the system.
LEMMA ScanStep ==
  ASSUME ~InitRace, FateInv, RowsInv, ScanInv, [Next]_vars
  PROVE  ScanInv'
<1>1. BaseInv /\ Types /\ StmtInv /\ WrittenInv /\ LeftInv /\ ViewInv /\ OrderInv /\ SamePlace(bonsai)
  BY DEF FateInv, BaseInv, RowsInv, ScanInv
<1>2. ViewInv' /\ OrderInv' /\ SamePlace(bonsai)'
  BY <1>1, ViewStep, OrderStep, PlaceStep
<1>3. ASSUME NEW t \in Readers
      PROVE  SearchOK(t)'
  <2>1. SearchOK(t) /\ sea[t] \in SearchType
    BY <1>1 DEF ScanInv, Types
  <2>2. CASE sea'[t] = sea[t]
    BY <1>2, <2>2, OthersStep
  <2>3. CASE /\ MergeMark \/ MergeStop
             /\ Listed(t) /\ UNCHANGED <<trxs, stmt, trees>>
             /\ sea'[t] = [sea[t] EXCEPT !.active = TRUE] \/ sea'[t] = Freed(sea[t])
    <3>1. ~InCall(t)
      BY <2>3 DEF MergeMark, MergeStop
    <3> QED
      BY <2>3, <3>1, SignalStep
  <2>4. ASSUME sea'[t].st \in {"new", "adding", "listed"}, ClearSearch(sea'[t])
        PROVE  SearchOK(t)'
    BY <2>4 DEF SearchOK, ClearSearch
  <2>5. CASE SearchOpen(t)
    <3>1. PICK f, i : f = MergeFlag /\ i = ReadId(t)
      OBVIOUS
    <3>2. sea'[t] = [NoSearch EXCEPT !.st = "adding", !.active = f, !.seen = f, !.maxid = i]
      BY <1>1, <2>5, <3>1 DEF SearchOpen, Types
    <3>3. PICK y : y = sea'[t]
      OBVIOUS
    <3>4. y.st = "adding" /\ ClearSearch(y)
      BY <3>2, <3>3 DEF ClearSearch, NoSearch
    <3> QED
      BY <2>4, <3>3, <3>4 DEF ClearSearch
  <2>6. CASE SearchStore(t)
    <3>1. PICK s, y : s = sea[t] /\ y = sea'[t]
      OBVIOUS
    <3>2. y = [s EXCEPT !.st = "listed", !.active = s.seen] /\ s.st = "adding" /\ ClearSearch(s)
      BY <1>1, <2>1, <2>6, <3>1 DEF SearchStore, Types, SearchOK
    <3>3. y.st = "listed" /\ ClearSearch(y)
      BY <2>1, <3>1, <3>2 DEF ClearSearch, SearchType
    <3> QED
      BY <2>4, <3>1, <3>3 DEF ClearSearch
  <2>7. CASE SearchNext(t)
    BY <2>7, NextStep
  <2>8. CASE SearchClose(t)
    <3>1. PICK y : y = sea'[t]
      OBVIOUS
    <3>2. y = NoSearch
      BY <1>1, <2>8, <3>1 DEF SearchClose, Types
    <3>3. y.st = "new" /\ ClearSearch(y)
      BY <3>2 DEF ClearSearch, NoSearch
    <3> QED
      BY <2>4, <3>1, <3>3 DEF ClearSearch
  <2> QED
    BY <1>1, <2>2, <2>3, <2>5, <2>6, <2>7, <2>8, SeaStep
<1> QED
  BY <1>2, <1>3 DEF ScanInv

\* The initial state.
LEMMA InitScan ==
  ASSUME Init
  PROVE  ScanInv
<1>1. /\ trxid = 0 /\ written = {} /\ bonsai = {}
      /\ \A t \in Readers : sea[t] = NoSearch
  BY DEF Init, trxid
<1>2. /\ NoSearch.st = "new" /\ NoSearch.maxid = 0 /\ ClearSearch(NoSearch)
  BY DEF NoSearch, ClearSearch
<1>3. ViewInv
  BY <1>1, <1>2 DEF ViewInv
<1>4. OrderInv /\ SamePlace(bonsai)
  BY <1>1 DEF OrderInv, SamePlace
<1>5. \A t \in Readers : SearchOK(t)
  BY <1>1, <1>2 DEF SearchOK
<1> QED
  BY <1>3, <1>4, <1>5 DEF ScanInv

\* Without errors before the last leaf, and when no merge starts while a search
\* stores the merge flag, every search is at its place: its copies of leaves,
\* old as they may be, go with the trees (dbe_indsea_next, indsea_reset,
\* dbe_indsea_setmergestart, dbe_indsea_setmergestop).
THEOREM ScanInvariant ==
  ASSUME ~EarlyErrors, ~InitRace
  PROVE  Spec => [](FateInv /\ RowsInv /\ ScanInv)
<1>1. Init => ScanInv
  BY InitScan
<1>2. FateInv /\ RowsInv /\ ScanInv /\ [Next]_vars => ScanInv'
  BY ScanStep
<1>3. Spec => [](FateInv /\ RowsInv)
  BY RowsInvariant
<1> QED
  BY <1>1, <1>2, <1>3, PTL DEF Spec

\* ScanExact: a search that runs while merges start, move keys under it and stop
\* has put out the rows of its level that lie behind it, all of them and no
\* others (dbe_indsea_next), under the same two assumptions.
THEOREM ScanExactCorrect ==
  ASSUME ~EarlyErrors, ~InitRace
  PROVE  Spec => []ScanExact
<1>1. FateInv /\ RowsInv /\ ScanInv => ScanExact
  <2>1. SUFFICES ASSUME FateInv, RowsInv, ScanInv, NEW t \in Readers, trxst[t] = "begin",
                        NEW s, s = sea[t], s.st \in {"on", "end"}
                 PROVE  /\ s.out \subseteq Snapshot(t, s.maxid)
                        /\ \A r \in Rows : s.st = "end" \/ r < RowOf(s.pos) =>
                             (r \in s.out <=> r \in Snapshot(t, s.maxid))
    BY DEF ScanExact
  <2>2. /\ t \in Trx /\ s \in SearchType /\ OrderInv /\ SearchOK(t)
    BY <2>1, BoundsAssumption DEF FateInv, BaseInv, Types, ScanInv
  <2>3. PICK p \in Nat, m \in Nat : p = s.pos /\ m = s.maxid
    BY <2>2, SearchFields
  <2>4. PICK V : V = Seen(t, m)
    OBVIOUS
  <2>5. RowsOf(V) = Snapshot(t, m)
    BY <2>1, <2>2, <2>4, SeenView
  <2>6. CASE s.st = "end"
    <3>1. s.out = RowsOf(V)
      BY <2>1, <2>2, <2>3, <2>4, <2>6 DEF SearchOK
    <3> QED
      BY <2>3, <2>5, <3>1
  <2>7. CASE s.st = "on"
    <3>1. s.out = {r \in RowsOf(V) : Done(r, p)}
      BY <2>1, <2>2, <2>3, <2>4, <2>7 DEF SearchOK, OnOK
    <3>2. ASSUME NEW r \in Rows, r < RowOf(p)
          PROVE  Done(r, p)
      <4>1. PICK k \in Keys : k = StorageKey(r) /\ k.row = r /\ Pos(k) \in Nat
        BY StorageKeys
      <4>2. Pos(k) < p
        BY <3>2, <4>1, RowPlace
      <4> QED
        BY <4>1, <4>2 DEF Done
    <3> QED
      BY <2>3, <2>5, <2>7, <3>1, <3>2
  <2> QED
    BY <2>1, <2>6, <2>7
<1> QED
  BY <1>1, ScanInvariant, PTL

\* MarksMeetRows: behind a delete mark that the search sees comes the row it
\* deletes, also when a merge has taken the two away (the assertions of
\* dbe_indsea_next), under the same two assumptions.
THEOREM MarksMeetRowsCorrect ==
  ASSUME ~EarlyErrors, ~InitRace
  PROVE  Spec => []MarksMeetRows
<1>1. FateInv /\ RowsInv /\ ScanInv => MarksMeetRows
  <2>1. SUFFICES ASSUME FateInv, RowsInv, ScanInv, NEW t \in Readers,
                        NEW s, s = sea[t], s.deletenext, ~NeedsReset(s), NEW x, x = Positioned(s)
                 PROVE  /\ x.bbuf \cup x.sbuf # {}
                        /\ FirstKey(x.bbuf \cup x.sbuf).row = RowOf(x.pos)
    BY DEF MarksMeetRows
  <2>2. /\ t \in Trx /\ s \in SearchType /\ OrderInv /\ SamePlace(bonsai) /\ SearchOK(t)
        /\ BaseInv /\ WrittenInv
    BY <2>1, BoundsAssumption DEF FateInv, BaseInv, Types, ScanInv
  <2>3. PICK p \in Nat, m \in Nat : p = s.pos /\ m = s.maxid
    BY <2>2, SearchFields
  <2>4. PICK V : V = Seen(t, m)
    OBVIOUS
  <2>5. s.st = "on"
    BY <2>1, <2>2, SearchFields DEF SearchOK, ClearSearch
  <2>6. OnOK(V, s) /\ trxst[t] = "begin"
    BY <2>1, <2>2, <2>3, <2>4, <2>5 DEF SearchOK, ScanInv, ViewInv
  <2>7. WereWritten(s.bbuf)
    BY <2>1, <2>2, SearchFields DEF WrittenInv, WereWritten, Copies
  <2>8. Steady(V, p, x) /\ x.deletenext = s.deletenext
    BY <2>1, <2>2, <2>3, <2>4, <2>5, <2>6, <2>7, OnSteady
  <2>9. PICK bb, sb : bb = x.bbuf /\ sb = x.sbuf
    OBVIOUS
  <2>10. s.deletenext = TRUE
    BY <2>1, <2>2, SearchFields
  <2>11. Poised(V, p, TRUE, bb, sb)
    BY <2>8, <2>9, <2>10 DEF Steady
  <2>12. /\ \E j \in bb \cup sb : j.row = RowOf(p)
         /\ \A k : NextKey(p, bb, sb, k) => k.row = RowOf(p)
    BY <2>2, <2>11, MarkNext
  <2>13. bb \cup sb # {} /\ Shape(p, bb, sb)
    BY <2>11, <2>12 DEF Poised
  <2>14. FirstKey(bb \cup sb).row = RowOf(p)
    BY <2>12, <2>13 DEF NextKey
  <2>15. x.pos = p
    BY <2>1, <2>2, <2>3 DEF Positioned, SearchType
  <2> QED
    BY <2>9, <2>13, <2>14, <2>15
<1> QED
  BY <1>1, ScanInvariant, PTL
=============================================================================
