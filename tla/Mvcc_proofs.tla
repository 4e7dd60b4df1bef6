---------------------------- MODULE Mvcc_proofs ----------------------------
(***************************************************************************)
(* Theorems about module Mvcc, for every set of transactions, of rows and  *)
(* of leaves, and every value of the bounds.                               *)
(***************************************************************************)
EXTENDS Mvcc, NatLemmas, TLAPS

(***************************************************************************)
(* The inductive invariant.                                                *)
(***************************************************************************)
Stages == {"new", "begin", "commit", "abort"}

MergeType ==
  [st : {"off", "start", "active", "stop"}, full : BOOLEAN,
   level : 0..maxtrxnum, patch : 0..maxtrxnum, abortid : 0..aborttrxid,
   leaf : 0..Leaves, work : SUBSET Keys, ended : BOOLEAN, readonly : BOOLEAN,
   count : Nat]

SearchType ==
  [st : {"new", "adding", "listed", "on", "end"}, active : BOOLEAN,
   reset : BOOLEAN, ingate : BOOLEAN, deletenext : BOOLEAN,
   edge : {"no", "bonsai", "storage"}, pos : Nat, bbuf : SUBSET Keys,
   sbuf : SUBSET Keys, out : SUBSET Rows, maxid : Nat, seen : BOOLEAN]

StmtType == [trx : Trx, st : {"open", "done", "aborted"}]

Types ==
  /\ maxtrxnum \in Nat
  /\ trxst \in [Trx -> Stages]
  /\ num \in [Trx -> 0..maxtrxnum]
  /\ level \in [Trx -> 0..maxtrxnum]
  /\ pending \in [Trx -> 0..trxid]
  /\ stmt \in Seq(StmtType)
  /\ trxid <= MaxId
  /\ trxbuf \subseteq 1..trxid
  /\ aborttrxid \in 0..trxid
  /\ bonsai \subseteq Keys /\ written \subseteq Keys
  /\ storage \subseteq Rows
  /\ merge \in MergeType
  /\ sea \in [Readers -> SearchType]

\* A statement belongs to a transaction that has begun, and is open only while
\* it runs.  A commit that wrote has a number.
StmtInv ==
  /\ \A i \in 1..trxid :
       /\ trxst[stmt[i].trx] # "new"
       /\ stmt[i].st = "open" => trxst[stmt[i].trx] = "begin"
  /\ \A k \in written :
       /\ k.num = 0 /\ k.id \in 1..trxid
       /\ trxst[stmt[k.id].trx] = "commit" => num[stmt[k.id].trx] > 0

\* The copy of a leaf that a search has.
Copies(t) == sea[t].bbuf

\* Every key was written, before it got its number.
WrittenInv ==
  /\ \A k \in bonsai \cup merge.work : [k EXCEPT !.num = 0] \in written
  /\ \A t \in Readers : \A k \in Copies(t) : [k EXCEPT !.num = 0] \in written

\* How the end of a key is found: in the key, in the buffer, or, for an aborted
\* one, by the abort id.
KeyOK(k) ==
  IF k.num # 0 THEN Fate(k.id) = "commit" /\ k.num = num[stmt[k.id].trx]
  ELSE k.id \in trxbuf \/ (Fate(k.id) = "abort" /\ k.id <= aborttrxid)

KeysInv ==
  /\ \A k \in bonsai \cup merge.work : KeyOK(k)
  /\ \A t \in Readers : \A k \in Copies(t) : KeyOK(k)

\* k is not one that the merge has to patch.
PatchedOK(k) ==
  k.num = 0 /\ Fate(k.id) = "commit" => num[stmt[k.id].trx] > merge.patch

\* The merge has patched the leaves it has visited, all of them when it has
\* ended, and no search has an older copy when it has stopped.
PatchInv ==
  /\ \A k \in bonsai : BonsaiLeaf[<<k.row, k.del>>] <= merge.leaf => PatchedOK(k)
  /\ \A k \in merge.work : k.num # 0
  /\ merge.ended => EarlyErrors \/ merge.leaf = Leaves
  /\ merge.st = "stop" /\ merge.ended /\ ~EarlyErrors =>
       \A t \in Readers : \A k \in Copies(t) : PatchedOK(k)

\* Searches between two calls, and those the merge has marked.
SearchInv ==
  \A t \in Readers :
    /\ sea[t].st # "on" => Copies(t) = {}
    /\ merge.st = "active" /\ ~InitRace =>
         /\ sea[t].st \in {"listed", "on"} => sea[t].active
         /\ sea[t].st = "adding" => sea[t].seen

BaseInv == Types /\ StmtInv /\ WrittenInv /\ SearchInv

FateInv == BaseInv /\ KeysInv /\ PatchInv

\* The written key k is in the Bonsai tree, patched or not.
InBonsai(k) == \E b \in bonsai : [b EXCEPT !.num = 0] = k

Inserts(r) == {k \in written : k.row = r /\ ~k.del}
Deletes(r) == {k \in written : k.row = r /\ k.del}

\* The committed key k has left the Bonsai tree.
Gone(k) == Fate(k.id) = "commit" /\ ~InBonsai(k)

\* The merge has taken the row with its delete out of both trees.
Removed(r) == \E d \in Deletes(r) : Gone(d)

\* What the delete d needs to be a delete of its row: the insert k of the row was
\* visible to it.
Precedes(k, d) ==
  LET t == stmt[d.id].trx
  IN  \/ Fate(k.id) = "commit" /\ num[stmt[k.id].trx] <= level[t]
      \/ stmt[k.id].trx = t /\ (k.id = d.id \/ stmt[k.id].st = "done")

\* A row has one insert at most, and one delete that counts.
RowInv(r) ==
  /\ \A k, j \in Inserts(r) : k = j
  /\ Inserts(r) # {} => r \notin Stored
  /\ \A d, e \in Deletes(r) : d # e => Fate(d.id) = "abort" \/ Fate(e.id) = "abort"
  /\ \A d \in Deletes(r) : Fate(d.id) # "abort" =>
       r \in Stored \/ \E k \in Inserts(r) : Precedes(k, d)
  /\ Removed(r) => r \notin storage /\ \A k \in Inserts(r) : ~InBonsai(k)
  /\ ~Removed(r) =>
       (r \in storage <=> r \in Stored \/ \E k \in Inserts(r) : Gone(k))

\* What has left the Bonsai tree is aborted or is seen by everybody.
LeftInv ==
  \A k \in written : ~InBonsai(k) =>
    \/ Fate(k.id) = "abort"
    \/ Fate(k.id) = "commit" /\ num[stmt[k.id].trx] <= merge.level

\* Levels and statements of the transactions.
LevelInv ==
  /\ \A t \in Trx : /\ trxst[t] = "begin" => merge.level <= level[t]
                    /\ trxst[t] # "commit" => num[t] = 0
                    /\ trxst[t] = "commit" /\ num[t] # 0 => level[t] < num[t]
  /\ merge.level <= merge.patch
  /\ \A i, j \in 1..trxid :
       stmt[i].trx = stmt[j].trx /\ stmt[i].st = "open" /\ stmt[j].st = "open" => i = j

\* The merge holds what it may move of the leaves it has visited.
WorkInv ==
  /\ merge.work \subseteq bonsai
  /\ \A k \in merge.work : k.num <= merge.level /\ BonsaiLeaf[<<k.row, k.del>>] <= merge.leaf
  /\ merge.st \in {"start", "active"} /\ merge.full => \A k \in bonsai :
       BonsaiLeaf[<<k.row, k.del>>] <= merge.leaf /\ k.num # 0 /\ k.num <= merge.level
         => k \in merge.work
  /\ ~merge.full => merge.work = {}

RowsInv == (\A r \in Rows : RowInv(r)) /\ LeftInv /\ LevelInv /\ WorkInv

-----------------------------------------------------------------------------
(***************************************************************************)
(* Keys and their order                                                    *)
(***************************************************************************)

\* The fields of a key.
LEMMA KeyFields ==
  ASSUME NEW k \in Keys
  PROVE  /\ k.row \in Rows /\ k.row \in Nat /\ k.del \in BOOLEAN
         /\ k.id \in 0..MaxId /\ k.id \in Nat /\ MaxId \in Nat /\ k.num \in Nat
         /\ k = [row |-> k.row, del |-> k.del, id |-> k.id, num |-> k.num]
         /\ \A n \in Nat : /\ [k EXCEPT !.num = n] \in Keys
                          /\ [k EXCEPT !.num = n]
                               = [row |-> k.row, del |-> k.del, id |-> k.id, num |-> n]
<1>1. MaxId \in Nat /\ Rows \subseteq Nat
  BY BoundsAssumption
<1>2. k \in [row : Rows, del : BOOLEAN, id : 0..MaxId, num : Nat]
  BY DEF Keys
<1>3. /\ k.row \in Rows /\ k.del \in BOOLEAN /\ k.id \in 0..MaxId /\ k.num \in Nat
      /\ k = [row |-> k.row, del |-> k.del, id |-> k.id, num |-> k.num]
  BY <1>2
<1>4. ASSUME NEW n \in Nat
      PROVE  [k EXCEPT !.num = n] = [row |-> k.row, del |-> k.del, id |-> k.id, num |-> n]
  BY <1>2
<1>5. ASSUME NEW n \in Nat
      PROVE  [k EXCEPT !.num = n] \in Keys
  BY <1>2 DEF Keys
<1> QED
  BY <1>1, <1>3, <1>4, <1>5

\* The first key of a set that is not empty.
LEMMA FirstKeyProperties ==
  ASSUME NEW S, S \subseteq Keys, S # {}
  PROVE  FirstKey(S) \in S /\ \A j \in S : Pos(FirstKey(S)) <= Pos(j)
<1>1. \A k \in Keys : Pos(k) \in Nat
  <2> SUFFICES ASSUME NEW k \in Keys
               PROVE  Pos(k) \in Nat
    OBVIOUS
  <2>1. k.row \in Nat /\ k.id \in Nat /\ MaxId \in Nat
    BY KeyFields
  <2>2. PICK c \in Nat : c = 2 * (MaxId + 1)
    BY <2>1
  <2>3. c * k.row \in Nat
    BY <2>1
  <2>4. PICK e \in Nat : e = IF k.del THEN 0 ELSE MaxId + 1
    BY <2>1
  <2>5. Pos(k) = c * k.row + e + k.id
    BY <2>2, <2>4 DEF Pos
  <2> QED
    BY <2>1, <2>3, <2>5
<1> DEFINE T == {Pos(k) : k \in S}
<1>2. \E p \in T : \A q \in T : p <= q
  <2>1. T \subseteq Nat /\ T # {}
    BY <1>1
  <2> HIDE DEF T
  <2> QED BY <2>1, SmallestNat
<1>3. \E k \in S : \A j \in S : Pos(k) <= Pos(j)
  BY <1>2
<1> QED
  BY <1>3 DEF FirstKey

\* The key k comes from a key of S when the leaf l is cleaned.
PatchedKey(S, l, k) ==
  \E j \in S : /\ j.num = 0 /\ Lookup(j.id) = "commit"
               /\ BonsaiLeaf[<<j.row, j.del>>] = l
               /\ k = [j EXCEPT !.num = num[stmt[j.id].trx]]

\* The keys of a leaf after it was cleaned.
LEMMA CleanLeafProperties ==
  ASSUME NEW S, NEW l, NEW k \in CleanLeaf(S, l)
  PROVE  \/ k \in S /\ (BonsaiLeaf[<<k.row, k.del>>] = l => k.num # 0 \/ Lookup(k.id) \notin {"abort", "commit"})
         \/ PatchedKey(S, l, k)
<1>1. CASE k \in S \ InLeaf(S, l)
  BY <1>1 DEF InLeaf
<1>2. CASE k \in Cleaned(InLeaf(S, l))
  <2>1. PICK j \in InLeaf(S, l) : (j.num # 0 \/ Lookup(j.id) # "abort") /\ k = Patched(j)
    BY <1>2 DEF Cleaned
  <2>2. CASE j.num = 0 /\ Lookup(j.id) = "commit"
    BY <2>1, <2>2 DEF InLeaf, Patched, PatchedKey
  <2>3. CASE ~(j.num = 0 /\ Lookup(j.id) = "commit")
    BY <2>1, <2>3 DEF InLeaf, Patched
  <2> QED
    BY <2>2, <2>3
<1> QED
  BY <1>1, <1>2 DEF CleanLeaf

-----------------------------------------------------------------------------
(***************************************************************************)
(* Types                                                                   *)
(***************************************************************************)

\* A statement and its transaction.
LEMMA StmtAt ==
  ASSUME Types, NEW i \in 1..trxid
  PROVE  /\ stmt[i] \in StmtType /\ stmt[i].trx \in Trx
         /\ stmt[i].st \in {"open", "done", "aborted"}
         /\ trxst[stmt[i].trx] \in Stages
         /\ num[stmt[i].trx] \in Nat /\ num[stmt[i].trx] <= maxtrxnum
         /\ level[stmt[i].trx] \in Nat /\ level[stmt[i].trx] <= maxtrxnum
<1>1. stmt \in Seq(StmtType)
  BY DEF Types
<1>2. stmt[i] \in StmtType
  BY <1>1 DEF trxid
<1>3. stmt[i].trx \in Trx /\ stmt[i].st \in {"open", "done", "aborted"}
  BY <1>2 DEF StmtType
<1> QED
  BY <1>2, <1>3 DEF Types

\* A cleaned leaf holds keys.
LEMMA CleanLeafTyped ==
  ASSUME Types, NEW S, S \subseteq Keys, NEW l,
         \A k \in S : k.id \in 1..trxid
  PROVE  CleanLeaf(S, l) \subseteq Keys
<1> SUFFICES ASSUME NEW k \in CleanLeaf(S, l)
             PROVE  k \in Keys
  OBVIOUS
<1>1. CASE k \in S
  BY <1>1
<1>2. ASSUME NEW j \in S, k = [j EXCEPT !.num = num[stmt[j.id].trx]]
      PROVE  k \in Keys
  <2>1. num[stmt[j.id].trx] \in Nat
    BY StmtAt
  <2> QED
    BY <1>2, <2>1, KeyFields
<1> QED
  BY <1>1, <1>2, CleanLeafProperties DEF PatchedKey

\* The keys of the trees belong to statements.
LEMMA KeyIds ==
  ASSUME Types, StmtInv, NEW k \in Keys, [k EXCEPT !.num = 0] \in written
  PROVE  k.id \in 1..trxid
<1>1. [k EXCEPT !.num = 0].id = k.id
  BY KeyFields
<1> QED
  BY <1>1 DEF StmtInv


\* The fields of the merge.
LEMMA MergeFields ==
  ASSUME Types
  PROVE  /\ merge.st \in {"off", "start", "active", "stop"} /\ merge.full \in BOOLEAN
         /\ merge.level \in Nat /\ merge.level <= maxtrxnum
         /\ merge.patch \in Nat /\ merge.patch <= maxtrxnum
         /\ merge.abortid \in Nat /\ merge.abortid <= aborttrxid
         /\ merge.leaf \in Nat /\ merge.leaf <= Leaves /\ Leaves \in Nat
         /\ merge.work \subseteq Keys /\ merge.ended \in BOOLEAN
         /\ merge.readonly \in BOOLEAN /\ merge.count \in Nat
<1>1. merge \in MergeType /\ maxtrxnum \in Nat /\ aborttrxid \in Nat
  BY DEF Types
<1>2. Leaves \in Nat
  BY BoundsAssumption
<1> QED
  BY <1>1, <1>2 DEF MergeType

\* What a merge has to be.
LEMMA MergeTyped ==
  ASSUME NEW m,
         m.st \in {"off", "start", "active", "stop"}, m.full \in BOOLEAN,
         m.level \in 0..maxtrxnum, m.patch \in 0..maxtrxnum,
         m.abortid \in 0..aborttrxid, m.leaf \in 0..Leaves, m.work \subseteq Keys,
         m.ended \in BOOLEAN, m.readonly \in BOOLEAN, m.count \in Nat,
         m = [st |-> m.st, full |-> m.full, level |-> m.level, patch |-> m.patch,
              abortid |-> m.abortid, leaf |-> m.leaf, work |-> m.work,
              ended |-> m.ended, readonly |-> m.readonly, count |-> m.count]
  PROVE  m \in MergeType
  BY DEF MergeType

\* Begin to end of a transaction.
LEMMA TypesTrx ==
  ASSUME Types, NEW t \in Trx,
         \/ Begin(t) \/ PublishAbortId(t) \/ \E commit \in BOOLEAN : EndTrx(t, commit)
  PROVE  Types'
<1> USE DEF Types
<1>1. /\ maxtrxnum \in Nat /\ aborttrxid \in Nat /\ trxid \in Nat /\ aborttrxid <= trxid
  BY DEF trxid
<1>2. UNCHANGED <<stmt, trxid, trxbuf, bonsai, storage, written, merge, sea>>
  BY DEF Begin, PublishAbortId, EndTrx, trees, buf, trxid
<1>3. /\ maxtrxnum' \in Nat /\ maxtrxnum <= maxtrxnum'
      /\ aborttrxid' \in 0..trxid /\ aborttrxid <= aborttrxid'
  <2>1. CASE Begin(t)
    BY <1>1, <2>1 DEF Begin, buf
  <2>2. CASE PublishAbortId(t)
    <3>1. pending[t] \in 0..trxid
      OBVIOUS
    <3>2. Max({aborttrxid, pending[t]}) = IF aborttrxid >= pending[t] THEN aborttrxid ELSE pending[t]
      BY <1>1, <3>1 DEF Max
    <3> QED
      BY <1>1, <2>2, <3>1, <3>2 DEF PublishAbortId
  <2>3. ASSUME NEW commit \in BOOLEAN, EndTrx(t, commit)
        PROVE  /\ maxtrxnum' \in Nat /\ maxtrxnum <= maxtrxnum'
               /\ aborttrxid' = aborttrxid
    BY <1>1, <2>3 DEF EndTrx, buf
  <2> QED
    BY <1>1, <2>1, <2>2, <2>3
<1>4. /\ trxst' \in [Trx -> Stages] /\ num' \in [Trx -> 0..maxtrxnum']
      /\ level' \in [Trx -> 0..maxtrxnum'] /\ pending' \in [Trx -> 0..trxid]
  <2>1. CASE Begin(t)
    BY <1>1, <2>1 DEF Begin, Stages
  <2>2. CASE PublishAbortId(t)
    BY <1>1, <2>2 DEF PublishAbortId
  <2>3. ASSUME NEW commit \in BOOLEAN, EndTrx(t, commit)
        PROVE  /\ trxst' \in [Trx -> Stages] /\ num' \in [Trx -> 0..maxtrxnum']
               /\ level' \in [Trx -> 0..maxtrxnum'] /\ pending' \in [Trx -> 0..trxid]
    <3>1. trxst' \in [Trx -> Stages] /\ pending' \in [Trx -> 0..trxid] /\ level' = level
      BY <1>1, <2>3 DEF EndTrx, Stages
    <3>2. \/ maxtrxnum' = maxtrxnum + 1 /\ num' = [num EXCEPT ![t] = maxtrxnum']
          \/ maxtrxnum' = maxtrxnum /\ num' = num
      BY <2>3 DEF EndTrx
    <3>3. CASE num' = num /\ maxtrxnum' = maxtrxnum
      BY <3>1, <3>3
    <3>4. CASE maxtrxnum' = maxtrxnum + 1 /\ num' = [num EXCEPT ![t] = maxtrxnum']
      <4>1. maxtrxnum' \in 0..maxtrxnum' /\ 0..maxtrxnum \subseteq 0..maxtrxnum'
        BY <1>1, <3>4
      <4>2. num \in [Trx -> 0..maxtrxnum'] /\ level \in [Trx -> 0..maxtrxnum']
        BY <4>1
      <4>3. num' \in [Trx -> 0..maxtrxnum']
        BY <3>4, <4>1, <4>2
      <4> QED
        BY <3>1, <4>2, <4>3
    <3> QED
      BY <3>2, <3>3, <3>4
  <2> QED
    BY <2>1, <2>2, <2>3
<1>5. merge' \in MergeType'
  <2>1. 0..maxtrxnum \subseteq 0..maxtrxnum' /\ 0..aborttrxid \subseteq 0..aborttrxid'
    BY <1>1, <1>3
  <2>2. merge \in MergeType
    OBVIOUS
  <2> HIDE DEF Types
  <2> QED
    BY <1>2, <2>1, <2>2 DEF MergeType
<1> QED
  BY <1>2, <1>3, <1>4, <1>5

\* Statements and their writes.
LEMMA TypesStmt ==
  ASSUME Types, StmtInv, WrittenInv, NEW t \in Trx,
         \/ StmtBegin(t)
         \/ \E i \in 1..trxid : AddStmt(t, i) \/ StmtCommit(t, i) \/ StmtRollback(t, i)
         \/ \E i \in 1..trxid, r \in Rows, del \in BOOLEAN : Write(t, i, r, del)
  PROVE  Types'
<1>1. /\ maxtrxnum \in Nat /\ aborttrxid \in Nat /\ trxid \in Nat /\ aborttrxid <= trxid
      /\ stmt \in Seq(StmtType) /\ trxid <= MaxId /\ MaxId \in Nat
      /\ trxbuf \subseteq 1..trxid /\ merge \in MergeType
  BY BoundsAssumption DEF Types, trxid
<1>2. UNCHANGED <<trxst, num, level, pending, maxtrxnum, aborttrxid, storage, merge, sea>>
  BY DEF StmtBegin, AddStmt, StmtCommit, StmtRollback, Write, trxs, buf, trees
<1>3. merge' \in MergeType'
  BY <1>1, <1>2 DEF MergeType
<1>4. CASE StmtBegin(t)
  <2>1. /\ stmt' = Append(stmt, [trx |-> t, st |-> "open"]) /\ trxid < MaxId
        /\ UNCHANGED <<trxbuf, bonsai, written>>
    BY <1>4 DEF StmtBegin, buf, trees
  <2>2. stmt' \in Seq(StmtType) /\ Len(stmt') = Len(stmt) + 1
    BY <1>1, <2>1 DEF StmtType
  <2>3. trxid' = trxid + 1
    BY <2>2 DEF trxid
  <2>4. pending \in [Trx -> 0..trxid'] /\ aborttrxid \in 0..trxid' /\ trxbuf \subseteq 1..trxid'
    BY <1>1, <2>3 DEF Types
  <2> QED
    BY <1>1, <1>2, <1>3, <2>1, <2>2, <2>3, <2>4 DEF Types
<1>5. ASSUME NEW i \in 1..trxid, AddStmt(t, i) \/ StmtCommit(t, i) \/ StmtRollback(t, i)
      PROVE  Types'
  <2>1. stmt' \in Seq(StmtType) /\ Len(stmt') = Len(stmt)
    <3>1. CASE stmt' = stmt
      BY <1>1, <3>1
    <3>2. ASSUME NEW x \in {"done", "aborted"}, stmt' = [stmt EXCEPT ![i].st = x]
          PROVE  stmt' \in Seq(StmtType) /\ Len(stmt') = Len(stmt)
      <4>1. stmt[i] \in StmtType
        BY StmtAt
      <4>2. [stmt[i] EXCEPT !.st = x] \in StmtType
        BY <4>1 DEF StmtType
      <4>3. stmt' = [stmt EXCEPT ![i] = [stmt[i] EXCEPT !.st = x]]
        BY <3>2
      <4>4. i \in 1..Len(stmt)
        BY DEF trxid
      <4> QED
        BY <1>1, <4>2, <4>3, <4>4
    <3> QED
      BY <1>5, <3>1, <3>2 DEF AddStmt, StmtCommit, StmtRollback
  <2>2. trxid' = trxid
    BY <2>1 DEF trxid
  <2>3. trxbuf' \subseteq 1..trxid /\ UNCHANGED <<bonsai, written>>
    BY <1>1, <1>5 DEF AddStmt, StmtCommit, StmtRollback, buf, trees
  <2> QED
    BY <1>1, <1>2, <1>3, <2>1, <2>2, <2>3 DEF Types
<1>6. ASSUME NEW i \in 1..trxid, NEW r \in Rows, NEW del \in BOOLEAN, Write(t, i, r, del)
      PROVE  Types'
  <2>1. PICK k : k = [row |-> r, del |-> del, id |-> i, num |-> 0]
    OBVIOUS
  <2>2. k \in Keys /\ k.id = i
    BY <1>1, <2>1 DEF Keys
  <2>3. /\ written' = written \cup {k}
        /\ \/ bonsai' = bonsai \cup {k}
           \/ \E l \in 1..Leaves : bonsai' = CleanLeaf(bonsai \cup {k}, l)
        /\ UNCHANGED <<stmt, trxbuf>>
    BY <1>6, <2>1, LeavesAssumption DEF Write, buf
  <2>4. bonsai \cup {k} \subseteq Keys /\ written' \subseteq Keys
    BY <2>2, <2>3 DEF Types
  <2>5. \A j \in bonsai \cup {k} : j.id \in 1..trxid
    BY <2>2, <2>4, KeyIds DEF WrittenInv
  <2>6. bonsai' \subseteq Keys
    BY <2>3, <2>4, <2>5, CleanLeafTyped
  <2>7. trxid' = trxid
    BY <2>3 DEF trxid
  <2> QED
    BY <1>1, <1>2, <1>3, <2>3, <2>4, <2>6, <2>7 DEF Types
<1> QED
  BY <1>4, <1>5, <1>6


\* The position of a key is a number.
LEMMA PosNat ==
  ASSUME NEW k \in Keys
  PROVE  Pos(k) \in Nat
<1>1. k.row \in Nat /\ k.id \in Nat /\ MaxId \in Nat
  BY KeyFields
<1>2. PICK c \in Nat : c = 2 * (MaxId + 1)
  BY <1>1
<1>3. c * k.row \in Nat
  BY <1>1
<1>4. PICK e \in Nat : e = IF k.del THEN 0 ELSE MaxId + 1
  BY <1>1
<1>5. Pos(k) = c * k.row + e + k.id
  BY <1>2, <1>4 DEF Pos
<1> QED
  BY <1>1, <1>3, <1>5

\* The least of the read levels that run, and of the counter.
LEMMA LeastLevel ==
  ASSUME Types, NEW m, m = Min({maxtrxnum} \cup {level[t] : t \in {u \in Trx : trxst[u] = "begin"}})
  PROVE  /\ m \in Nat /\ m <= maxtrxnum
         /\ \A t \in Trx : trxst[t] = "begin" => m <= level[t]
<1> DEFINE S == {maxtrxnum} \cup {level[t] : t \in {u \in Trx : trxst[u] = "begin"}}
<1>1. maxtrxnum \in Nat /\ \A t \in Trx : level[t] \in Nat
  BY DEF Types
<1>2. S \subseteq Nat /\ maxtrxnum \in S
  BY <1>1
<1>3. \A t \in Trx : trxst[t] = "begin" => level[t] \in S
  OBVIOUS
<1>4. m = Min(S)
  OBVIOUS
<1> HIDE DEF S
<1>5. \E p \in S : \A q \in S : p <= q
  BY <1>2, SmallestNat
<1>6. m \in S /\ \A q \in S : m <= q
  BY <1>4, <1>5 DEF Min
<1> QED
  BY <1>2, <1>3, <1>6

\* The merge that starts.
LEMMA MergeStartFields ==
  ASSUME Types, MergeStart
  PROVE  /\ merge.st = "off"
         /\ merge'.st = "start" /\ merge'.full \in BOOLEAN /\ merge'.patch = maxtrxnum
         /\ merge'.level \in Nat /\ merge'.level <= maxtrxnum /\ merge.level <= merge'.level
         /\ \A t \in Trx : trxst[t] = "begin" => merge'.level <= level[t]
         /\ merge'.leaf = 0 /\ merge'.work = {} /\ ~merge'.ended
         /\ merge' \in MergeType
<1>1. PICK full \in BOOLEAN, m \in merge.level..Min({maxtrxnum} \cup
                      {level[t] : t \in {u \in Trx : trxst[u] = "begin"}}) :
        merge' = [NoMerge EXCEPT !.st = "start", !.full = full, !.level = m,
                                !.patch = maxtrxnum, !.count = merge.count + 1]
  BY DEF MergeStart
<1>2. PICK x : x = Min({maxtrxnum} \cup {level[t] : t \in {u \in Trx : trxst[u] = "begin"}})
  OBVIOUS
<1>3. x \in Nat /\ x <= maxtrxnum /\ \A t \in Trx : trxst[t] = "begin" => x <= level[t]
  BY <1>2, LeastLevel
<1>4. merge.level \in Nat /\ merge.count \in Nat /\ Leaves \in Nat
  BY MergeFields
<1>5. maxtrxnum \in Nat /\ aborttrxid \in Nat /\ \A t \in Trx : level[t] \in Nat
  BY DEF Types
<1>6. m \in Nat /\ merge.level <= m /\ m <= x
  BY <1>1, <1>2, <1>3, <1>4
<1>7. merge' = [st |-> "start", full |-> full, level |-> m, patch |-> maxtrxnum,
                abortid |-> 0, leaf |-> 0, work |-> {}, ended |-> FALSE,
                readonly |-> FALSE, count |-> merge.count + 1]
  BY <1>1 DEF NoMerge
<1>8. m <= maxtrxnum /\ \A t \in Trx : trxst[t] = "begin" => m <= level[t]
  BY <1>3, <1>5, <1>6
<1>9. m \in 0..maxtrxnum /\ maxtrxnum \in 0..maxtrxnum /\ 0 \in 0..aborttrxid /\ 0 \in 0..Leaves
  BY <1>4, <1>5, <1>6, <1>8
<1>10. merge' \in MergeType
  BY <1>4, <1>7, <1>9 DEF MergeType
<1> QED
  BY <1>6, <1>7, <1>8, <1>10 DEF MergeStart


\* The other steps of the merge keep its levels.
LEMMA MergeStepFields ==
  ASSUME Types, StmtInv, WrittenInv,
         \/ MergeMark \/ MergeLeaf \/ MergeMove \/ MergeEnd
         \/ MergeError \/ MergeStop \/ MergeClean
  PROVE  /\ merge' \in MergeType /\ bonsai' \subseteq Keys /\ storage' \subseteq Rows
         /\ merge'.level = merge.level /\ merge'.patch = merge.patch
         /\ merge'.full = merge.full /\ merge'.leaf \in Nat
         /\ UNCHANGED <<trxs, stmt, aborttrxid, written, trxid>>
<1>1. /\ merge \in MergeType /\ aborttrxid \in Nat /\ Leaves \in Nat
      /\ bonsai \subseteq Keys /\ storage \subseteq Rows
  BY MergeFields DEF Types
<1>2. UNCHANGED <<trxs, stmt, aborttrxid, written, trxid>>
  BY DEF MergeMark, MergeLeaf, MergeMove, MergeEnd, MergeError, MergeStop, MergeClean,
         buf, trees, trxid
<1>3. CASE MergeMark \/ MergeEnd \/ MergeError \/ MergeStop \/ MergeClean
  <2>1. UNCHANGED <<bonsai, storage>>
    BY <1>3 DEF MergeMark, MergeEnd, MergeError, MergeStop, MergeClean, trees
  <2>2. /\ merge' \in MergeType
        /\ merge'.level = merge.level /\ merge'.patch = merge.patch
        /\ merge'.full = merge.full /\ merge'.leaf = merge.leaf
    <3>1. aborttrxid \in 0..aborttrxid
      BY <1>1
    <3>2. \/ merge' = [merge EXCEPT !.st = "active", !.abortid = aborttrxid]
          \/ merge' = [merge EXCEPT !.ended = TRUE]
          \/ merge' = [merge EXCEPT !.ended = TRUE, !.readonly = TRUE]
          \/ merge' = [merge EXCEPT !.st = "stop"]
          \/ merge' = [merge EXCEPT !.st = "off", !.work = {}]
      BY <1>3 DEF MergeMark, MergeEnd, MergeError, MergeStop, MergeClean
    <3> QED
      BY <1>1, <3>1, <3>2 DEF MergeType
  <2> QED
    BY <1>1, <1>2, <2>1, <2>2, MergeFields
<1>4. CASE MergeLeaf
  <2>1. PICK l, b : /\ l = merge.leaf + 1 /\ b = CleanLeaf(bonsai, l) /\ bonsai' = b
                    /\ merge' = [merge EXCEPT !.leaf = l,
                         !.work = IF merge.full
                                  THEN merge.work \cup {k \in InLeaf(b, l) :
                                         k.num # 0 /\ k.num <= merge.level}
                                  ELSE {}]
                    /\ storage' = storage
    BY <1>4 DEF MergeLeaf
  <2>2. l \in 0..Leaves
    BY <1>1, <1>4, <2>1, MergeFields DEF MergeLeaf
  <2>3. \A k \in bonsai : k.id \in 1..trxid
    BY <1>1, KeyIds DEF WrittenInv
  <2>4. b \subseteq Keys
    BY <1>1, <2>1, <2>3, CleanLeafTyped
  <2>5. PICK w : w = IF merge.full
                     THEN merge.work \cup {k \in InLeaf(b, l) :
                            k.num # 0 /\ k.num <= merge.level}
                     ELSE {}
    OBVIOUS
  <2>6. w \subseteq Keys
    BY <2>4, <2>5, MergeFields DEF InLeaf
  <2>7. merge' = [merge EXCEPT !.leaf = l, !.work = w]
    BY <2>1, <2>5
  <2>8. /\ merge' \in MergeType /\ merge'.level = merge.level
        /\ merge'.patch = merge.patch /\ merge'.full = merge.full /\ merge'.leaf = l
    BY <1>1, <2>2, <2>6, <2>7 DEF MergeType
  <2> QED
    BY <1>1, <1>2, <2>1, <2>2, <2>4, <2>8
<1>5. CASE MergeMove
  <2>1. merge' = [merge EXCEPT !.work = merge.work \ Taken] /\ merge.work # {}
    BY <1>5 DEF MergeMove, Moves
  <2>2. /\ merge' \in MergeType /\ merge'.level = merge.level
        /\ merge'.patch = merge.patch /\ merge'.full = merge.full /\ merge'.leaf = merge.leaf
    BY <1>1, <2>1 DEF MergeType
  <2>3. PICK k : k = FirstKey(merge.work)
    OBVIOUS
  <2>4. k.row \in Rows
    BY <2>1, <2>3, MergeFields, FirstKeyProperties, KeyFields
  <2>5. storage' \in {storage \cup {k.row}, storage \ {k.row}, storage}
    BY <1>5, <2>3 DEF MergeMove
  <2>6. bonsai' \subseteq bonsai
    BY <1>5 DEF MergeMove, Without
  <2> QED
    BY <1>1, <1>2, <2>2, <2>4, <2>5, <2>6, MergeFields
<1> QED
  BY <1>3, <1>4, <1>5

\* The fields of a search.
LEMMA SearchFields ==
  ASSUME NEW s \in SearchType
  PROVE  /\ s.st \in {"new", "adding", "listed", "on", "end"}
         /\ s.active \in BOOLEAN /\ s.reset \in BOOLEAN /\ s.ingate \in BOOLEAN
         /\ s.deletenext \in BOOLEAN /\ s.edge \in {"no", "bonsai", "storage"}
         /\ s.pos \in Nat /\ s.bbuf \subseteq Keys /\ s.sbuf \subseteq Keys
         /\ s.out \subseteq Rows /\ s.maxid \in Nat /\ s.seen \in BOOLEAN
  BY DEF SearchType

\* A loaded leaf.
LEMMA LoadTyped ==
  ASSUME bonsai \subseteq Keys, storage \subseteq Rows, NEW p
  PROVE  /\ LoadBonsai(p) \subseteq bonsai
         /\ LoadStorage(p) \subseteq Keys
<1>1. LoadBonsai(p) \subseteq bonsai
  BY DEF LoadBonsai, After
<1>2. LoadStorage(p) \subseteq {StorageKey(r) : r \in storage}
  BY DEF LoadStorage, After
<1>3. MaxId \in Nat
  BY BoundsAssumption
<1>4. \A r \in Rows : StorageKey(r) \in Keys
  BY <1>3 DEF StorageKey, Keys
<1> QED
  BY <1>1, <1>2, <1>4

\* A search with its buffers positioned.
LEMMA PositionedTyped ==
  ASSUME bonsai \subseteq Keys, storage \subseteq Rows, NEW s \in SearchType,
         s.st \in {"listed", "on"}
  PROVE  /\ Positioned(s) \in SearchType
         /\ Positioned(s).bbuf \subseteq s.bbuf \cup bonsai
         /\ Positioned(s).active = s.active /\ Positioned(s).st = "on"
<1>1. CASE NeedsReset(s)
  <2>1. PICK p : p = ResetPos(s)
    OBVIOUS
  <2>2. PICK b, c : b = LoadBonsai(p) /\ c = LoadStorage(p)
    OBVIOUS
  <2>3. b \subseteq bonsai /\ b \subseteq Keys /\ c \subseteq Keys
    BY <2>2, LoadTyped
  <2>4. PICK g : g = (s.active \/ s.reset)
    OBVIOUS
  <2>5. Positioned(s) = [s EXCEPT !.st = "on", !.reset = FALSE, !.deletenext = FALSE,
            !.edge = "no", !.ingate = g, !.bbuf = b, !.sbuf = c]
    BY <1>1, <2>1, <2>2, <2>4 DEF Positioned, Reset
  <2>6. g \in BOOLEAN
    BY <2>4
  <2>7. Positioned(s) = [st |-> "on", active |-> s.active, reset |-> FALSE, ingate |-> g,
          deletenext |-> FALSE, edge |-> "no", pos |-> s.pos, bbuf |-> b, sbuf |-> c,
          out |-> s.out, maxid |-> s.maxid, seen |-> s.seen]
    BY <2>5 DEF SearchType
  <2> QED
    BY <2>3, <2>6, <2>7, SearchFields DEF SearchType
<1>2. CASE ~NeedsReset(s)
  <2>1. s.st = "on"
    BY <1>2 DEF NeedsReset
  <2>2. PICK b, c : b = LoadBonsai(s.pos) /\ c = LoadStorage(s.pos)
    OBVIOUS
  <2>3. b \subseteq bonsai /\ b \subseteq Keys /\ c \subseteq Keys
    BY <2>2, LoadTyped
  <2>4. \/ Positioned(s) = [s EXCEPT !.bbuf = b]
        \/ Positioned(s) = [s EXCEPT !.sbuf = c]
        \/ Positioned(s) = s
    BY <1>2, <2>2 DEF Positioned
  <2> QED
    BY <2>1, <2>3, <2>4 DEF SearchType
<1> QED
  BY <1>1, <1>2

\* A search that has taken a key.
LEMMA StepTyped ==
  ASSUME NEW t, NEW s \in SearchType, s.bbuf \cup s.sbuf # {}
  PROVE  /\ Step(t, s) \in SearchType
         /\ Step(t, s).bbuf \subseteq s.bbuf
         /\ Step(t, s).active = s.active /\ Step(t, s).st = s.st
<1>1. PICK k : k = FirstKey(s.bbuf \cup s.sbuf)
  OBVIOUS
<1>2. k \in Keys
  BY <1>1, SearchFields, FirstKeyProperties
<1>3. Pos(k) \in Nat /\ k.row \in Rows /\ k.del \in BOOLEAN
  BY <1>2, PosNat, KeyFields
<1>4. PICK mark : mark = IF k \notin s.bbuf \/ Accepts(t, s.maxid, k) THEN k.del ELSE s.deletenext
  OBVIOUS
<1>5. PICK e : e = CASE k \in s.bbuf /\ s.bbuf \ {k} = {} -> "bonsai"
                     [] k \notin s.bbuf /\ s.sbuf \ {k} = {} -> "storage"
                     [] OTHER -> "no"
  OBVIOUS
<1>6. PICK o : o = IF (k \notin s.bbuf \/ Accepts(t, s.maxid, k)) /\ ~k.del /\ ~s.deletenext
                   THEN s.out \cup {k.row} ELSE s.out
  OBVIOUS
<1>7. PICK gate : gate = (s.ingate /\ mark)
  OBVIOUS
<1>8. Step(t, s) = [s EXCEPT !.bbuf = s.bbuf \ {k}, !.sbuf = s.sbuf \ {k}, !.pos = Pos(k),
             !.edge = e, !.deletenext = mark, !.ingate = gate, !.out = o]
  BY <1>1, <1>4, <1>5, <1>6, <1>7 DEF Step
<1>9. e \in {"no", "bonsai", "storage"} /\ mark \in BOOLEAN /\ gate \in BOOLEAN
  BY <1>3, <1>4, <1>5, <1>7, SearchFields
<1>10. o \subseteq Rows /\ s.bbuf \ {k} \subseteq Keys /\ s.sbuf \ {k} \subseteq Keys
  BY <1>3, <1>6, SearchFields
<1>11. Step(t, s) = [st |-> s.st, active |-> s.active, reset |-> s.reset, ingate |-> gate,
          deletenext |-> mark, edge |-> e, pos |-> Pos(k), bbuf |-> s.bbuf \ {k},
          sbuf |-> s.sbuf \ {k}, out |-> o, maxid |-> s.maxid, seen |-> s.seen]
  BY <1>8 DEF SearchType
<1> QED
  BY <1>3, <1>9, <1>10, <1>11, SearchFields DEF SearchType


\* The last finished statement of a transaction.
LEMMA ReadIdNat ==
  ASSUME Types, NEW t
  PROVE  ReadId(t) \in Nat
<1>1. trxid \in Nat
  BY DEF Types, trxid
<1>2. PICK F : F = Finished(t)
  OBVIOUS
<1>3. F \subseteq 0..trxid
  BY <1>1, <1>2 DEF Finished
<1>4. CASE F # {}
  <2>1. \E n \in F : \A m \in F : m <= n
    BY <1>1, <1>3, <1>4, GreatestNat
  <2>2. \A n \in F, m \in F : m <= n <=> n >= m
    BY <1>1, <1>3
  <2>3. \E n \in F : \A m \in F : n >= m
    BY <2>1, <2>2
  <2>4. Max(F) \in F
    BY <2>3 DEF Max
  <2> QED
    BY <1>1, <1>2, <1>3, <1>4, <2>4 DEF ReadId
<1> QED
  BY <1>2, <1>4 DEF ReadId

\* What a step of a search does to it.
LEMMA SearchSteps ==
  ASSUME Types, NEW t \in Readers,
         SearchOpen(t) \/ SearchStore(t) \/ SearchNext(t) \/ SearchClose(t)
  PROVE  /\ sea' \in [Readers -> SearchType]
         /\ \A u \in Readers : u # t => sea'[u] = sea[u]
         /\ \/ /\ sea[t].st = "new" /\ sea'[t].st = "adding" /\ sea'[t].bbuf = {}
               /\ sea'[t].seen = MergeFlag /\ merge.st # "stop"
            \/ /\ sea[t].st = "adding" /\ sea'[t].st = "listed"
               /\ sea'[t].active = sea[t].seen /\ sea'[t].bbuf = sea[t].bbuf
            \/ /\ sea[t].st \in {"listed", "on"} /\ sea'[t].st = "on"
               /\ sea'[t].active = sea[t].active
               /\ sea'[t].bbuf \subseteq sea[t].bbuf \cup bonsai
            \/ sea'[t].st \in {"new", "end"} /\ sea'[t].bbuf = {}
         /\ UNCHANGED <<trxs, stmt, buf, trees, merge, trxid>>
<1>1. sea \in [Readers -> SearchType] /\ bonsai \subseteq Keys /\ storage \subseteq Rows
  BY DEF Types
<1>2. sea[t] \in SearchType
  BY <1>1
<1>3. UNCHANGED <<trxs, stmt, buf, trees, merge, trxid>>
  BY DEF SearchOpen, SearchStore, SearchNext, SearchClose, trxid
<1>4. NoSearch \in SearchType
  BY DEF NoSearch, SearchType
<1>5. ASSUME NEW n \in SearchType, sea' = [sea EXCEPT ![t] = n]
      PROVE  /\ sea' \in [Readers -> SearchType] /\ sea'[t] = n
             /\ \A u \in Readers : u # t => sea'[u] = sea[u]
  BY <1>1, <1>5
<1>6. CASE SearchOpen(t)
  <2>1. PICK f, i : f = MergeFlag /\ i = ReadId(t)
    OBVIOUS
  <2>2. f \in BOOLEAN /\ i \in Nat
    BY <2>1, ReadIdNat DEF MergeFlag
  <2>3. PICK n : n = [NoSearch EXCEPT !.st = "adding", !.active = f, !.seen = f, !.maxid = i]
    OBVIOUS
  <2>4. n \in SearchType /\ n.st = "adding" /\ n.bbuf = {} /\ n.seen = f
    BY <2>2, <2>3 DEF NoSearch, SearchType
  <2>5. sea' = [sea EXCEPT ![t] = n]
    BY <1>6, <2>1, <2>3 DEF SearchOpen
  <2>6. sea[t].st = "new" /\ merge.st # "stop"
    BY <1>6 DEF SearchOpen
  <2> QED
    BY <1>3, <1>5, <2>1, <2>4, <2>5, <2>6
<1>7. CASE SearchStore(t)
  <2>1. PICK n : n = [sea[t] EXCEPT !.st = "listed", !.active = sea[t].seen]
    OBVIOUS
  <2>2. /\ n \in SearchType /\ n.st = "listed" /\ n.active = sea[t].seen
        /\ n.bbuf = sea[t].bbuf
    BY <1>2, <2>1 DEF SearchType
  <2>3. sea' = [sea EXCEPT ![t] = n]
    BY <1>7, <2>1 DEF SearchStore
  <2>4. sea[t].st = "adding"
    BY <1>7 DEF SearchStore
  <2> QED
    BY <1>3, <1>5, <2>2, <2>3, <2>4
<1>8. CASE SearchNext(t)
  <2>1. PICK s : s = Positioned(sea[t])
    OBVIOUS
  <2>2. sea[t].st \in {"listed", "on"}
    BY <1>8 DEF SearchNext
  <2>3. /\ s \in SearchType /\ s.bbuf \subseteq sea[t].bbuf \cup bonsai
        /\ s.active = sea[t].active /\ s.st = "on"
    BY <1>1, <1>2, <2>1, <2>2, PositionedTyped
  <2>4. CASE s.bbuf \cup s.sbuf = {}
    <3>1. PICK n : n = [NoSearch EXCEPT !.st = "end", !.out = s.out, !.maxid = s.maxid]
      OBVIOUS
    <3>2. n \in SearchType /\ n.st = "end" /\ n.bbuf = {}
      BY <2>3, <3>1, SearchFields DEF NoSearch, SearchType
    <3>3. sea' = [sea EXCEPT ![t] = n]
      BY <1>8, <2>1, <2>4, <3>1 DEF SearchNext
    <3> QED
      BY <1>3, <1>5, <3>2, <3>3
  <2>5. CASE s.bbuf \cup s.sbuf # {}
    <3>1. PICK n : n = Step(t, s)
      OBVIOUS
    <3>2. n \in SearchType /\ n.bbuf \subseteq s.bbuf /\ n.active = s.active /\ n.st = s.st
      BY <2>3, <2>5, <3>1, StepTyped
    <3>3. sea' = [sea EXCEPT ![t] = n]
      BY <1>8, <2>1, <2>5, <3>1 DEF SearchNext
    <3> QED
      BY <1>3, <1>5, <2>2, <2>3, <3>2, <3>3
  <2> QED
    BY <2>4, <2>5
<1>9. CASE SearchClose(t)
  <2>1. sea' = [sea EXCEPT ![t] = NoSearch]
    BY <1>9 DEF SearchClose
  <2>2. NoSearch.st = "new" /\ NoSearch.bbuf = {}
    BY DEF NoSearch
  <2> QED
    BY <1>3, <1>4, <1>5, <2>1, <2>2
<1> QED
  BY <1>6, <1>7, <1>8, <1>9

\* What the merge does to the searches.
LEMMA MergeSearches ==
  ASSUME Types, MergeMark \/ MergeStop
  PROVE  /\ sea' \in [Readers -> SearchType]
         /\ \A t \in Readers :
              /\ sea'[t].st = sea[t].st /\ sea'[t].seen = sea[t].seen
              /\ sea'[t].bbuf \subseteq sea[t].bbuf
              /\ MergeMark /\ sea[t].st \notin {"new", "end"} => sea'[t].active
              /\ MergeStop /\ sea[t].st = "on" => sea'[t].bbuf = {}
<1>1. sea \in [Readers -> SearchType]
  BY DEF Types
<1>2. CASE MergeMark
  <2>0. ~MergeStop
    BY <1>2 DEF MergeMark, MergeStop
  <2>1. sea' = [t \in Readers |-> IF Listed(t) THEN [sea[t] EXCEPT !.active = TRUE]
                               ELSE sea[t]]
    BY <1>2 DEF MergeMark
  <2>2. SUFFICES ASSUME NEW t \in Readers
                 PROVE  /\ sea'[t] \in SearchType
                        /\ sea'[t].st = sea[t].st /\ sea'[t].seen = sea[t].seen
                        /\ sea'[t].bbuf \subseteq sea[t].bbuf
                        /\ sea[t].st \notin {"new", "end"} => sea'[t].active
    BY <2>0, <2>1
  <2>3. sea[t] \in SearchType
    BY <1>1
  <2>4. sea'[t] = IF Listed(t) THEN [sea[t] EXCEPT !.active = TRUE] ELSE sea[t]
    BY <2>1
  <2> QED
    BY <2>3, <2>4 DEF Listed, SearchType
<1>3. CASE MergeStop
  <2>0. ~MergeMark
    BY <1>3 DEF MergeMark, MergeStop
  <2>1. sea' = [t \in Readers |-> IF Listed(t) THEN Freed(sea[t]) ELSE sea[t]]
    BY <1>3 DEF MergeStop
  <2>2. SUFFICES ASSUME NEW t \in Readers
                 PROVE  /\ sea'[t] \in SearchType
                        /\ sea'[t].st = sea[t].st /\ sea'[t].seen = sea[t].seen
                        /\ sea'[t].bbuf \subseteq sea[t].bbuf
                        /\ sea[t].st = "on" => sea'[t].bbuf = {}
    BY <2>0, <2>1
  <2>3. sea[t] \in SearchType
    BY <1>1
  <2>4. \/ sea'[t] = sea[t] /\ sea[t].st # "on"
        \/ sea'[t] = [sea[t] EXCEPT !.active = FALSE] /\ sea[t].st # "on"
        \/ sea'[t] = [sea[t] EXCEPT !.active = FALSE, !.reset = TRUE, !.bbuf = {}, !.sbuf = {}]
    BY <2>1 DEF Freed, Listed
  <2> QED
    BY <2>3, <2>4 DEF SearchType
<1> QED
  BY <1>2, <1>3

\* The types hold after every step.
LEMMA TypesStep ==
  ASSUME Types, StmtInv, WrittenInv, [Next]_vars
  PROVE  Types'
<1>1. /\ maxtrxnum \in Nat /\ aborttrxid \in Nat /\ trxid \in Nat /\ trxbuf \subseteq 1..trxid
  BY DEF Types, trxid
<1>2. ASSUME NEW t \in Trx, Begin(t) \/ StmtBegin(t) \/ PublishAbortId(t)
      PROVE  Types'
  BY <1>2, TypesTrx, TypesStmt
<1>3. ASSUME NEW t \in Trx, NEW commit \in BOOLEAN, EndTrx(t, commit)
      PROVE  Types'
  BY <1>3, TypesTrx
<1>4. ASSUME NEW t \in Trx, NEW i \in 1..trxid,
             \/ AddStmt(t, i) \/ StmtCommit(t, i) \/ StmtRollback(t, i)
             \/ \E r \in Rows, del \in BOOLEAN : Write(t, i, r, del)
      PROVE  Types'
  BY <1>4, TypesStmt
<1>5. CASE MergeStart
  <2>1. UNCHANGED <<trxs, stmt, buf, trees, sea, trxid>>
    BY <1>5 DEF MergeStart, trxid
  <2>2. merge' \in MergeType
    BY <1>5, MergeStartFields
  <2> QED
    BY <2>1, <2>2 DEF Types, trxs, buf, trees, MergeType
<1>6. CASE MergeMark \/ MergeLeaf \/ MergeMove \/ MergeEnd \/ MergeError \/ MergeStop \/ MergeClean
  <2>1. /\ merge' \in MergeType /\ bonsai' \subseteq Keys /\ storage' \subseteq Rows
        /\ UNCHANGED <<trxs, stmt, aborttrxid, written, trxid>>
    BY <1>6, MergeStepFields
  <2>2. trxbuf' \subseteq trxbuf
    BY <1>6 DEF MergeMark, MergeLeaf, MergeMove, MergeEnd, MergeError, MergeStop, MergeClean, buf
  <2>3. sea' \in [Readers -> SearchType]
    <3>1. CASE MergeMark \/ MergeStop
      BY <3>1, MergeSearches
    <3>2. CASE sea' = sea
      BY <3>2 DEF Types
    <3> QED
      BY <1>6, <3>1, <3>2 DEF MergeLeaf, MergeMove, MergeEnd, MergeError, MergeClean
  <2> QED
    BY <1>1, <2>1, <2>2, <2>3 DEF Types, trxs, MergeType
<1>7. ASSUME NEW t \in Readers,
             SearchOpen(t) \/ SearchStore(t) \/ SearchNext(t) \/ SearchClose(t)
      PROVE  Types'
  <2>1. sea' \in [Readers -> SearchType] /\ UNCHANGED <<trxs, stmt, buf, trees, merge, trxid>>
    BY <1>7, SearchSteps
  <2> QED
    BY <2>1 DEF Types, trxs, buf, trees, MergeType
<1>8. CASE UNCHANGED vars
  BY <1>8 DEF Types, vars, trxs, buf, trees, MergeType, trxid
<1> QED
  BY <1>2, <1>3, <1>4, <1>5, <1>6, <1>7, <1>8 DEF Next


-----------------------------------------------------------------------------
(***************************************************************************)
(* How statements end                                                      *)
(***************************************************************************)

\* Who changes the transactions, the statements and the history.
LEMMA Frame ==
  ASSUME Types, [Next]_vars
  PROVE  /\ \/ UNCHANGED trxs
            \/ \E t \in Trx : Begin(t) \/ PublishAbortId(t) \/ \E c \in BOOLEAN : EndTrx(t, c)
         /\ \/ stmt' = stmt
            \/ \E t \in Trx : StmtBegin(t)
            \/ \E t \in Trx, i \in 1..trxid : StmtCommit(t, i) \/ StmtRollback(t, i)
         /\ \/ written' = written
            \/ \E t \in Trx, i \in 1..trxid, r \in Rows, del \in BOOLEAN : Write(t, i, r, del)
         /\ \/ merge' = merge
            \/ MergeStart
            \/ MergeMark \/ MergeLeaf \/ MergeMove \/ MergeEnd \/ MergeError
            \/ MergeStop \/ MergeClean
<1>1. ASSUME NEW t \in Trx,
             \/ Begin(t) \/ StmtBegin(t) \/ PublishAbortId(t) \/ \E c \in BOOLEAN : EndTrx(t, c)
             \/ \E i \in 1..trxid : AddStmt(t, i) \/ StmtCommit(t, i) \/ StmtRollback(t, i)
      PROVE  UNCHANGED <<written, merge>>
  BY <1>1 DEF Begin, StmtBegin, PublishAbortId, EndTrx, AddStmt, StmtCommit, StmtRollback, trees
<1>2. ASSUME NEW t \in Trx,
             \/ StmtBegin(t)
             \/ \E i \in 1..trxid : \/ AddStmt(t, i) \/ StmtCommit(t, i) \/ StmtRollback(t, i)
                                    \/ \E r \in Rows, del \in BOOLEAN : Write(t, i, r, del)
      PROVE  UNCHANGED <<trxs, merge>>
  BY <1>2 DEF StmtBegin, AddStmt, StmtCommit, StmtRollback, Write
<1>3. ASSUME NEW t \in Trx,
             \/ Begin(t) \/ PublishAbortId(t) \/ \E c \in BOOLEAN : EndTrx(t, c)
             \/ \E i \in 1..trxid : AddStmt(t, i) \/ \E r \in Rows, del \in BOOLEAN : Write(t, i, r, del)
      PROVE  stmt' = stmt
  BY <1>3 DEF Begin, PublishAbortId, EndTrx, AddStmt, Write
<1>4. CASE \/ MergeStart \/ MergeMark \/ MergeLeaf \/ MergeMove \/ MergeEnd
           \/ MergeError \/ MergeStop \/ MergeClean
  BY <1>4 DEF MergeStart, MergeMark, MergeLeaf, MergeMove, MergeEnd, MergeError, MergeStop,
              MergeClean, trees
<1>5. CASE \E t \in Readers : SearchOpen(t) \/ SearchStore(t) \/ SearchNext(t) \/ SearchClose(t)
  BY <1>5 DEF SearchOpen, SearchStore, SearchNext, SearchClose, trees
<1>6. CASE UNCHANGED vars
  BY <1>6 DEF vars, trees
<1> QED
  BY <1>1, <1>2, <1>3, <1>4, <1>5, <1>6 DEF Next

\* A transaction begins once and ends once; a commit that wrote takes the next
\* number.
LEMMA TrxStep ==
  ASSUME Types, [Next]_vars, NEW t \in Trx
  PROVE  \/ UNCHANGED <<trxst[t], num[t], level[t]>>
         \/ /\ trxst[t] = "new" /\ trxst'[t] = "begin" /\ num'[t] = num[t]
            /\ level'[t] = maxtrxnum /\ maxtrxnum' = maxtrxnum
            /\ UNCHANGED <<stmt, written, merge>>
         \/ /\ trxst[t] = "begin" /\ trxst'[t] \in {"commit", "abort"} /\ level'[t] = level[t]
            /\ trxst'[t] = "commit" /\ Wrote(t) =>
                 num'[t] = maxtrxnum + 1 /\ maxtrxnum' = maxtrxnum + 1
            /\ ~(trxst'[t] = "commit" /\ Wrote(t)) => num'[t] = num[t] /\ maxtrxnum' = maxtrxnum
            /\ \A i \in 1..trxid : ~Open(t, i)
            /\ UNCHANGED <<stmt, written, merge>>
<1>1. /\ trxst \in [Trx -> Stages] /\ num \in [Trx -> 0..maxtrxnum]
      /\ level \in [Trx -> 0..maxtrxnum] /\ maxtrxnum \in Nat
  BY DEF Types
<1>2. CASE UNCHANGED trxs
  BY <1>2 DEF trxs
<1>3. ASSUME NEW u \in Trx, Begin(u)
      PROVE  \/ UNCHANGED <<trxst[t], num[t], level[t]>>
             \/ /\ trxst[t] = "new" /\ trxst'[t] = "begin" /\ num'[t] = num[t]
                /\ level'[t] = maxtrxnum /\ maxtrxnum' = maxtrxnum
                /\ UNCHANGED <<stmt, written, merge>>
  <2>1. /\ trxst[u] = "new" /\ trxst' = [trxst EXCEPT ![u] = "begin"]
        /\ level' = [level EXCEPT ![u] = maxtrxnum]
        /\ UNCHANGED <<num, maxtrxnum, stmt, written, merge>>
    BY <1>3 DEF Begin, trees
  <2> QED
    BY <1>1, <2>1
<1>4. ASSUME NEW u \in Trx, PublishAbortId(u)
      PROVE  UNCHANGED <<trxst[t], num[t], level[t]>>
  BY <1>4 DEF PublishAbortId
<1>5. ASSUME NEW u \in Trx, NEW c \in BOOLEAN, EndTrx(u, c)
      PROVE  \/ UNCHANGED <<trxst[t], num[t], level[t]>>
             \/ /\ trxst[t] = "begin" /\ trxst'[t] \in {"commit", "abort"} /\ level'[t] = level[t]
                /\ trxst'[t] = "commit" /\ Wrote(t) =>
                     num'[t] = maxtrxnum + 1 /\ maxtrxnum' = maxtrxnum + 1
                /\ ~(trxst'[t] = "commit" /\ Wrote(t)) => num'[t] = num[t] /\ maxtrxnum' = maxtrxnum
                /\ \A i \in 1..trxid : ~Open(t, i)
                /\ UNCHANGED <<stmt, written, merge>>
  <2>1. /\ trxst[u] = "begin" /\ trxst' = [trxst EXCEPT ![u] = IF c THEN "commit" ELSE "abort"]
        /\ \A i \in 1..trxid : ~Open(u, i)
        /\ UNCHANGED <<level, stmt, written, merge>>
    BY <1>5 DEF EndTrx, trees
  <2>2. /\ c /\ Wrote(u) => maxtrxnum' = maxtrxnum + 1 /\ num' = [num EXCEPT ![u] = maxtrxnum']
        /\ ~(c /\ Wrote(u)) => maxtrxnum' = maxtrxnum /\ num' = num
    BY <1>5 DEF EndTrx
  <2>3. CASE t # u
    <3>1. num'[t] = num[t]
      BY <1>1, <2>2, <2>3
    <3>2. trxst'[t] = trxst[t]
      BY <1>1, <2>1, <2>3
    <3> QED
      BY <2>1, <3>1, <3>2
  <2>4. CASE t = u
    <3>1. trxst'[t] = IF c THEN "commit" ELSE "abort"
      BY <1>1, <2>1, <2>4
    <3>2. c /\ Wrote(u) => num'[t] = maxtrxnum + 1
      BY <1>1, <2>2, <2>4
    <3> QED
      BY <2>1, <2>2, <2>4, <3>1, <3>2
  <2> QED
    BY <2>3, <2>4
<1> QED
  BY <1>2, <1>3, <1>4, <1>5, Frame

\* A statement keeps its transaction and ends once, while the transaction runs.
LEMMA StmtStep ==
  ASSUME Types, StmtInv, [Next]_vars, NEW i \in 1..trxid
  PROVE  /\ i \in 1..trxid'
         /\ stmt'[i].trx = stmt[i].trx
         /\ \/ stmt'[i] = stmt[i]
            \/ /\ stmt[i].st = "open" /\ stmt'[i].st \in {"done", "aborted"}
               /\ UNCHANGED <<trxs, merge>>
<1>1. stmt \in Seq(StmtType) /\ trxid \in Nat /\ i \in 1..Len(stmt)
  BY DEF Types, trxid
<1>2. CASE stmt' = stmt
  BY <1>2 DEF trxid
<1>3. ASSUME NEW t \in Trx, StmtBegin(t)
      PROVE  i \in 1..trxid' /\ stmt'[i] = stmt[i]
  <2>1. stmt' = Append(stmt, [trx |-> t, st |-> "open"])
    BY <1>3 DEF StmtBegin
  <2> QED
    BY <1>1, <2>1 DEF trxid
<1>4. ASSUME NEW t \in Trx, NEW j \in 1..trxid, StmtCommit(t, j) \/ StmtRollback(t, j)
      PROVE  /\ i \in 1..trxid'
             /\ stmt'[i].trx = stmt[i].trx
             /\ \/ stmt'[i] = stmt[i]
                \/ /\ stmt[i].st = "open" /\ stmt'[i].st \in {"done", "aborted"}
                   /\ UNCHANGED <<trxs, merge>>
  <2>1. PICK x \in {"done", "aborted"} :
          /\ stmt' = [stmt EXCEPT ![j] = [stmt[j] EXCEPT !.st = x]] /\ stmt[j].st = "open"
          /\ UNCHANGED <<trxs, merge>>
    BY <1>4 DEF StmtCommit, StmtRollback, Open
  <2>2. stmt[i] \in StmtType /\ stmt[j] \in StmtType
    BY StmtAt
  <2>3. Len(stmt') = Len(stmt)
    BY <1>1, <2>1
  <2>4. i # j => stmt'[i] = stmt[i]
    BY <1>1, <2>1
  <2>5. i = j => stmt'[i] = [stmt[j] EXCEPT !.st = x]
    BY <1>1, <2>1
  <2>6. [stmt[j] EXCEPT !.st = x].st = x /\ [stmt[j] EXCEPT !.st = x].trx = stmt[j].trx
    BY <2>2 DEF StmtType
  <2> QED
    BY <1>1, <2>1, <2>3, <2>4, <2>5, <2>6 DEF trxid
<1> QED
  BY <1>2, <1>3, <1>4, Frame

\* The end of a statement, once there, is there for good, with its number; a
\* commit that wrote gets a number above all others.
LEMMA FateStep ==
  ASSUME Types, StmtInv, [Next]_vars, NEW i \in 1..trxid
  PROVE  /\ Fate(i) \in {"commit", "abort"} => Fate(i)' = Fate(i)
         /\ Fate(i) = "commit" => num'[stmt'[i].trx] = num[stmt[i].trx]
         /\ Fate(i) # "commit" /\ Fate(i)' = "commit" /\ (\E k \in written : k.id = i) =>
              /\ num'[stmt'[i].trx] = maxtrxnum + 1 /\ maxtrxnum' = maxtrxnum + 1
              /\ merge' = merge
         /\ Fate(i) \in {"begin", "commit", "abort"}
<1>1. /\ stmt[i].trx \in Trx /\ trxst[stmt[i].trx] \in Stages /\ trxst[stmt[i].trx] # "new"
      /\ stmt[i].st \in {"open", "done", "aborted"}
      /\ stmt[i].st = "open" => trxst[stmt[i].trx] = "begin"
  BY StmtAt DEF StmtInv
<1>2. PICK t \in Trx : t = stmt[i].trx
  BY <1>1
<1>3. /\ stmt'[i].trx = t
      /\ \/ stmt'[i] = stmt[i]
         \/ /\ stmt[i].st = "open" /\ stmt'[i].st \in {"done", "aborted"}
            /\ UNCHANGED <<trxs, merge>>
  BY <1>2, StmtStep
<1>4. /\ Fate(i) = IF stmt[i].st = "aborted" THEN "abort" ELSE trxst[t]
      /\ Fate(i)' = IF stmt'[i].st = "aborted" THEN "abort" ELSE trxst'[t]
  BY <1>2, <1>3 DEF Fate
<1>5. (\E k \in written : k.id = i) => Wrote(t)
  BY <1>2 DEF Wrote
<1>6. CASE stmt'[i] = stmt[i]
  <2>1. \/ UNCHANGED <<trxst[t], num[t], level[t]>>
        \/ trxst[t] = "new"
        \/ /\ trxst[t] = "begin" /\ trxst'[t] \in {"commit", "abort"} /\ level'[t] = level[t]
           /\ trxst'[t] = "commit" /\ Wrote(t) =>
                 num'[t] = maxtrxnum + 1 /\ maxtrxnum' = maxtrxnum + 1
           /\ UNCHANGED <<stmt, written, merge>>
    BY TrxStep
  <2> QED
    BY <1>1, <1>2, <1>3, <1>4, <1>5, <1>6, <2>1 DEF Stages
<1>7. CASE stmt[i].st = "open" /\ stmt'[i].st \in {"done", "aborted"} /\ UNCHANGED <<trxs, merge>>
  BY <1>1, <1>2, <1>3, <1>4, <1>7 DEF trxs
<1> QED
  BY <1>3, <1>6, <1>7


-----------------------------------------------------------------------------
(***************************************************************************)
(* The part of the invariant that holds on a full disk too                 *)
(***************************************************************************)

\* Nothing that was counted is taken back.
LEMMA Monotone ==
  ASSUME Types, [Next]_vars
  PROVE  /\ written \subseteq written'
         /\ maxtrxnum \in Nat /\ maxtrxnum' \in Nat /\ maxtrxnum <= maxtrxnum'
         /\ aborttrxid \in Nat /\ aborttrxid' \in Nat /\ aborttrxid <= aborttrxid'
<1>1. written \subseteq written'
  BY Frame DEF Write
<1>2. maxtrxnum \in Nat /\ aborttrxid \in Nat /\ trxid \in Nat /\ pending \in [Trx -> 0..trxid]
  BY DEF Types, trxid
<1>3. maxtrxnum' = maxtrxnum \/ maxtrxnum' = maxtrxnum + 1
  BY Frame DEF trxs, Begin, PublishAbortId, EndTrx
<1>4. aborttrxid' = aborttrxid \/ \E t \in Trx : PublishAbortId(t)
  <2>1. ASSUME NEW t \in Trx,
               \/ Begin(t) \/ StmtBegin(t) \/ \E c \in BOOLEAN : EndTrx(t, c)
               \/ \E i \in 1..trxid : \/ AddStmt(t, i) \/ StmtCommit(t, i) \/ StmtRollback(t, i)
                                      \/ \E r \in Rows, del \in BOOLEAN : Write(t, i, r, del)
        PROVE  aborttrxid' = aborttrxid
    BY <2>1 DEF Begin, StmtBegin, EndTrx, AddStmt, StmtCommit, StmtRollback, Write, buf
  <2>2. CASE \/ MergeStart \/ MergeMark \/ MergeLeaf \/ MergeMove \/ MergeEnd
             \/ MergeError \/ MergeStop \/ MergeClean
    BY <2>2 DEF MergeStart, MergeMark, MergeLeaf, MergeMove, MergeEnd, MergeError, MergeStop,
                MergeClean, buf
  <2>3. CASE \E t \in Readers : SearchOpen(t) \/ SearchStore(t) \/ SearchNext(t) \/ SearchClose(t)
    BY <2>3 DEF SearchOpen, SearchStore, SearchNext, SearchClose, buf
  <2>4. CASE UNCHANGED vars
    BY <2>4 DEF vars, buf
  <2> QED
    BY <2>1, <2>2, <2>3, <2>4 DEF Next
<1>5. ASSUME NEW t \in Trx, PublishAbortId(t)
      PROVE  aborttrxid' \in Nat /\ aborttrxid <= aborttrxid'
  <2>1. pending[t] \in Nat
    BY <1>2
  <2>2. Max({aborttrxid, pending[t]}) = IF aborttrxid >= pending[t] THEN aborttrxid ELSE pending[t]
    BY <1>2, <2>1 DEF Max
  <2> QED
    BY <1>2, <1>5, <2>1, <2>2 DEF PublishAbortId
<1> QED
  BY <1>1, <1>2, <1>3, <1>4, <1>5

\* Statements belong to transactions that run or have run.
LEMMA StmtInvStep ==
  ASSUME Types, StmtInv, [Next]_vars
  PROVE  StmtInv'
<1>1. ASSUME NEW i \in 1..trxid'
      PROVE  /\ trxst'[stmt'[i].trx] # "new"
             /\ stmt'[i].st = "open" => trxst'[stmt'[i].trx] = "begin"
  <2>1. CASE i \in 1..trxid
    <3>1. PICK t \in Trx : t = stmt[i].trx /\ trxst[t] \in Stages
      BY <2>1, StmtAt
    <3>2. trxst[t] # "new" /\ (stmt[i].st = "open" => trxst[t] = "begin" /\ Open(t, i))
      BY <2>1, <3>1 DEF StmtInv, Open
    <3>3. stmt'[i].trx = t /\ (stmt'[i].st = "open" => stmt'[i] = stmt[i])
      BY <2>1, <3>1, StmtStep
    <3>4. \/ trxst'[t] = trxst[t]
          \/ trxst[t] = "new"
          \/ trxst'[t] \in {"commit", "abort"} /\ ~Open(t, i)
      BY <2>1, <3>1, TrxStep
    <3> QED
      BY <3>2, <3>3, <3>4
  <2>2. CASE i \notin 1..trxid
    <3>1. PICK t \in Trx : StmtBegin(t)
      <4>1. stmt' # stmt
        BY <2>2 DEF trxid
      <4>2. ASSUME NEW t \in Trx, NEW j \in 1..trxid, StmtCommit(t, j) \/ StmtRollback(t, j)
            PROVE  Len(stmt') = Len(stmt)
        BY <4>2 DEF StmtCommit, StmtRollback, Types
      <4> QED
        BY <2>2, <4>1, <4>2, Frame DEF trxid
    <3>2. /\ stmt \in Seq(StmtType) /\ stmt' = Append(stmt, [trx |-> t, st |-> "open"])
          /\ trxst[t] = "begin" /\ trxst' = trxst
      BY <3>1 DEF StmtBegin, Types, trxs
    <3>3. i = Len(stmt) + 1
      BY <2>2, <3>2 DEF trxid
    <3>4. stmt'[i] = [trx |-> t, st |-> "open"]
      BY <3>2, <3>3
    <3>5. stmt'[i].trx = t
      BY <3>4
    <3>6. trxst'[t] = "begin"
      BY <3>2
    <3> QED
      BY <3>5, <3>6
  <2> QED
    BY <2>1, <2>2
<1>2. ASSUME NEW k \in written'
      PROVE  /\ k.num = 0 /\ k.id \in 1..trxid'
             /\ trxst'[stmt'[k.id].trx] = "commit" => num'[stmt'[k.id].trx] > 0
  <2>1. CASE k \in written
    <3>1. /\ k.num = 0 /\ k.id \in 1..trxid
          /\ trxst[stmt[k.id].trx] = "commit" => num[stmt[k.id].trx] > 0
      BY <2>1 DEF StmtInv
    <3>2. PICK t \in Trx : t = stmt[k.id].trx /\ trxst[t] \in Stages /\ Wrote(t)
      BY <2>1, <3>1, StmtAt DEF Wrote
    <3>3. stmt'[k.id].trx = t /\ k.id \in 1..trxid'
      BY <3>1, <3>2, StmtStep
    <3>4. trxst[t] # "new"
      BY <3>1, <3>2 DEF StmtInv
    <3>5. \/ trxst'[t] = trxst[t] /\ num'[t] = num[t]
          \/ trxst'[t] = "abort"
          \/ num'[t] = maxtrxnum + 1
      BY <3>2, <3>4, TrxStep
    <3>6. maxtrxnum \in Nat
      BY DEF Types
    <3> QED
      BY <3>1, <3>2, <3>3, <3>5, <3>6
  <2>2. CASE k \notin written
    <3>1. PICK t \in Trx, i \in 1..trxid, r \in Rows, del \in BOOLEAN : Write(t, i, r, del)
      BY <2>2, Frame
    <3>2. k = [row |-> r, del |-> del, id |-> i, num |-> 0]
      BY <2>2, <3>1 DEF Write
    <3>3. /\ stmt[i].trx = t /\ stmt[i].st = "open" /\ UNCHANGED <<trxs, stmt>>
      BY <3>1 DEF Write, Open
    <3>4. trxst[t] = "begin"
      BY <3>3 DEF StmtInv
    <3> QED
      BY <3>2, <3>3, <3>4 DEF trxs, trxid
  <2> QED
    BY <2>1, <2>2
<1> QED
  BY <1>1, <1>2 DEF StmtInv

\* The key of a write.
WriteKey(k) ==
  \E t \in Trx, i \in 1..trxid, r \in Rows, del \in BOOLEAN :
    Write(t, i, r, del) /\ k = [row |-> r, del |-> del, id |-> i, num |-> 0]

\* Where the keys of the Bonsai tree come from.
LEMMA BonsaiStep ==
  ASSUME Types, StmtInv, [Next]_vars, NEW k \in bonsai'
  PROVE  \/ /\ k \in bonsai
            /\ MergeLeaf /\ BonsaiLeaf[<<k.row, k.del>>] = merge.leaf + 1 =>
                 k.num # 0 \/ Lookup(k.id) \notin {"abort", "commit"}
         \/ WriteKey(k)
         \/ \E l : PatchedKey(bonsai, l, k)
<1>1. ASSUME NEW t \in Trx, NEW i \in 1..trxid, NEW r \in Rows, NEW del \in BOOLEAN,
             Write(t, i, r, del)
      PROVE  k \in bonsai \/ WriteKey(k) \/ \E l : PatchedKey(bonsai, l, k)
  <2>1. PICK w : w = [row |-> r, del |-> del, id |-> i, num |-> 0]
    OBVIOUS
  <2>2. CASE k \in bonsai \cup {w}
    BY <1>1, <2>1, <2>2 DEF WriteKey
  <2>3. CASE k \notin bonsai \cup {w}
    <3>0. PICK S : S = bonsai \cup {w}
      OBVIOUS
    <3>1. PICK l : k \in CleanLeaf(S, l)
      BY <1>1, <2>1, <2>3, <3>0 DEF Write
    <3>2. PatchedKey(S, l, k)
      BY <2>3, <3>0, <3>1, CleanLeafProperties
    <3>3. /\ stmt[i].trx = t /\ stmt[i].st = "open" /\ i \in trxbuf
      BY <1>1 DEF Write, Open
    <3>4. Lookup(i) = "begin"
      BY <3>3 DEF StmtInv, Lookup, Fate
    <3>5. w.id = i
      BY <2>1
    <3>6. PatchedKey(bonsai, l, k)
      BY <3>0, <3>2, <3>4, <3>5 DEF PatchedKey
    <3> QED
      BY <3>6
  <2> QED
    BY <2>2, <2>3
<1>2. CASE MergeLeaf
  <2>1. PICK l : l = merge.leaf + 1
    OBVIOUS
  <2>2. k \in CleanLeaf(bonsai, l)
    BY <1>2, <2>1 DEF MergeLeaf
  <2>3. \/ k \in bonsai /\ (BonsaiLeaf[<<k.row, k.del>>] = l => k.num # 0 \/ Lookup(k.id) \notin {"abort", "commit"})
        \/ PatchedKey(bonsai, l, k)
    BY <2>2, CleanLeafProperties
  <2> QED
    BY <2>1, <2>3
<1>3. ASSUME NEW t \in Trx,
             \/ Begin(t) \/ StmtBegin(t) \/ PublishAbortId(t) \/ \E c \in BOOLEAN : EndTrx(t, c)
             \/ \E i \in 1..trxid : AddStmt(t, i) \/ StmtCommit(t, i) \/ StmtRollback(t, i)
      PROVE  k \in bonsai
  BY <1>3 DEF Begin, StmtBegin, PublishAbortId, EndTrx, AddStmt, StmtCommit, StmtRollback, trees
<1>4. ASSUME \/ MergeStart \/ MergeMark \/ MergeMove \/ MergeEnd
             \/ MergeError \/ MergeStop \/ MergeClean
      PROVE  k \in bonsai
  BY <1>4 DEF MergeStart, MergeMark, MergeMove, MergeEnd, MergeError, MergeStop, MergeClean,
              trees, Without
<1>5. ASSUME NEW t \in Readers,
             SearchOpen(t) \/ SearchStore(t) \/ SearchNext(t) \/ SearchClose(t)
      PROVE  k \in bonsai
  BY <1>5 DEF SearchOpen, SearchStore, SearchNext, SearchClose, trees
<1>6. ASSUME UNCHANGED vars
      PROVE  k \in bonsai
  BY <1>6 DEF vars, trees
<1>7. CASE k \in bonsai /\ ~MergeLeaf
  BY <1>7
<1> QED
  BY <1>1, <1>2, <1>3, <1>4, <1>5, <1>6, <1>7 DEF Next


\* A patched key.
LEMMA PatchedFields ==
  ASSUME Types, StmtInv, WrittenInv, NEW l, NEW k, PatchedKey(bonsai, l, k)
  PROVE  \E j \in bonsai :
           /\ j.num = 0 /\ Lookup(j.id) = "commit" /\ j.id \in 1..trxid /\ j \in written
           /\ BonsaiLeaf[<<j.row, j.del>>] = l
           /\ k \in Keys /\ k.row = j.row /\ k.del = j.del /\ k.id = j.id
           /\ k.num = num[stmt[j.id].trx] /\ [k EXCEPT !.num = 0] = j
<1>1. PICK j \in bonsai : /\ j.num = 0 /\ Lookup(j.id) = "commit"
                          /\ BonsaiLeaf[<<j.row, j.del>>] = l
                          /\ k = [j EXCEPT !.num = num[stmt[j.id].trx]]
  BY DEF PatchedKey
<1>2. j \in Keys
  BY DEF Types
<1>3. j = [j EXCEPT !.num = 0]
  <2>1. j = [row |-> j.row, del |-> j.del, id |-> j.id, num |-> j.num]
        /\ [j EXCEPT !.num = 0] = [row |-> j.row, del |-> j.del, id |-> j.id, num |-> 0]
    BY <1>2, KeyFields
  <2> QED
    BY <1>1, <2>1
<1>4. j \in written
  BY <1>3 DEF WrittenInv
<1>5. j.id \in 1..trxid
  BY <1>4 DEF StmtInv
<1>6. PICK n \in Nat : n = num[stmt[j.id].trx]
  BY <1>5, StmtAt
<1>7. k \in Keys /\ k = [row |-> j.row, del |-> j.del, id |-> j.id, num |-> n]
  BY <1>1, <1>2, <1>6, KeyFields
<1>8. [k EXCEPT !.num = 0] = [row |-> k.row, del |-> k.del, id |-> k.id, num |-> 0]
  BY <1>7, KeyFields
<1>9. j = [row |-> j.row, del |-> j.del, id |-> j.id, num |-> 0]
  BY <1>1, <1>2, KeyFields
<1>10. k.row = j.row /\ k.del = j.del /\ k.id = j.id /\ k.num = n
  BY <1>7
<1> QED
  BY <1>1, <1>4, <1>5, <1>6, <1>7, <1>8, <1>9, <1>10

\* Where the keys that the merge and the searches hold come from.
LEMMA HeldStep ==
  ASSUME Types, StmtInv, WrittenInv, [Next]_vars
  PROVE  /\ \A k \in merge'.work :
              \/ k \in merge.work /\ ~MergeClean
              \/ /\ MergeLeaf /\ merge.full /\ k \in bonsai' /\ k.num # 0 /\ k.num <= merge.level
                 /\ BonsaiLeaf[<<k.row, k.del>>] = merge.leaf + 1
         /\ \A t \in Readers : sea'[t].bbuf \subseteq sea[t].bbuf \cup bonsai
<1>1. merge \in MergeType
  BY DEF Types
<1>2. ASSUME NEW k \in merge'.work
      PROVE  \/ k \in merge.work /\ ~MergeClean
             \/ /\ MergeLeaf /\ merge.full /\ k \in bonsai' /\ k.num # 0 /\ k.num <= merge.level
                /\ BonsaiLeaf[<<k.row, k.del>>] = merge.leaf + 1
  <2>1. CASE MergeClean
    <3>1. merge' = [merge EXCEPT !.st = "off", !.work = {}]
      BY <2>1 DEF MergeClean
    <3>2. merge'.work = {}
      BY <1>1, <3>1 DEF MergeType
    <3> QED
      BY <3>2
  <2>2. CASE MergeLeaf
    <3>1. PICK l, b : /\ l = merge.leaf + 1 /\ b = CleanLeaf(bonsai, l) /\ bonsai' = b
                      /\ merge' = [merge EXCEPT !.leaf = l,
                           !.work = IF merge.full
                                    THEN merge.work \cup {j \in InLeaf(b, l) :
                                           j.num # 0 /\ j.num <= merge.level}
                                    ELSE {}]
      BY <2>2 DEF MergeLeaf
    <3>2. merge'.work = IF merge.full
                        THEN merge.work \cup {j \in InLeaf(b, l) :
                                j.num # 0 /\ j.num <= merge.level}
                        ELSE {}
      BY <1>1, <3>1 DEF MergeType
    <3>3. ~MergeClean
      BY <2>2 DEF MergeLeaf, MergeClean, Active
    <3> QED
      BY <2>2, <3>1, <3>2, <3>3 DEF InLeaf
  <2>3. CASE MergeStart
    <3>1. merge'.work = {}
      BY <2>3, MergeStartFields
    <3> QED
      BY <3>1
  <2>4. CASE MergeMove
    <3>1. merge' = [merge EXCEPT !.work = merge.work \ Taken] /\ ~MergeClean
      BY <2>4 DEF MergeMove, Moves, Active, MergeClean
    <3>2. merge'.work = merge.work \ Taken
      BY <1>1, <3>1 DEF MergeType
    <3> QED
      BY <3>1, <3>2
  <2>5. CASE MergeMark \/ MergeEnd \/ MergeError \/ MergeStop
    <3>1. \/ merge' = [merge EXCEPT !.st = "active", !.abortid = aborttrxid]
          \/ merge' = [merge EXCEPT !.ended = TRUE]
          \/ merge' = [merge EXCEPT !.ended = TRUE, !.readonly = TRUE]
          \/ merge' = [merge EXCEPT !.st = "stop"]
      BY <2>5 DEF MergeMark, MergeEnd, MergeError, MergeStop
    <3>2. merge'.work = merge.work
      BY <1>1, <3>1 DEF MergeType
    <3>3. ~MergeClean
      BY <2>5 DEF MergeMark, MergeEnd, MergeError, MergeStop, Active, MergeClean
    <3> QED
      BY <3>2, <3>3
  <2>6. CASE merge' = merge
    BY <2>1, <2>6
  <2> QED
    BY <2>1, <2>2, <2>3, <2>4, <2>5, <2>6, Frame
<1>3. ASSUME NEW t \in Readers
      PROVE  sea'[t].bbuf \subseteq sea[t].bbuf \cup bonsai
  <2>1. ASSUME NEW u \in Readers,
               SearchOpen(u) \/ SearchStore(u) \/ SearchNext(u) \/ SearchClose(u)
        PROVE  sea'[t].bbuf \subseteq sea[t].bbuf \cup bonsai
    <3>1. t # u => sea'[t] = sea[t]
      BY <2>1, SearchSteps
    <3>2. sea'[u].bbuf \subseteq sea[u].bbuf \cup bonsai
      BY <2>1, SearchSteps
    <3> QED
      BY <3>1, <3>2
  <2>2. CASE MergeMark \/ MergeStop
    BY <2>2, MergeSearches
  <2>3. CASE sea' = sea
    BY <2>3
  <2>4. ASSUME NEW u \in Trx,
               \/ Begin(u) \/ StmtBegin(u) \/ PublishAbortId(u) \/ \E c \in BOOLEAN : EndTrx(u, c)
               \/ \E i \in 1..trxid : \/ AddStmt(u, i) \/ StmtCommit(u, i) \/ StmtRollback(u, i)
                                      \/ \E r \in Rows, del \in BOOLEAN : Write(u, i, r, del)
        PROVE  sea' = sea
    BY <2>4 DEF Begin, StmtBegin, PublishAbortId, EndTrx, AddStmt, StmtCommit, StmtRollback, Write
  <2>5. CASE MergeStart \/ MergeLeaf \/ MergeMove \/ MergeEnd \/ MergeError \/ MergeClean
    BY <2>3, <2>5 DEF MergeStart, MergeLeaf, MergeMove, MergeEnd, MergeError, MergeClean
  <2>6. CASE UNCHANGED vars
    BY <2>3, <2>6 DEF vars
  <2> QED
    BY <2>1, <2>2, <2>3, <2>4, <2>5, <2>6 DEF Next
<1> QED
  BY <1>2, <1>3

\* Every key that is held was written.
LEMMA WrittenInvStep ==
  ASSUME Types, StmtInv, WrittenInv, [Next]_vars
  PROVE  WrittenInv'
<1>1. written \subseteq written'
  BY Monotone
<1>2. ASSUME NEW k \in bonsai'
      PROVE  [k EXCEPT !.num = 0] \in written'
  <2>1. CASE k \in bonsai
    BY <1>1, <2>1 DEF WrittenInv
  <2>2. CASE WriteKey(k)
    <3>1. PICK t \in Trx, i \in 1..trxid, r \in Rows, del \in BOOLEAN :
            Write(t, i, r, del) /\ k = [row |-> r, del |-> del, id |-> i, num |-> 0]
      BY <2>2 DEF WriteKey
    <3>2. [k EXCEPT !.num = 0] = k
      BY <3>1
    <3>3. k \in written'
      BY <3>1 DEF Write
    <3> QED
      BY <3>2, <3>3
  <2>3. ASSUME NEW l, PatchedKey(bonsai, l, k)
        PROVE  [k EXCEPT !.num = 0] \in written'
    BY <1>1, <2>3, PatchedFields
  <2> QED
    BY <2>1, <2>2, <2>3, BonsaiStep
<1>3. ASSUME NEW k \in merge'.work
      PROVE  [k EXCEPT !.num = 0] \in written'
  BY <1>1, <1>2, HeldStep DEF WrittenInv
<1>4. ASSUME NEW t \in Readers, NEW k \in sea'[t].bbuf
      PROVE  [k EXCEPT !.num = 0] \in written'
  BY <1>1, HeldStep DEF WrittenInv, Copies
<1> QED
  BY <1>2, <1>3, <1>4 DEF WrittenInv, Copies

\* The searches that a merge has marked stay marked.
LEMMA SearchInvStep ==
  ASSUME Types, StmtInv, WrittenInv, SearchInv, [Next]_vars
  PROVE  SearchInv'
<1>1. SUFFICES ASSUME NEW t \in Readers
               PROVE  /\ sea'[t].st # "on" => sea'[t].bbuf = {}
                      /\ merge'.st = "active" /\ ~InitRace =>
                           /\ sea'[t].st \in {"listed", "on"} => sea'[t].active
                           /\ sea'[t].st = "adding" => sea'[t].seen
  BY DEF SearchInv, Copies
<1>2. /\ sea[t].st # "on" => sea[t].bbuf = {}
      /\ merge.st = "active" /\ ~InitRace =>
           /\ sea[t].st \in {"listed", "on"} => sea[t].active
           /\ sea[t].st = "adding" => sea[t].seen
  BY DEF SearchInv, Copies
<1>3. merge \in MergeType /\ sea[t] \in SearchType
  BY DEF Types
<1>4. CASE MergeMark
  <2>1. ~InitRace => sea[t].st # "adding"
    BY <1>4 DEF MergeMark
  <2>2. /\ sea'[t].st = sea[t].st /\ sea'[t].bbuf \subseteq sea[t].bbuf
        /\ sea[t].st \notin {"new", "end"} => sea'[t].active
    BY <1>4, MergeSearches
  <2> QED
    BY <1>2, <2>1, <2>2
<1>5. CASE MergeStop
  <2>1. merge'.st = "stop"
    BY <1>3, <1>5 DEF MergeStop, MergeType
  <2>2. /\ sea'[t].st = sea[t].st /\ sea'[t].bbuf \subseteq sea[t].bbuf
    BY <1>5, MergeSearches
  <2> QED
    BY <1>2, <2>1, <2>2
<1>6. CASE MergeStart \/ MergeLeaf \/ MergeMove \/ MergeEnd \/ MergeError \/ MergeClean
  <2>1. sea' = sea
    BY <1>6 DEF MergeStart, MergeLeaf, MergeMove, MergeEnd, MergeError, MergeClean
  <2>2. CASE MergeStart
    BY <1>2, <2>1, <2>2, MergeStartFields
  <2>3. CASE MergeLeaf
    <3>1. PICK l, w : merge' = [merge EXCEPT !.leaf = l, !.work = w]
      BY <2>3 DEF MergeLeaf
    <3>2. merge'.st = merge.st
      BY <1>3, <3>1 DEF MergeType
    <3> QED
      BY <1>2, <2>1, <3>2
  <2>4. CASE MergeMove \/ MergeEnd \/ MergeError \/ MergeClean
    <3>1. \/ merge' = [merge EXCEPT !.work = merge.work \ Taken]
          \/ merge' = [merge EXCEPT !.ended = TRUE]
          \/ merge' = [merge EXCEPT !.ended = TRUE, !.readonly = TRUE]
          \/ merge' = [merge EXCEPT !.st = "off", !.work = {}]
      BY <2>4 DEF MergeMove, MergeEnd, MergeError, MergeClean
    <3>2. merge'.st = merge.st \/ merge'.st = "off"
      BY <1>3, <3>1 DEF MergeType
    <3> QED
      BY <1>2, <2>1, <3>2
  <2> QED
    BY <1>6, <2>2, <2>3, <2>4
<1>7. ASSUME NEW u \in Readers,
             SearchOpen(u) \/ SearchStore(u) \/ SearchNext(u) \/ SearchClose(u)
      PROVE  /\ sea'[t].st # "on" => sea'[t].bbuf = {}
             /\ merge'.st = "active" /\ ~InitRace =>
                  /\ sea'[t].st \in {"listed", "on"} => sea'[t].active
                  /\ sea'[t].st = "adding" => sea'[t].seen
  <2>1. merge' = merge /\ (t # u => sea'[t] = sea[t])
    BY <1>7, SearchSteps
  <2>2. t = u =>
            \/ /\ sea[t].st = "new" /\ sea'[t].st = "adding" /\ sea'[t].bbuf = {}
               /\ sea'[t].seen = MergeFlag /\ merge.st # "stop"
            \/ /\ sea[t].st = "adding" /\ sea'[t].st = "listed"
               /\ sea'[t].active = sea[t].seen /\ sea'[t].bbuf = sea[t].bbuf
            \/ /\ sea[t].st \in {"listed", "on"} /\ sea'[t].st = "on"
               /\ sea'[t].active = sea[t].active
               /\ sea'[t].bbuf \subseteq sea[t].bbuf \cup bonsai
            \/ sea'[t].st \in {"new", "end"} /\ sea'[t].bbuf = {}
    BY <1>7, SearchSteps
  <2> QED
    BY <1>2, <2>1, <2>2 DEF MergeFlag
<1>8. ASSUME NEW u \in Trx,
             \/ Begin(u) \/ StmtBegin(u) \/ PublishAbortId(u) \/ \E c \in BOOLEAN : EndTrx(u, c)
             \/ \E i \in 1..trxid : \/ AddStmt(u, i) \/ StmtCommit(u, i) \/ StmtRollback(u, i)
                                    \/ \E r \in Rows, del \in BOOLEAN : Write(u, i, r, del)
      PROVE  sea' = sea /\ merge' = merge
  BY <1>8 DEF Begin, StmtBegin, PublishAbortId, EndTrx, AddStmt, StmtCommit, StmtRollback, Write
<1>9. CASE UNCHANGED vars
  BY <1>2, <1>9 DEF vars
<1>10. CASE sea' = sea /\ merge' = merge
  BY <1>2, <1>10
<1> QED
  BY <1>4, <1>5, <1>6, <1>7, <1>8, <1>9, <1>10 DEF Next

\* The initial state.
LEMMA InitBase ==
  ASSUME Init
  PROVE  BaseInv
<1>1. trxid = 0
  BY DEF Init, trxid
<1>2. MaxId \in Nat /\ Leaves \in Nat /\ Stored \subseteq Rows
  BY BoundsAssumption
<1>3. maxtrxnum = 0 /\ aborttrxid = 0 /\ trxbuf = {} /\ bonsai = {} /\ written = {} /\ storage = Stored
      /\ stmt = << >>
  BY DEF Init
<1>4. merge \in MergeType /\ merge.st = "off" /\ merge.work = {}
  <2>1. merge = [st |-> "off", full |-> FALSE, level |-> 0, patch |-> 0, abortid |-> 0,
          leaf |-> 0, work |-> {}, ended |-> FALSE, readonly |-> FALSE, count |-> 0]
    BY DEF Init, NoMerge
  <2>2. 0 \in 0..maxtrxnum /\ 0 \in 0..aborttrxid /\ 0 \in 0..Leaves
    BY <1>2, <1>3
  <2> QED
    BY <2>1, <2>2 DEF MergeType
<1>5. /\ sea \in [Readers -> SearchType]
      /\ \A t \in Readers : sea[t].st = "new" /\ sea[t].bbuf = {}
  <2>1. NoSearch \in SearchType /\ NoSearch.st = "new" /\ NoSearch.bbuf = {}
    BY DEF NoSearch, SearchType
  <2> QED
    BY <2>1 DEF Init
<1>6. /\ trxst \in [Trx -> Stages] /\ num \in [Trx -> 0..maxtrxnum]
      /\ level \in [Trx -> 0..maxtrxnum] /\ pending \in [Trx -> 0..trxid]
  BY <1>1, <1>3 DEF Init, Stages
<1>7. Types
  BY <1>1, <1>2, <1>3, <1>4, <1>5, <1>6 DEF Types
<1>8. StmtInv /\ WrittenInv /\ SearchInv
  BY <1>1, <1>3, <1>4, <1>5 DEF StmtInv, WrittenInv, SearchInv, Copies
<1> QED
  BY <1>7, <1>8 DEF BaseInv

\* This part is an invariant.
LEMMA BaseInvariant ==
  Spec => []BaseInv
<1>1. Init => BaseInv
  BY InitBase
<1>2. BaseInv /\ [Next]_vars => BaseInv'
  BY TypesStep, StmtInvStep, WrittenInvStep, SearchInvStep DEF BaseInv
<1> QED
  BY <1>1, <1>2, PTL DEF Spec

\* TypeOK: the structures of the buffer, the trees and the merge stay within
\* their types, on a full disk and with a race of a new search too.
THEOREM TypeCorrect ==
  Spec => []TypeOK
<1>1. BaseInv => TypeOK
  <2> SUFFICES ASSUME BaseInv
               PROVE  TypeOK
    OBVIOUS
  <2>1. Types /\ StmtInv /\ WrittenInv
    BY DEF BaseInv
  <2>2. \A i \in 1..trxid : stmt[i].st \in {"open", "done", "aborted"}
    BY <2>1, StmtAt
  <2>3. {[k EXCEPT !.num = 0] : k \in bonsai \cup merge.work} \subseteq written
    BY <2>1 DEF WrittenInv
  <2>4. merge.level \in 0..maxtrxnum /\ merge.patch \in 0..maxtrxnum /\ merge.leaf \in 0..Leaves
    BY <2>1 DEF Types, MergeType
  <2> QED
    BY <2>1, <2>2, <2>3, <2>4 DEF TypeOK, Types, Stages
<1> QED
  BY <1>1, BaseInvariant, PTL

\* SearchesMarked: while a merge is active every search in the list is marked,
\* unless a search reads the merge flag before and stores it after
\* dbe_indsea_setmergestart.
THEOREM SearchesMarkedCorrect ==
  ASSUME ~InitRace
  PROVE  Spec => []SearchesMarked
<1>1. BaseInv => SearchesMarked
  BY DEF BaseInv, SearchInv, SearchesMarked
<1> QED
  BY <1>1, BaseInvariant, PTL


-----------------------------------------------------------------------------
(***************************************************************************)
(* How the end of a key is found                                           *)
(***************************************************************************)

\* A key of the buffer or with a number is found to have ended as it has.
LEMMA KeyFate ==
  ASSUME NEW k, KeyOK(k)
  PROVE  FateKnown(k)
  BY DEF KeyOK, FateKnown, Lookup

\* A patched key has the number of its commit.
LEMMA PatchedKnown ==
  ASSUME Types, StmtInv, WrittenInv, KeysInv, NEW l, NEW k, PatchedKey(bonsai, l, k)
  PROVE  /\ KeyOK(k) /\ k.num # 0 /\ k \in Keys /\ [k EXCEPT !.num = 0] \in bonsai
         /\ BonsaiLeaf[<<k.row, k.del>>] = l
<1>1. PICK j \in bonsai :
           /\ j.num = 0 /\ Lookup(j.id) = "commit" /\ j.id \in 1..trxid /\ j \in written
           /\ BonsaiLeaf[<<j.row, j.del>>] = l
           /\ k \in Keys /\ k.row = j.row /\ k.del = j.del /\ k.id = j.id
           /\ k.num = num[stmt[j.id].trx] /\ [k EXCEPT !.num = 0] = j
  BY PatchedFields
<1>2. Fate(j.id) = "commit"
  BY <1>1, KeyFate DEF KeysInv, FateKnown
<1>3. trxst[stmt[j.id].trx] = "commit"
  BY <1>2 DEF Fate
<1>4. num[stmt[j.id].trx] > 0
  BY <1>1, <1>3 DEF StmtInv
<1> QED
  BY <1>1, <1>2, <1>4 DEF KeyOK

\* What the end of the merge takes from the buffer no key needs any more.
LEMMA BufStep ==
  ASSUME FateInv, ~EarlyErrors, [Next]_vars, NEW k,
         \/ k \in bonsai \cup merge'.work
         \/ \E t \in Readers : k \in Copies(t),
         k.num = 0, k.id \in trxbuf
  PROVE  k.id \in trxbuf' \/ (Fate(k.id) = "abort" /\ k.id <= aborttrxid')
<1>1. Types /\ PatchInv
  BY DEF FateInv, BaseInv
<1>2. CASE MergeClean
  <2>1. CASE ~merge.ended
    BY <1>2, <2>1 DEF MergeClean
  <2>2. CASE merge.ended /\ Unneeded(k.id)
    <3>1. merge.leaf = Leaves /\ merge.st = "stop"
      BY <1>1, <1>2, <2>2 DEF PatchInv, MergeClean
    <3>2. merge'.work = {}
      BY <1>1, <1>2, HeldStep DEF FateInv, BaseInv, MergeClean, Active, MergeLeaf
    <3>3. PatchedOK(k)
      <4>1. CASE k \in bonsai
        <5>1. k.row \in Rows /\ k.del \in BOOLEAN
          BY <1>1, <4>1, KeyFields DEF Types
        <5>2. BonsaiLeaf[<<k.row, k.del>>] \in 1..Leaves
          BY <5>1, LeavesAssumption
        <5>3. BonsaiLeaf[<<k.row, k.del>>] <= merge.leaf
          BY <3>1, <5>2
        <5> QED
          BY <1>1, <4>1, <5>3 DEF PatchInv
      <4>2. CASE \E t \in Readers : k \in Copies(t)
        BY <1>1, <2>2, <3>1, <4>2 DEF PatchInv
      <4> QED
        BY <3>2, <4>1, <4>2
    <3>4. Fate(k.id) = "abort" /\ k.id <= merge.abortid
      <4>1. k.id \in 1..trxid
        BY <1>1 DEF Types
      <4>2. num[stmt[k.id].trx] \in Nat /\ merge.patch \in Nat
        BY <1>1, <4>1, StmtAt, MergeFields
      <4> QED
        BY <2>2, <3>3, <4>2 DEF Unneeded, PatchedOK
    <3>5. merge.abortid <= aborttrxid' /\ k.id \in Nat
      <4>1. k.id \in 1..trxid
        BY <1>1 DEF Types
      <4>2. merge.abortid \in Nat /\ merge.abortid <= aborttrxid
        BY <1>1, MergeFields
      <4>3. aborttrxid \in Nat /\ aborttrxid' \in Nat /\ aborttrxid <= aborttrxid'
        BY <1>1, Monotone
      <4>4. merge.abortid <= aborttrxid'
        BY <4>2, <4>3
      <4> QED
        BY <4>1, <4>4
    <3>6. merge.abortid \in Nat /\ aborttrxid' \in Nat
      BY <1>1, MergeFields, Monotone
    <3> QED
      BY <3>4, <3>5, <3>6
  <2>3. CASE ~Unneeded(k.id)
    BY <1>2, <2>3 DEF MergeClean
  <2> QED
    BY <2>1, <2>2, <2>3
<1>3. ASSUME NEW t \in Trx,
             \/ Begin(t) \/ StmtBegin(t) \/ PublishAbortId(t) \/ \E c \in BOOLEAN : EndTrx(t, c)
             \/ \E i \in 1..trxid : \/ AddStmt(t, i) \/ StmtCommit(t, i) \/ StmtRollback(t, i)
                                    \/ \E r \in Rows, del \in BOOLEAN : Write(t, i, r, del)
      PROVE  trxbuf \subseteq trxbuf'
  BY <1>3 DEF Begin, StmtBegin, PublishAbortId, EndTrx, AddStmt, StmtCommit, StmtRollback, Write, buf
<1>4. ASSUME \/ MergeStart \/ MergeMark \/ MergeLeaf \/ MergeMove \/ MergeEnd
             \/ MergeError \/ MergeStop
      PROVE  trxbuf' = trxbuf
  BY <1>4 DEF MergeStart, MergeMark, MergeLeaf, MergeMove, MergeEnd, MergeError, MergeStop, buf
<1>5. ASSUME NEW t \in Readers,
             SearchOpen(t) \/ SearchStore(t) \/ SearchNext(t) \/ SearchClose(t)
      PROVE  trxbuf' = trxbuf
  BY <1>5 DEF SearchOpen, SearchStore, SearchNext, SearchClose, buf
<1>6. ASSUME UNCHANGED vars
      PROVE  trxbuf' = trxbuf
  BY <1>6 DEF vars, buf
<1> QED
  BY <1>2, <1>3, <1>4, <1>5, <1>6 DEF Next

\* The identity of a key that is held.
LEMMA HeldIds ==
  ASSUME BaseInv, NEW k,
         \/ k \in bonsai \cup merge.work
         \/ \E t \in Readers : k \in Copies(t)
  PROVE  /\ k \in Keys /\ [k EXCEPT !.num = 0] \in written
         /\ k.id \in 1..trxid /\ \E j \in written : j.id = k.id
<1>1. Types /\ StmtInv /\ WrittenInv
  BY DEF BaseInv
<1>2. k \in Keys
  <2>1. CASE k \in bonsai \cup merge.work
    BY <1>1, <2>1, MergeFields DEF Types
  <2>2. ASSUME NEW t \in Readers, k \in sea[t].bbuf
        PROVE  k \in Keys
    <3>1. sea[t] \in SearchType
      BY <1>1 DEF Types
    <3> QED
      BY <2>2, <3>1, SearchFields
  <2> QED
    BY <2>1, <2>2 DEF Copies
<1>3. [k EXCEPT !.num = 0] \in written
  BY <1>1 DEF WrittenInv
<1>4. [k EXCEPT !.num = 0].id = k.id
  BY <1>2, KeyFields
<1>5. k.id \in 1..trxid
  BY <1>1, <1>2, <1>3, KeyIds
<1> QED
  BY <1>2, <1>3, <1>4, <1>5

\* A key that is held keeps its end.
LEMMA KeyKept ==
  ASSUME FateInv, ~EarlyErrors, [Next]_vars, NEW k,
         \/ k \in bonsai \cup merge'.work
         \/ \E t \in Readers : k \in Copies(t),
         k.id \in 1..trxid, KeyOK(k)
  PROVE  KeyOK(k)'
<1>1. Types /\ StmtInv
  BY DEF FateInv, BaseInv
<1>2. /\ Fate(k.id) \in {"commit", "abort"} => Fate(k.id)' = Fate(k.id)
      /\ Fate(k.id) = "commit" => num'[stmt'[k.id].trx] = num[stmt[k.id].trx]
  BY <1>1, FateStep
<1>3. CASE k.num # 0
  BY <1>2, <1>3 DEF KeyOK
<1>4. CASE k.num = 0 /\ k.id \in trxbuf
  <2>1. k.id \in trxbuf' \/ (Fate(k.id) = "abort" /\ k.id <= aborttrxid')
    BY <1>4, BufStep
  <2> QED
    BY <1>2, <1>4, <2>1 DEF KeyOK
<1>5. CASE k.num = 0 /\ k.id \notin trxbuf
  <2>1. Fate(k.id) = "abort" /\ k.id <= aborttrxid
    BY <1>5 DEF KeyOK
  <2>2. k.id \in Nat /\ aborttrxid \in Nat /\ aborttrxid' \in Nat /\ aborttrxid <= aborttrxid'
    BY <1>1, Monotone
  <2>3. k.id <= aborttrxid'
    BY <2>1, <2>2
  <2> QED
    BY <1>2, <1>5, <2>1, <2>3 DEF KeyOK
<1> QED
  BY <1>3, <1>4, <1>5

\* The end of every key that is held stays known.
LEMMA KeysInvStep ==
  ASSUME FateInv, ~EarlyErrors, [Next]_vars
  PROVE  KeysInv'
<1>1. BaseInv /\ Types /\ StmtInv /\ WrittenInv /\ KeysInv
  BY DEF FateInv, BaseInv
<1>2. ASSUME NEW k \in bonsai
      PROVE  KeyOK(k)'
  BY <1>1, <1>2, HeldIds, KeyKept DEF KeysInv
<1>3. ASSUME NEW k \in bonsai'
      PROVE  KeyOK(k)'
  <2>1. CASE WriteKey(k)
    <3>1. PICK t \in Trx, i \in 1..trxid, r \in Rows, del \in BOOLEAN :
            Write(t, i, r, del) /\ k = [row |-> r, del |-> del, id |-> i, num |-> 0]
      BY <2>1 DEF WriteKey
    <3>2. k.id = i /\ k.num = 0 /\ i \in trxbuf'
      BY <3>1 DEF Write, buf
    <3> QED
      BY <3>2 DEF KeyOK
  <2>2. ASSUME NEW l, PatchedKey(bonsai, l, k)
        PROVE  KeyOK(k)'
    <3>1. KeyOK(k) /\ k.num # 0 /\ k \in Keys /\ [k EXCEPT !.num = 0] \in bonsai
      BY <1>1, <2>2, PatchedKnown
    <3>2. [k EXCEPT !.num = 0].id = k.id
      BY <3>1, KeyFields
    <3>3. k.id \in 1..trxid
      BY <1>1, <3>1, <3>2, HeldIds
    <3>4. /\ Fate(k.id) \in {"commit", "abort"} => Fate(k.id)' = Fate(k.id)
          /\ Fate(k.id) = "commit" => num'[stmt'[k.id].trx] = num[stmt[k.id].trx]
      BY <1>1, <3>3, FateStep
    <3> QED
      BY <3>1, <3>4 DEF KeyOK
  <2> QED
    BY <1>1, <1>2, <2>1, <2>2, BonsaiStep
<1>4. ASSUME NEW k \in merge'.work
      PROVE  KeyOK(k)'
  <2>1. k \in merge.work \/ k \in bonsai'
    BY <1>1, HeldStep
  <2>2. CASE k \in merge.work
    BY <1>1, <1>4, <2>2, HeldIds, KeyKept DEF KeysInv
  <2> QED
    BY <1>3, <2>1, <2>2
<1>5. ASSUME NEW t \in Readers, NEW k \in sea'[t].bbuf
      PROVE  KeyOK(k)'
  <2>1. k \in sea[t].bbuf \/ k \in bonsai
    BY <1>1, HeldStep
  <2>2. CASE k \in sea[t].bbuf
    BY <1>1, <2>2, HeldIds, KeyKept DEF KeysInv, Copies
  <2> QED
    BY <1>2, <2>1, <2>2
<1> QED
  BY <1>3, <1>4, <1>5 DEF KeysInv, Copies

\* A key that need not be patched stays one.
LEMMA PatchKept ==
  ASSUME Types, StmtInv, [Next]_vars, merge'.patch = merge.patch,
         NEW k, k.id \in 1..trxid, \E j \in written : j.id = k.id, PatchedOK(k)
  PROVE  PatchedOK(k)'
<1>1. /\ Fate(k.id) = "commit" => num'[stmt'[k.id].trx] = num[stmt[k.id].trx]
      /\ Fate(k.id) # "commit" /\ Fate(k.id)' = "commit" =>
           num'[stmt'[k.id].trx] = maxtrxnum + 1
  BY FateStep
<1>2. merge.patch \in Nat /\ merge.patch <= maxtrxnum /\ maxtrxnum \in Nat
  BY MergeFields DEF Types
<1> QED
  BY <1>1, <1>2 DEF PatchedOK

\* How the merge goes on.
LEMMA MergeProgress ==
  ASSUME Types, StmtInv, WrittenInv, [Next]_vars
  PROVE  \/ MergeStart
         \/ /\ merge'.patch = merge.patch
            /\ merge'.leaf = merge.leaf \/ (MergeLeaf /\ merge'.leaf = merge.leaf + 1)
            /\ \/ merge'.ended = merge.ended
               \/ (EarlyErrors \/ merge.leaf = Leaves) /\ merge'.leaf = merge.leaf /\ merge.st = "active"
            /\ merge'.st = "stop" => (merge.st = "stop" /\ ~MergeLeaf) \/ MergeStop
<1>1. merge \in MergeType
  BY DEF Types
<1>2. CASE merge' = merge
  <2>1. ~MergeLeaf
    <3>1. merge.leaf \in Nat
      BY MergeFields
    <3>2. MergeLeaf => merge'.leaf = merge.leaf + 1
      BY <1>1 DEF MergeLeaf, MergeType
    <3> QED
      BY <1>2, <3>1, <3>2
  <2> QED
    BY <1>2, <2>1
<1>3. CASE MergeLeaf
  <2>1. PICK w : merge' = [merge EXCEPT !.leaf = merge.leaf + 1, !.work = w]
    BY <1>3 DEF MergeLeaf
  <2>2. /\ merge'.patch = merge.patch /\ merge'.leaf = merge.leaf + 1
        /\ merge'.ended = merge.ended /\ merge'.st = merge.st
    BY <1>1, <2>1 DEF MergeType
  <2> QED
    BY <1>3, <2>2 DEF MergeLeaf, Active
<1>4. CASE MergeMark \/ MergeMove \/ MergeEnd \/ MergeError \/ MergeStop \/ MergeClean
  <2>1. \/ merge' = [merge EXCEPT !.st = "active", !.abortid = aborttrxid]
        \/ merge' = [merge EXCEPT !.work = merge.work \ Taken] /\ merge.st = "active"
        \/ merge' = [merge EXCEPT !.ended = TRUE] /\ merge.st = "active" /\ merge.leaf = Leaves
        \/ /\ merge' = [merge EXCEPT !.ended = TRUE, !.readonly = TRUE]
           /\ merge.st = "active" /\ (EarlyErrors \/ merge.leaf = Leaves)
        \/ merge' = [merge EXCEPT !.st = "stop"] /\ MergeStop
        \/ merge' = [merge EXCEPT !.st = "off", !.work = {}]
    BY <1>4 DEF MergeMark, MergeMove, MergeEnd, MergeError, MergeStop, MergeClean, Moves, Active
  <2> QED
    BY <1>1, <2>1 DEF MergeType
<1> QED
  BY <1>2, <1>3, <1>4, Frame


\* The merge patches what it visits, and no copy is older.
LEMMA PatchInvStep ==
  ASSUME FateInv, [Next]_vars
  PROVE  PatchInv'
<1>1. BaseInv /\ Types /\ StmtInv /\ WrittenInv /\ SearchInv /\ KeysInv /\ PatchInv
  BY DEF FateInv, BaseInv
<1>2. /\ merge.leaf \in Nat /\ merge.leaf <= Leaves /\ Leaves \in Nat
  BY <1>1, MergeFields
<1>3. \A k \in Keys : BonsaiLeaf[<<k.row, k.del>>] \in 1..Leaves
  BY KeyFields, LeavesAssumption
<1>4. Types' /\ bonsai' \subseteq Keys
  BY <1>1, TypesStep DEF Types
<1>5. ASSUME NEW k \in bonsai', BonsaiLeaf[<<k.row, k.del>>] <= merge'.leaf
      PROVE  PatchedOK(k)'
  <2>1. CASE MergeStart
    <3>1. merge'.leaf = 0
      BY <1>1, <2>1, MergeStartFields
    <3>2. BonsaiLeaf[<<k.row, k.del>>] \in 1..Leaves
      BY <1>3, <1>4
    <3> QED
      BY <1>2, <1>5, <3>1, <3>2
  <2>2. CASE k \in bonsai /\ ~MergeStart
    <3>1. /\ merge'.patch = merge.patch
          /\ merge'.leaf = merge.leaf \/ (MergeLeaf /\ merge'.leaf = merge.leaf + 1)
      BY <1>1, <2>2, MergeProgress
    <3>2. BonsaiLeaf[<<k.row, k.del>>] \in 1..Leaves
      BY <1>3, <1>4
    <3>3. k.id \in 1..trxid /\ \E j \in written : j.id = k.id
      BY <1>1, <2>2, HeldIds
    <3>4. CASE BonsaiLeaf[<<k.row, k.del>>] <= merge.leaf
      <4>1. PatchedOK(k)
        BY <1>1, <2>2, <3>4 DEF PatchInv
      <4> QED
        BY <1>1, <3>1, <3>3, <4>1, PatchKept
    <3>5. CASE ~(BonsaiLeaf[<<k.row, k.del>>] <= merge.leaf)
      <4>1. MergeLeaf /\ BonsaiLeaf[<<k.row, k.del>>] = merge.leaf + 1
        BY <1>2, <1>5, <3>1, <3>2, <3>5
      <4>2. \/ k.num # 0 \/ Lookup(k.id) \notin {"abort", "commit"}
            \/ WriteKey(k)
            \/ \E l : PatchedKey(bonsai, l, k)
        BY <1>1, <4>1, BonsaiStep
      <4>3. CASE k.num # 0
        BY <4>3 DEF PatchedOK
      <4>4. CASE k.num = 0 /\ Lookup(k.id) \notin {"abort", "commit"}
        <5>1. Lookup(k.id) = Fate(k.id)
          BY <1>1, <2>2, <4>4, KeyFate DEF KeysInv, FateKnown
        <5>2. PatchedOK(k)
          BY <4>4, <5>1 DEF PatchedOK
        <5> QED
          BY <1>1, <3>1, <3>3, <5>2, PatchKept
      <4>5. CASE WriteKey(k)
        <5>1. \E t \in Trx, i \in 1..trxid, r \in Rows, del \in BOOLEAN : Write(t, i, r, del)
          BY <4>5 DEF WriteKey
        <5>2. merge' = merge
          BY <5>1 DEF Write
        <5>3. merge'.leaf = merge.leaf + 1
          BY <1>2, <1>5, <3>1, <3>5
        <5> QED
          BY <1>2, <5>2, <5>3
      <4>6. ASSUME NEW l, PatchedKey(bonsai, l, k)
            PROVE  PatchedOK(k)'
        <5>1. k.num # 0
          BY <1>1, <4>6, PatchedKnown
        <5> QED
          BY <5>1 DEF PatchedOK
      <4> QED
        BY <4>2, <4>3, <4>4, <4>5, <4>6
    <3> QED
      BY <3>4, <3>5
  <2>3. CASE WriteKey(k)
    <3>1. PICK t \in Trx, i \in 1..trxid, r \in Rows, del \in BOOLEAN :
            Write(t, i, r, del) /\ k = [row |-> r, del |-> del, id |-> i, num |-> 0]
      BY <2>3 DEF WriteKey
    <3>2. k.id = i /\ UNCHANGED <<trxs, stmt>> /\ stmt[i].st = "open"
      BY <3>1 DEF Write, Open
    <3>3. trxst[stmt[i].trx] = "begin"
      BY <1>1, <3>2 DEF StmtInv
    <3>4. Fate(k.id)' = "begin"
      BY <3>2, <3>3 DEF Fate, trxs
    <3> QED
      BY <3>4 DEF PatchedOK
  <2>4. ASSUME NEW l, PatchedKey(bonsai, l, k)
        PROVE  PatchedOK(k)'
    <3>1. k.num # 0
      BY <1>1, <2>4, PatchedKnown
    <3> QED
      BY <3>1 DEF PatchedOK
  <2> QED
    BY <1>1, <2>1, <2>2, <2>3, <2>4, BonsaiStep
<1>6. ASSUME NEW k \in merge'.work
      PROVE  k.num # 0
  BY <1>1, HeldStep DEF PatchInv
<1>7. merge'.ended => EarlyErrors \/ merge'.leaf = Leaves
  <2>1. CASE MergeStart
    BY <1>1, <2>1, MergeStartFields
  <2>2. CASE ~MergeStart
    <3>1. /\ merge'.leaf = merge.leaf \/ (MergeLeaf /\ merge'.leaf = merge.leaf + 1)
          /\ \/ merge'.ended = merge.ended
             \/ (EarlyErrors \/ merge.leaf = Leaves) /\ merge'.leaf = merge.leaf
      BY <1>1, <2>2, MergeProgress
    <3>2. MergeLeaf => ~merge.ended /\ merge.leaf < Leaves
      BY DEF MergeLeaf, Active
    <3> QED
      BY <1>1, <1>2, <3>1, <3>2 DEF PatchInv
  <2> QED
    BY <2>1, <2>2
<1>8. ASSUME merge'.st = "stop", merge'.ended, ~EarlyErrors, NEW t \in Readers, NEW k \in sea'[t].bbuf
      PROVE  PatchedOK(k)'
  <2>1. ~MergeStart
    BY <1>1, <1>8, MergeStartFields
  <2>2. /\ merge'.patch = merge.patch
        /\ (merge.st = "stop" /\ ~MergeLeaf) \/ MergeStop
    BY <1>1, <1>8, <2>1, MergeProgress
  <2>3. CASE MergeStop
    <3>1. sea[t].st # "on" => sea[t].bbuf = {}
      BY <1>1 DEF SearchInv, Copies
    <3>2. sea'[t].bbuf \subseteq sea[t].bbuf /\ (sea[t].st = "on" => sea'[t].bbuf = {})
      BY <1>1, <2>3, MergeSearches
    <3> QED
      BY <1>8, <3>1, <3>2
  <2>4. CASE merge.st = "stop" /\ ~MergeLeaf
    <3>1. merge.ended /\ merge.leaf = Leaves
      <4>1. \/ merge'.ended = merge.ended
            \/ merge.st = "active"
        BY <1>1, <2>1, MergeProgress
      <4>2. merge.ended
        BY <1>8, <2>4, <4>1
      <4> QED
        BY <1>1, <1>8, <4>2 DEF PatchInv
    <3>2. k \in sea[t].bbuf \/ k \in bonsai
      BY <1>1, <1>8, HeldStep
    <3>3. k.id \in 1..trxid /\ \E j \in written : j.id = k.id
      BY <1>1, <3>2, HeldIds DEF Copies
    <3>4. PatchedOK(k)
      <4>1. CASE k \in sea[t].bbuf
        BY <1>1, <1>8, <2>4, <3>1, <4>1 DEF PatchInv, Copies
      <4>2. CASE k \in bonsai
        <5>1. BonsaiLeaf[<<k.row, k.del>>] \in 1..Leaves
          BY <1>1, <1>3, <4>2 DEF Types
        <5>2. BonsaiLeaf[<<k.row, k.del>>] <= merge.leaf
          BY <1>2, <3>1, <5>1
        <5> QED
          BY <1>1, <4>2, <5>2 DEF PatchInv
      <4> QED
        BY <3>2, <4>1, <4>2
    <3> QED
      BY <1>1, <2>2, <3>3, <3>4, PatchKept
  <2> QED
    BY <2>2, <2>3, <2>4
<1> QED
  BY <1>5, <1>6, <1>7, <1>8 DEF PatchInv, Copies

\* The initial state.
LEMMA InitFate ==
  ASSUME Init
  PROVE  FateInv
<1>1. BaseInv
  BY InitBase
<1>2. bonsai = {} /\ merge = NoMerge /\ sea = [t \in Readers |-> NoSearch]
  BY DEF Init
<1>3. \A t \in Readers : sea[t].bbuf = {}
  BY <1>2 DEF NoSearch
<1>4. merge.work = {} /\ ~merge.ended /\ merge.st = "off"
  BY <1>2 DEF NoMerge
<1> QED
  BY <1>1, <1>2, <1>3, <1>4 DEF FateInv, KeysInv, PatchInv, Copies

\* Without errors before the last leaf the end of every key is known.
LEMMA FateInvariant ==
  ASSUME ~EarlyErrors
  PROVE  Spec => []FateInv
<1>1. Init => FateInv
  BY InitFate
<1>2. FateInv /\ [Next]_vars => FateInv'
  <2> SUFFICES ASSUME FateInv, [Next]_vars
               PROVE  FateInv'
    OBVIOUS
  <2>1. BaseInv'
    BY TypesStep, StmtInvStep, WrittenInvStep, SearchInvStep DEF FateInv, BaseInv
  <2> QED
    BY <2>1, KeysInvStep, PatchInvStep DEF FateInv
<1> QED
  BY <1>1, <1>2, PTL DEF Spec

\* KeyFateKnown: dbe_trxbuf_gettrxstate tells for every key that a search or the
\* merge still holds how it ended, unless a merge that ran out of disk space
\* counts as ended before its last leaf.
THEOREM KeyFateKnownCorrect ==
  ASSUME ~EarlyErrors
  PROVE  Spec => []KeyFateKnown
<1>1. FateInv => KeyFateKnown
  <2> SUFFICES ASSUME FateInv,
                      NEW k \in bonsai \cup merge.work \cup UNION {sea[t].bbuf : t \in Readers}
               PROVE  FateKnown(k)
    BY DEF KeyFateKnown
  <2>1. KeysInv
    BY DEF FateInv
  <2>2. CASE k \in bonsai \cup merge.work
    BY <2>1, <2>2, KeyFate DEF KeysInv
  <2>3. CASE \E t \in Readers : k \in sea[t].bbuf
    BY <2>1, <2>3, KeyFate DEF KeysInv, Copies
  <2> QED
    BY <2>2, <2>3
<1> QED
  BY <1>1, FateInvariant, PTL


-----------------------------------------------------------------------------
(***************************************************************************)
(* The rows of the two trees                                               *)
(***************************************************************************)

\* A key without its number.
LEMMA PlainKey ==
  ASSUME NEW k \in Keys, NEW p, p = [k EXCEPT !.num = 0]
  PROVE  /\ p \in Keys /\ p.row = k.row /\ p.del = k.del /\ p.id = k.id /\ p.num = 0
         /\ k.num = 0 => p = k
         /\ [p EXCEPT !.num = 0] = p
<1>1. p \in Keys /\ p = [row |-> k.row, del |-> k.del, id |-> k.id, num |-> 0]
  BY KeyFields
<1>2. k = [row |-> k.row, del |-> k.del, id |-> k.id, num |-> k.num]
  BY KeyFields
<1>3. p.row = k.row /\ p.del = k.del /\ p.id = k.id /\ p.num = 0
  BY <1>1
<1>4. [p EXCEPT !.num = 0] = p
  BY <1>1
<1> QED
  BY <1>1, <1>2, <1>3, <1>4

\* Two keys with the same fields.
LEMMA SameKey ==
  ASSUME NEW j \in Keys, NEW k \in Keys,
         j.row = k.row, j.del = k.del, j.id = k.id, j.num = k.num
  PROVE  j = k
<1>1. /\ j = [row |-> j.row, del |-> j.del, id |-> j.id, num |-> j.num]
      /\ k = [row |-> k.row, del |-> k.del, id |-> k.id, num |-> k.num]
  BY KeyFields
<1> QED
  BY <1>1

\* Keys are ordered by their rows, and no two have the same position.
LEMMA PosOrder ==
  ASSUME NEW j \in Keys, NEW k \in Keys
  PROVE  /\ j.row < k.row => Pos(j) < Pos(k)
         /\ Pos(j) <= Pos(k) => j.row <= k.row
         /\ Pos(j) = Pos(k) => j.row = k.row /\ j.del = k.del /\ j.id = k.id
<1>1. /\ j.row \in Nat /\ j.id \in 0..MaxId /\ j.del \in BOOLEAN
      /\ k.row \in Nat /\ k.id \in 0..MaxId /\ k.del \in BOOLEAN /\ MaxId \in Nat
  BY KeyFields
<1>2. PICK m \in Nat : m = MaxId + 1
  BY <1>1
<1>3. PICK c \in Nat : c = 2 * m
  BY <1>2
<1>4. PICK a \in Nat : a = (IF j.del THEN 0 ELSE m) + j.id
  BY <1>1, <1>2
<1>5. PICK b \in Nat : b = (IF k.del THEN 0 ELSE m) + k.id
  BY <1>1, <1>2
<1>6. a < c /\ b < c
  BY <1>1, <1>2, <1>3, <1>4, <1>5
<1>7. Pos(j) = c * j.row + a /\ Pos(k) = c * k.row + b
  BY <1>1, <1>2, <1>3, <1>4, <1>5 DEF Pos
<1>8. a = b => j.del = k.del /\ j.id = k.id
  BY <1>1, <1>2, <1>4, <1>5
<1>9. ASSUME NEW x \in Nat, NEW y \in Nat, x < y
      PROVE  c * x + c <= c * y /\ c * x \in Nat /\ c * y \in Nat
  <2>1. PICK z \in Nat : y = x + 1 + z
    <3>1. y - x - 1 \in Nat /\ y = x + 1 + (y - x - 1)
      BY <1>9
    <3> QED
      BY <3>1
  <2>2. c * y = c * x + c + c * z
    BY <2>1
  <2>3. c * z \in Nat /\ c * x \in Nat /\ c * y \in Nat
    BY <2>1
  <2> QED
    BY <2>2, <2>3
<1>10. j.row < k.row => Pos(j) < Pos(k)
  BY <1>1, <1>6, <1>7, <1>9
<1>11. k.row < j.row => Pos(k) < Pos(j)
  BY <1>1, <1>6, <1>7, <1>9
<1>12. Pos(j) \in Nat /\ Pos(k) \in Nat
  BY PosNat
<1>13. j.row = k.row /\ Pos(j) = Pos(k) => a = b
  <2> SUFFICES ASSUME j.row = k.row, Pos(j) = Pos(k)
               PROVE  a = b
    OBVIOUS
  <2>1. PICK x \in Nat : x = c * k.row
    BY <1>1
  <2>2. c * j.row = x
    BY <2>1
  <2>3. x + a = x + b
    BY <1>7, <2>1, <2>2
  <2> QED
    BY <2>3
<1> QED
  BY <1>1, <1>8, <1>10, <1>11, <1>12, <1>13

\* What cleaning a leaf keeps.
LEMMA CleanLeafKeeps ==
  ASSUME NEW S, NEW l, NEW k \in S
  PROVE  /\ k.num # 0 \/ BonsaiLeaf[<<k.row, k.del>>] # l => k \in CleanLeaf(S, l)
         /\ Lookup(k.id) # "abort" =>
              k \in CleanLeaf(S, l) \/ [k EXCEPT !.num = num[stmt[k.id].trx]] \in CleanLeaf(S, l)
<1>1. BonsaiLeaf[<<k.row, k.del>>] # l => k \in CleanLeaf(S, l)
  BY DEF CleanLeaf, InLeaf
<1>2. k.num # 0 /\ BonsaiLeaf[<<k.row, k.del>>] = l => k \in CleanLeaf(S, l)
  <2> SUFFICES ASSUME k.num # 0, BonsaiLeaf[<<k.row, k.del>>] = l
               PROVE  k \in Cleaned(InLeaf(S, l))
    BY DEF CleanLeaf
  <2>1. k \in InLeaf(S, l) /\ Patched(k) = k
    BY DEF InLeaf, Patched
  <2> QED
    BY <2>1 DEF Cleaned
<1>3. ASSUME Lookup(k.id) # "abort", BonsaiLeaf[<<k.row, k.del>>] = l
      PROVE  k \in CleanLeaf(S, l) \/ [k EXCEPT !.num = num[stmt[k.id].trx]] \in CleanLeaf(S, l)
  <2>1. k \in InLeaf(S, l)
    BY <1>3 DEF InLeaf
  <2>2. Patched(k) \in Cleaned(InLeaf(S, l))
    BY <1>3, <2>1 DEF Cleaned
  <2>3. Patched(k) = k \/ Patched(k) = [k EXCEPT !.num = num[stmt[k.id].trx]]
    BY DEF Patched
  <2> QED
    BY <2>2, <2>3 DEF CleanLeaf
<1> QED
  BY <1>1, <1>2, <1>3

\* A key of the history.
LEMMA WrittenKey ==
  ASSUME BaseInv, NEW k \in written
  PROVE  /\ k \in Keys /\ k.num = 0 /\ k.id \in 1..trxid /\ [k EXCEPT !.num = 0] = k
         /\ k.row \in Rows
<1>1. k \in Keys /\ k.num = 0 /\ k.id \in 1..trxid
  BY DEF BaseInv, Types, StmtInv
<1>2. PICK p : p = [k EXCEPT !.num = 0]
  OBVIOUS
<1> QED
  BY <1>1, <1>2, PlainKey, KeyFields

\* A key of the Bonsai tree and the same key of the history.
LEMMA TreeKey ==
  ASSUME FateInv, NEW b \in bonsai, NEW k, k = [b EXCEPT !.num = 0]
  PROVE  /\ b \in Keys /\ k \in Keys /\ k \in written /\ InBonsai(k)
         /\ k.row = b.row /\ k.del = b.del /\ k.id = b.id /\ b.id \in 1..trxid
         /\ KeyOK(b) /\ FateKnown(b) /\ b.row \in Rows /\ b.del \in BOOLEAN
<1>1. b \in Keys /\ k \in written /\ b.id \in 1..trxid
  BY HeldIds DEF FateInv
<1>2. KeyOK(b) /\ FateKnown(b)
  BY KeyFate DEF FateInv, KeysInv
<1>3. k \in Keys /\ k.row = b.row /\ k.del = b.del /\ k.id = b.id
  BY <1>1, PlainKey
<1>4. InBonsai(k)
  BY DEF InBonsai
<1> QED
  BY <1>1, <1>2, <1>3, <1>4, KeyFields

\* A write is of a key that was never written.
LEMMA Fresh ==
  ASSUME FateInv, LeftInv, NEW t \in Trx, NEW i \in 1..trxid, NEW r \in Rows, NEW del \in BOOLEAN,
         Write(t, i, r, del), NEW w, w = [row |-> r, del |-> del, id |-> i, num |-> 0]
  PROVE  /\ w \notin written
         /\ w.row = r
         /\ w.id = i
         /\ w.num = 0
         /\ Fate(i) = "begin"
         /\ Lookup(i) = "begin"
         /\ stmt[i].trx = t
         /\ trxst[t] = "begin"
<1>1. w.row = r /\ w.del = del /\ w.id = i /\ w.num = 0
  OBVIOUS
<1>2. stmt[i].trx = t /\ stmt[i].st = "open" /\ i \in trxbuf
  BY DEF Write, Open
<1>3. trxst[t] = "begin" /\ Fate(i) = "begin" /\ Lookup(i) = "begin"
  BY <1>2 DEF FateInv, BaseInv, StmtInv, Fate, Lookup
<1>4. ASSUME w \in written
      PROVE  FALSE
  <2>1. CASE ~del
    BY <1>1, <1>4, <2>1 DEF Write, MayInsert
  <2>2. CASE del
    <3>1. \A k \in bonsai : k.row = r /\ k.del => k.num = 0 /\ Lookup(k.id) = "abort"
      BY <2>2 DEF Write, MayDelete
    <3>2. CASE InBonsai(w)
      <4>1. PICK b \in bonsai : [b EXCEPT !.num = 0] = w
        BY <3>2 DEF InBonsai
      <4>2. b.row = r /\ b.del /\ b.id = i
        BY <1>1, <2>2, <4>1, TreeKey
      <4> QED
        BY <1>3, <3>1, <4>2
    <3>3. CASE ~InBonsai(w)
      BY <1>1, <1>3, <1>4, <3>3 DEF LeftInv
    <3> QED
      BY <3>2, <3>3
  <2> QED
    BY <2>1, <2>2
<1> QED
  BY <1>1, <1>2, <1>3, <1>4

LEMMA FreshKey ==
  ASSUME FateInv, LeftInv, NEW w, WriteKey(w)
  PROVE  /\ w \notin written
         /\ Fate(w.id) = "begin"
         /\ trxst[stmt[w.id].trx] = "begin"
<1>1. PICK t \in Trx, i \in 1..trxid, r \in Rows, del \in BOOLEAN :
        Write(t, i, r, del) /\ w = [row |-> r, del |-> del, id |-> i, num |-> 0]
  BY DEF WriteKey
<1>2. /\ w \notin written
      /\ w.id = i
      /\ Fate(i) = "begin"
      /\ stmt[i].trx = t
      /\ trxst[t] = "begin"
  BY <1>1, Fresh
<1> QED
  BY <1>2

\* Keys leave the Bonsai tree only.
LEMMA InBonsaiStep ==
  ASSUME FateInv, LeftInv, [Next]_vars, NEW k \in written
  PROVE  /\ InBonsai(k)' => InBonsai(k)
         /\ InBonsai(k) /\ ~MergeMove => InBonsai(k)' \/ Fate(k.id) = "abort"
<1>1. BaseInv /\ Types /\ StmtInv /\ WrittenInv /\ KeysInv
  BY DEF FateInv, BaseInv
<1>2. k \in Keys /\ k.num = 0 /\ [k EXCEPT !.num = 0] = k
  BY <1>1, WrittenKey
<1>3. ASSUME InBonsai(k)'
      PROVE  InBonsai(k)
  <2>1. PICK b \in bonsai' : [b EXCEPT !.num = 0] = k
    BY <1>3 DEF InBonsai
  <2>2. CASE b \in bonsai
    BY <2>1, <2>2 DEF InBonsai
  <2>3. CASE WriteKey(b)
    <3>1. PICK t \in Trx, i \in 1..trxid, r \in Rows, del \in BOOLEAN :
            Write(t, i, r, del) /\ b = [row |-> r, del |-> del, id |-> i, num |-> 0]
      BY <2>3 DEF WriteKey
    <3>2. b \notin written
      BY <3>1, Fresh
    <3>3. [b EXCEPT !.num = 0] = b
      BY <3>1
    <3> QED
      BY <2>1, <3>2, <3>3
  <2>4. ASSUME NEW l, PatchedKey(bonsai, l, b)
        PROVE  InBonsai(k)
    <3>1. k \in bonsai
      BY <1>1, <2>1, <2>4, PatchedKnown
    <3> QED
      BY <1>2, <3>1 DEF InBonsai
  <2> QED
    BY <1>1, <2>1, <2>2, <2>3, <2>4, BonsaiStep
<1>4. ASSUME NEW b \in bonsai, [b EXCEPT !.num = 0] = k, Fate(k.id) # "abort",
             NEW S, NEW l, b \in S, bonsai' = CleanLeaf(S, l)
      PROVE  InBonsai(k)'
  <2>1. b \in Keys /\ k.id = b.id /\ FateKnown(b) /\ KeyOK(b) /\ b.id \in 1..trxid
    BY <1>4, TreeKey
  <2>2. CASE b.num # 0
    <3>1. b \in bonsai'
      BY <1>4, <2>2, CleanLeafKeeps
    <3> QED
      BY <1>4, <3>1 DEF InBonsai
  <2>3. CASE b.num = 0
    <3>1. Lookup(b.id) # "abort"
      BY <1>4, <2>1, <2>3 DEF FateKnown
    <3>2. PICK n \in Nat : n = num[stmt[b.id].trx]
      BY <1>1, <2>1, StmtAt
    <3>3. PICK c : c = [b EXCEPT !.num = n]
      OBVIOUS
    <3>4. b \in bonsai' \/ c \in bonsai'
      BY <1>4, <3>1, <3>2, <3>3, CleanLeafKeeps
    <3>5. [c EXCEPT !.num = 0] = k
      <4>1. c = [row |-> b.row, del |-> b.del, id |-> b.id, num |-> n]
        BY <2>1, <3>3, KeyFields
      <4>2. k = [row |-> b.row, del |-> b.del, id |-> b.id, num |-> 0]
        BY <1>4, <2>1, KeyFields
      <4> QED
        BY <4>1, <4>2
    <3> QED
      BY <1>4, <3>4, <3>5 DEF InBonsai
  <2> QED
    BY <2>2, <2>3
<1>5. ASSUME InBonsai(k), ~MergeMove, Fate(k.id) # "abort"
      PROVE  InBonsai(k)'
  <2>1. PICK b \in bonsai : [b EXCEPT !.num = 0] = k
    BY <1>5 DEF InBonsai
  <2>2. CASE b \in bonsai'
    BY <2>1, <2>2 DEF InBonsai
  <2>3. ASSUME NEW t \in Trx, NEW i \in 1..trxid, NEW r \in Rows, NEW del \in BOOLEAN,
               Write(t, i, r, del)
        PROVE  InBonsai(k)'
    <3>1. PICK S : S = bonsai \cup {[row |-> r, del |-> del, id |-> i, num |-> 0]}
      OBVIOUS
    <3>2. bonsai' = S \/ \E l : bonsai' = CleanLeaf(S, l)
      BY <2>3, <3>1 DEF Write
    <3> QED
      BY <1>4, <1>5, <2>1, <2>2, <3>1, <3>2
  <2>4. CASE MergeLeaf
    <3>1. \E l : bonsai' = CleanLeaf(bonsai, l)
      BY <2>4 DEF MergeLeaf
    <3> QED
      BY <1>4, <1>5, <2>1, <3>1
  <2>5. ASSUME NEW t \in Trx,
               \/ Begin(t) \/ StmtBegin(t) \/ PublishAbortId(t) \/ \E c \in BOOLEAN : EndTrx(t, c)
               \/ \E i \in 1..trxid : AddStmt(t, i) \/ StmtCommit(t, i) \/ StmtRollback(t, i)
        PROVE  bonsai' = bonsai
    BY <2>5 DEF Begin, StmtBegin, PublishAbortId, EndTrx, AddStmt, StmtCommit, StmtRollback, trees
  <2>6. ASSUME MergeStart \/ MergeMark \/ MergeEnd \/ MergeError \/ MergeStop \/ MergeClean
        PROVE  bonsai' = bonsai
    BY <2>6 DEF MergeStart, MergeMark, MergeEnd, MergeError, MergeStop, MergeClean, trees
  <2>7. ASSUME NEW t \in Readers,
               SearchOpen(t) \/ SearchStore(t) \/ SearchNext(t) \/ SearchClose(t)
        PROVE  bonsai' = bonsai
    BY <2>7 DEF SearchOpen, SearchStore, SearchNext, SearchClose, trees
  <2>8. ASSUME UNCHANGED vars
        PROVE  bonsai' = bonsai
    BY <2>8 DEF vars, trees
  <2> QED
    BY <1>5, <2>1, <2>2, <2>3, <2>4, <2>5, <2>6, <2>7, <2>8 DEF Next
<1> QED
  BY <1>3, <1>5

\* A key is not gone while its statement runs.
LEMMA GoneStep ==
  ASSUME FateInv, LeftInv, [Next]_vars, ~MergeMove, NEW k \in written
  PROVE  Gone(k)' <=> Gone(k)
<1>1. BaseInv /\ Types /\ StmtInv
  BY DEF FateInv, BaseInv
<1>2. k.id \in 1..trxid
  BY <1>1, WrittenKey
<1>3. Fate(k.id) \in {"commit", "abort"} => Fate(k.id)' = Fate(k.id)
  BY <1>1, <1>2, FateStep
<1>4. /\ InBonsai(k)' => InBonsai(k)
      /\ InBonsai(k) => InBonsai(k)' \/ Fate(k.id) = "abort"
  BY InBonsaiStep
<1>5. ~InBonsai(k) => Fate(k.id) \in {"abort", "commit"}
  BY DEF LeftInv
<1> QED
  BY <1>3, <1>4, <1>5 DEF Gone

\* The level of the merge goes up.
LEMMA MergeLevel ==
  ASSUME Types, StmtInv, WrittenInv, [Next]_vars
  PROVE  /\ merge.level \in Nat /\ merge'.level \in Nat /\ merge.level <= merge'.level
         /\ ~MergeStart => merge'.level = merge.level /\ merge'.patch = merge.patch
                           /\ merge'.full = merge.full
<1>1. merge.level \in Nat
  BY MergeFields
<1>2. CASE MergeStart
  BY <1>1, <1>2, MergeStartFields
<1>3. CASE merge' = merge
  BY <1>1, <1>3
<1>4. CASE \/ MergeMark \/ MergeLeaf \/ MergeMove \/ MergeEnd \/ MergeError
           \/ MergeStop \/ MergeClean
  BY <1>1, <1>4, MergeStepFields
<1> QED
  BY <1>1, <1>2, <1>3, <1>4, Frame

\* The levels of the transactions, of their commits and of the merge.
LEMMA LevelStep ==
  ASSUME Types, StmtInv, WrittenInv, LevelInv, [Next]_vars
  PROVE  LevelInv'
<1>1. ASSUME NEW t \in Trx
      PROVE  /\ trxst'[t] = "begin" => merge'.level <= level'[t]
             /\ trxst'[t] # "commit" => num'[t] = 0
             /\ trxst'[t] = "commit" /\ num'[t] # 0 => level'[t] < num'[t]
  <2>1. /\ trxst[t] = "begin" => merge.level <= level[t]
        /\ trxst[t] # "commit" => num[t] = 0
        /\ trxst[t] = "commit" /\ num[t] # 0 => level[t] < num[t]
    BY DEF LevelInv
  <2>2. level[t] \in Nat /\ level[t] <= maxtrxnum /\ maxtrxnum \in Nat
    BY DEF Types
  <2>3. merge.level \in Nat /\ merge.level <= maxtrxnum
    BY MergeFields
  <2>4. CASE UNCHANGED <<trxst[t], num[t], level[t]>>
    <3>1. CASE MergeStart
      <4>1. trxst[t] = "begin" => merge'.level <= level[t]
        BY <3>1, MergeStartFields
      <4> QED
        BY <2>1, <2>4, <4>1
    <3>2. CASE ~MergeStart
      <4>1. merge'.level = merge.level
        BY <3>2, MergeLevel
      <4> QED
        BY <2>1, <2>4, <4>1
    <3> QED
      BY <3>1, <3>2
  <2>5. CASE /\ trxst[t] = "new" /\ trxst'[t] = "begin" /\ num'[t] = num[t]
             /\ level'[t] = maxtrxnum /\ merge' = merge
    BY <2>1, <2>3, <2>5
  <2>6. CASE /\ trxst[t] = "begin" /\ trxst'[t] \in {"commit", "abort"} /\ level'[t] = level[t]
             /\ \/ num'[t] = num[t]
                \/ num'[t] = maxtrxnum + 1 /\ trxst'[t] = "commit"
    BY <2>1, <2>2, <2>6
  <2> QED
    BY <2>4, <2>5, <2>6, TrxStep
<1>2. merge'.level <= merge'.patch
  <2>1. CASE MergeStart
    BY <2>1, MergeStartFields
  <2>2. CASE ~MergeStart
    BY <2>2, MergeLevel DEF LevelInv
  <2> QED
    BY <2>1, <2>2
<1>3. ASSUME NEW i \in 1..trxid', NEW j \in 1..trxid',
             stmt'[i].trx = stmt'[j].trx, stmt'[i].st = "open", stmt'[j].st = "open"
      PROVE  i = j
  <2>1. CASE i \in 1..trxid /\ j \in 1..trxid
    <3>1. /\ stmt'[i].trx = stmt[i].trx /\ stmt'[j].trx = stmt[j].trx
          /\ stmt'[i] = stmt[i] \/ stmt'[i].st \in {"done", "aborted"}
          /\ stmt'[j] = stmt[j] \/ stmt'[j].st \in {"done", "aborted"}
      BY <2>1, StmtStep
    <3>2. stmt[i].st = "open" /\ stmt[j].st = "open"
      BY <1>3, <3>1
    <3> QED
      BY <1>3, <2>1, <3>1, <3>2 DEF LevelInv
  <2>2. CASE i \notin 1..trxid \/ j \notin 1..trxid
    <3>1. PICK t \in Trx : StmtBegin(t)
      <4>1. stmt' # stmt
        BY <2>2 DEF trxid
      <4>2. ASSUME NEW t \in Trx, NEW n \in 1..trxid, StmtCommit(t, n) \/ StmtRollback(t, n)
            PROVE  Len(stmt') = Len(stmt)
        BY <4>2 DEF StmtCommit, StmtRollback, Types
      <4> QED
        BY <2>2, <4>1, <4>2, Frame DEF trxid
    <3>2. /\ stmt \in Seq(StmtType) /\ stmt' = Append(stmt, [trx |-> t, st |-> "open"])
          /\ \A n \in 1..trxid : ~Open(t, n)
      BY <3>1 DEF StmtBegin, Types
    <3>3. PICK m \in Nat : m = Len(stmt)
      BY <3>2
    <3>4. trxid = m /\ trxid' = m + 1
      BY <3>2, <3>3 DEF trxid
    <3>5. stmt'[m + 1] = [trx |-> t, st |-> "open"]
      BY <3>2, <3>3
    <3>6. stmt'[m + 1].trx = t
      BY <3>5
    <3>7. ASSUME NEW n \in 1..m, stmt'[n].st = "open", stmt'[n].trx = t
          PROVE  FALSE
      <4>1. stmt'[n] = stmt[n]
        BY <3>2, <3>3, <3>7
      <4> QED
        BY <3>2, <3>4, <3>7, <4>1 DEF Open
    <3>8. (i \in 1..m \/ i = m + 1) /\ (j \in 1..m \/ j = m + 1)
      BY <1>3, <3>4
    <3> QED
      BY <1>3, <2>2, <3>4, <3>6, <3>7, <3>8
  <2> QED
    BY <2>1, <2>2
<1> QED
  BY <1>1, <1>2, <1>3 DEF LevelInv


\* A key that the merge may move.
LEMMA WorkKey ==
  ASSUME FateInv, WorkInv, NEW k \in merge.work, NEW p, p = [k EXCEPT !.num = 0]
  PROVE  /\ k \in Keys /\ k \in bonsai /\ k.num # 0 /\ k.num <= merge.level
         /\ Fate(k.id) = "commit" /\ k.num = num[stmt[k.id].trx]
         /\ BonsaiLeaf[<<k.row, k.del>>] <= merge.leaf
         /\ k.id \in 1..trxid /\ k.row \in Rows
         /\ p \in written /\ p.row = k.row /\ p.del = k.del /\ p.id = k.id /\ InBonsai(p)
<1>1. k \in bonsai /\ k.num <= merge.level /\ BonsaiLeaf[<<k.row, k.del>>] <= merge.leaf
  BY DEF WorkInv
<1>2. k.num # 0
  BY DEF FateInv, PatchInv
<1>3. /\ k \in Keys /\ k.id \in 1..trxid /\ KeyOK(k) /\ k.row \in Rows
      /\ p \in written /\ p.row = k.row /\ p.del = k.del /\ p.id = k.id /\ InBonsai(p)
  BY <1>1, TreeKey
<1> QED
  BY <1>1, <1>2, <1>3 DEF KeyOK

\* What a move takes.
LEMMA TakenKeys ==
  ASSUME FateInv, WorkInv, Moves, NEW k, k = FirstKey(merge.work)
  PROVE  /\ k \in merge.work /\ \A j \in merge.work : Pos(k) <= Pos(j)
         /\ k \in Taken /\ Taken \subseteq merge.work
         /\ \A j \in Taken : j.row = k.row
         /\ \/ Taken = {k}
            \/ k.del /\ \E f \in merge.work : ~f.del /\ f.row = k.row /\ Taken = {k, f}
<1>1. merge.work \subseteq Keys /\ merge.work # {}
  BY MergeFields DEF FateInv, BaseInv, Moves
<1>2. k \in merge.work /\ \A j \in merge.work : Pos(k) <= Pos(j)
  BY <1>1, FirstKeyProperties
<1>3. PICK rest : rest = merge.work \ {k}
  OBVIOUS
<1>4. Taken = IF k.del /\ rest # {} /\ FirstKey(rest).row = k.row /\ ~FirstKey(rest).del
              THEN {k, FirstKey(rest)} ELSE {k}
  BY <1>3 DEF Taken
<1>5. rest # {} => FirstKey(rest) \in rest
  BY <1>1, <1>3, FirstKeyProperties
<1>6. PICK f : f = FirstKey(rest)
  OBVIOUS
<1>7. \/ Taken = {k}
      \/ k.del /\ f \in merge.work /\ ~f.del /\ f.row = k.row /\ Taken = {k, f}
  BY <1>3, <1>4, <1>5, <1>6
<1> QED
  BY <1>2, <1>7

\* Two keys of the Bonsai tree with numbers and the same position are one.
LEMMA SamePosition ==
  ASSUME FateInv, NEW j \in bonsai, NEW k \in bonsai, j.num # 0, k.num # 0, Pos(j) = Pos(k)
  PROVE  j = k
<1>1. j \in Keys /\ k \in Keys /\ KeyOK(j) /\ KeyOK(k)
  BY TreeKey
<1>2. j.row = k.row /\ j.del = k.del /\ j.id = k.id
  BY <1>1, PosOrder
<1>3. j.num = k.num
  BY <1>1, <1>2 DEF KeyOK
<1> QED
  BY <1>1, <1>2, <1>3, SameKey

\* The keys of the work of the merge.
LEMMA WorkStep ==
  ASSUME FateInv, WorkInv, LevelInv, [Next]_vars
  PROVE  WorkInv'
<1>1. BaseInv /\ Types /\ StmtInv /\ WrittenInv /\ KeysInv /\ PatchInv
  BY DEF FateInv, BaseInv
<1>2. /\ merge.leaf \in Nat /\ merge.leaf <= Leaves /\ Leaves \in Nat /\ merge \in MergeType
      /\ merge.level \in Nat /\ merge.patch \in Nat /\ merge.level <= merge.patch
  BY <1>1, MergeFields DEF LevelInv, Types
<1>3. \A k \in bonsai : k \in Keys /\ BonsaiLeaf[<<k.row, k.del>>] \in 1..Leaves /\ k.num \in Nat
  BY <1>1, KeyFields, LeavesAssumption DEF Types
<1>4. Types' /\ bonsai' \subseteq Keys
  BY <1>1, TypesStep DEF Types
<1>5. CASE MergeStart
  <2>1. merge'.leaf = 0 /\ merge'.work = {} /\ merge'.st = "start"
    BY <1>1, <1>5, MergeStartFields
  <2>2. \A k \in bonsai' : BonsaiLeaf[<<k.row, k.del>>] \in 1..Leaves
    BY <1>4, KeyFields, LeavesAssumption
  <2>3. ASSUME NEW k \in bonsai', BonsaiLeaf[<<k.row, k.del>>] <= merge'.leaf
        PROVE  FALSE
    <3>1. BonsaiLeaf[<<k.row, k.del>>] \in 1..Leaves
      BY <2>2
    <3> QED
      BY <1>2, <2>1, <2>3, <3>1
  <2> QED
    BY <2>1, <2>3 DEF WorkInv
<1>6. CASE MergeLeaf
  <2>1. PICK l, b, w : /\ l = merge.leaf + 1 /\ b = CleanLeaf(bonsai, l) /\ bonsai' = b
                       /\ w = IF merge.full
                              THEN merge.work \cup {k \in InLeaf(b, l) :
                                     k.num # 0 /\ k.num <= merge.level}
                              ELSE {}
                       /\ merge' = [merge EXCEPT !.leaf = l, !.work = w]
    BY <1>6 DEF MergeLeaf
  <2>2. /\ merge'.leaf = l /\ merge'.work = w /\ merge'.full = merge.full
        /\ merge'.level = merge.level /\ merge'.st = merge.st
    BY <1>2, <2>1 DEF MergeType
  <2>3. merge.st = "active"
    BY <1>6 DEF MergeLeaf, Active
  <2>4. l \in Nat /\ merge.leaf < l
    BY <1>2, <2>1
  <2>5. ASSUME NEW k \in merge.work
        PROVE  k \in bonsai' /\ k.num <= merge'.level /\ BonsaiLeaf[<<k.row, k.del>>] <= merge'.leaf
    <3>1. k \in bonsai /\ k.num # 0 /\ k.num <= merge.level /\ BonsaiLeaf[<<k.row, k.del>>] <= merge.leaf
      BY <1>1 DEF WorkInv, PatchInv
    <3>2. k \in bonsai'
      BY <2>1, <3>1, CleanLeafKeeps
    <3>3. BonsaiLeaf[<<k.row, k.del>>] \in 1..Leaves
      BY <1>3, <3>1
    <3> QED
      BY <1>2, <2>2, <2>4, <3>1, <3>2, <3>3
  <2>6. ASSUME NEW k \in InLeaf(b, l), k.num <= merge.level
        PROVE  k \in bonsai' /\ k.num <= merge'.level /\ BonsaiLeaf[<<k.row, k.del>>] <= merge'.leaf
    BY <2>1, <2>2, <2>4, <2>6 DEF InLeaf
  <2>7. ASSUME NEW k \in merge'.work
        PROVE  k \in bonsai' /\ k.num <= merge'.level /\ BonsaiLeaf[<<k.row, k.del>>] <= merge'.leaf
    <3>1. k \in merge.work \/ (k \in InLeaf(b, l) /\ k.num <= merge.level)
      BY <2>1, <2>2
    <3> QED
      BY <2>5, <2>6, <3>1
  <2>8. ASSUME merge'.full, NEW k \in bonsai', BonsaiLeaf[<<k.row, k.del>>] <= merge'.leaf,
               k.num # 0, k.num <= merge'.level
        PROVE  k \in merge'.work
    <3>1. CASE BonsaiLeaf[<<k.row, k.del>>] = l
      BY <2>1, <2>2, <2>8, <3>1 DEF InLeaf
    <3>2. CASE BonsaiLeaf[<<k.row, k.del>>] # l
      <4>1. k \in bonsai
        <5>1. PatchedKey(bonsai, l, k) => BonsaiLeaf[<<k.row, k.del>>] = l
          BY <1>1, PatchedKnown
        <5>2. k \in bonsai \/ PatchedKey(bonsai, l, k)
          BY <2>1, <2>8, CleanLeafProperties
        <5> QED
          BY <3>2, <5>1, <5>2
      <4>2. BonsaiLeaf[<<k.row, k.del>>] <= merge.leaf
        <5>1. BonsaiLeaf[<<k.row, k.del>>] \in 1..Leaves
          BY <1>3, <4>1
        <5> QED
          BY <1>2, <2>1, <2>2, <2>8, <3>2, <5>1
      <4>3. k \in merge.work
        BY <2>2, <2>3, <2>8, <4>1, <4>2 DEF WorkInv
      <4> QED
        BY <2>1, <2>2, <2>8, <4>3
    <3> QED
      BY <3>1, <3>2
  <2>9. ~merge'.full => merge'.work = {}
    BY <2>1, <2>2
  <2> QED
    BY <2>7, <2>8, <2>9 DEF WorkInv
<1>7. CASE MergeMove
  <2>1. Moves /\ bonsai' = Without(bonsai, Taken) /\ merge' = [merge EXCEPT !.work = merge.work \ Taken]
    BY <1>7 DEF MergeMove
  <2>2. /\ merge'.leaf = merge.leaf /\ merge'.work = merge.work \ Taken /\ merge'.full = merge.full
        /\ merge'.level = merge.level /\ merge'.st = merge.st
    BY <1>2, <2>1 DEF MergeType
  <2>3. Taken \subseteq merge.work
    BY <2>1, TakenKeys
  <2>4. ASSUME NEW k \in merge.work \ Taken
        PROVE  k \in bonsai'
    <3>1. ASSUME NEW j \in Taken, Pos(j) = Pos(k)
          PROVE  FALSE
      <4>1. j \in bonsai /\ k \in bonsai /\ j.num # 0 /\ k.num # 0
        BY <2>3, WorkKey
      <4> QED
        BY <3>1, <4>1, SamePosition
    <3>2. k \in bonsai
      BY DEF WorkInv
    <3> QED
      BY <2>1, <3>1, <3>2 DEF Without
  <2>5. ASSUME NEW k \in bonsai'
        PROVE  k \in bonsai /\ k \notin Taken
    BY <2>1 DEF Without
  <2> QED
    BY <2>2, <2>4, <2>5 DEF WorkInv
<1>8. CASE MergeMark \/ MergeEnd \/ MergeError \/ MergeStop \/ MergeClean
  <2>1. bonsai' = bonsai
    BY <1>8 DEF MergeMark, MergeEnd, MergeError, MergeStop, MergeClean, trees
  <2>2. \/ merge' = [merge EXCEPT !.st = "active", !.abortid = aborttrxid] /\ merge.st = "start"
        \/ merge' = [merge EXCEPT !.ended = TRUE]
        \/ merge' = [merge EXCEPT !.ended = TRUE, !.readonly = TRUE]
        \/ merge' = [merge EXCEPT !.st = "stop"]
        \/ merge' = [merge EXCEPT !.st = "off", !.work = {}]
    BY <1>8 DEF MergeMark, MergeEnd, MergeError, MergeStop, MergeClean
  <2>3. /\ merge'.leaf = merge.leaf /\ merge'.full = merge.full /\ merge'.level = merge.level
        /\ merge'.work = merge.work \/ (merge'.work = {} /\ merge'.st = "off")
        /\ merge'.st \in {"start", "active"} => merge.st \in {"start", "active"}
    BY <1>2, <2>2 DEF MergeType
  <2> QED
    BY <2>1, <2>3 DEF WorkInv
<1>9. ASSUME NEW t \in Trx, NEW i \in 1..trxid, NEW r \in Rows, NEW del \in BOOLEAN,
             Write(t, i, r, del)
      PROVE  WorkInv'
  <2>1. PICK S : S = bonsai \cup {[row |-> r, del |-> del, id |-> i, num |-> 0]}
    OBVIOUS
  <2>2. (bonsai' = S \/ \E l : bonsai' = CleanLeaf(S, l)) /\ merge' = merge
    BY <1>9, <2>1 DEF Write
  <2>3. ASSUME NEW k \in merge.work
        PROVE  k \in bonsai'
    <3>1. k \in S /\ k.num # 0
      BY <1>1, <2>1 DEF WorkInv, PatchInv
    <3> QED
      BY <2>2, <3>1, CleanLeafKeeps
  <2>4. ASSUME NEW k \in bonsai', BonsaiLeaf[<<k.row, k.del>>] <= merge.leaf,
               k.num # 0, k.num <= merge.level
        PROVE  k \in bonsai
    <3>1. CASE WriteKey(k)
      BY <2>4, <3>1 DEF WriteKey
    <3>2. ASSUME NEW l, PatchedKey(bonsai, l, k)
          PROVE  FALSE
      <4>1. PICK j \in bonsai :
           /\ j.num = 0 /\ Lookup(j.id) = "commit" /\ j.id \in 1..trxid /\ j \in written
           /\ BonsaiLeaf[<<j.row, j.del>>] = l
           /\ k \in Keys /\ k.row = j.row /\ k.del = j.del /\ k.id = j.id
           /\ k.num = num[stmt[j.id].trx] /\ [k EXCEPT !.num = 0] = j
        BY <1>1, <3>2, PatchedFields
      <4>2. PatchedOK(j)
        BY <1>1, <2>4, <4>1 DEF PatchInv
      <4>3. Fate(k.id) = "commit"
        BY <1>1, <2>4, <3>2, PatchedKnown DEF KeyOK
      <4>4. k.num > merge.patch
        BY <4>1, <4>2, <4>3 DEF PatchedOK
      <4>5. k.num \in Nat
        BY <1>1, <4>1, StmtAt
      <4> QED
        BY <1>2, <2>4, <4>4, <4>5
    <3> QED
      BY <1>1, <3>1, <3>2, BonsaiStep
  <2> QED
    BY <2>2, <2>3, <2>4 DEF WorkInv
<1>10. ASSUME NEW t \in Trx,
             \/ Begin(t) \/ StmtBegin(t) \/ PublishAbortId(t) \/ \E c \in BOOLEAN : EndTrx(t, c)
             \/ \E i \in 1..trxid : AddStmt(t, i) \/ StmtCommit(t, i) \/ StmtRollback(t, i)
      PROVE  bonsai' = bonsai /\ merge' = merge
  BY <1>10 DEF Begin, StmtBegin, PublishAbortId, EndTrx, AddStmt, StmtCommit, StmtRollback, trees
<1>11. ASSUME NEW t \in Readers,
             SearchOpen(t) \/ SearchStore(t) \/ SearchNext(t) \/ SearchClose(t)
      PROVE  bonsai' = bonsai /\ merge' = merge
  BY <1>11 DEF SearchOpen, SearchStore, SearchNext, SearchClose, trees
<1>12. ASSUME UNCHANGED vars
      PROVE  bonsai' = bonsai /\ merge' = merge
  BY <1>12 DEF vars, trees
<1>13. CASE bonsai' = bonsai /\ merge' = merge
  BY <1>13 DEF WorkInv
<1> QED
  BY <1>5, <1>6, <1>7, <1>8, <1>9, <1>10, <1>11, <1>12, <1>13 DEF Next


\* What a move leaves in the Bonsai tree.
LEMMA InBonsaiMove ==
  ASSUME FateInv, WorkInv, MergeMove, NEW j \in written
  PROVE  InBonsai(j)' <=> InBonsai(j) /\ \A m \in Taken : [m EXCEPT !.num = 0] # j
<1>1. Moves /\ bonsai' = Without(bonsai, Taken)
  BY DEF MergeMove
<1>2. Taken \subseteq bonsai
  BY <1>1, TakenKeys DEF WorkInv
<1>3. ASSUME NEW b \in bonsai, [b EXCEPT !.num = 0] = j, NEW m \in Taken
      PROVE  [m EXCEPT !.num = 0] = j <=> Pos(m) = Pos(b)
  <2>1. PICK p : p = [m EXCEPT !.num = 0]
    OBVIOUS
  <2>2. /\ m \in Keys /\ p \in Keys /\ p.row = m.row /\ p.del = m.del /\ p.id = m.id /\ p.num = 0
        /\ b \in Keys /\ j \in Keys /\ j.row = b.row /\ j.del = b.del /\ j.id = b.id /\ j.num = 0
    BY <1>2, <1>3, <2>1, TreeKey, PlainKey
  <2>3. p = j => Pos(m) = Pos(b)
    BY <2>2 DEF Pos
  <2>4. Pos(m) = Pos(b) => p = j
    BY <2>2, PosOrder, SameKey
  <2> QED
    BY <2>1, <2>3, <2>4
<1>4. ASSUME InBonsai(j)'
      PROVE  InBonsai(j) /\ \A m \in Taken : [m EXCEPT !.num = 0] # j
  <2>1. PICK b \in bonsai' : [b EXCEPT !.num = 0] = j
    BY <1>4 DEF InBonsai
  <2>2. b \in bonsai /\ \A m \in Taken : Pos(m) # Pos(b)
    BY <1>1, <2>1 DEF Without
  <2>3. InBonsai(j)
    BY <2>1, <2>2 DEF InBonsai
  <2> QED
    BY <1>3, <2>1, <2>2, <2>3
<1>5. ASSUME InBonsai(j), \A m \in Taken : [m EXCEPT !.num = 0] # j
      PROVE  InBonsai(j)'
  <2>1. PICK b \in bonsai : [b EXCEPT !.num = 0] = j
    BY <1>5 DEF InBonsai
  <2>2. \A m \in Taken : Pos(m) # Pos(b)
    BY <1>3, <1>5, <2>1
  <2>3. b \in bonsai'
    BY <1>1, <2>1, <2>2 DEF Without
  <2> QED
    BY <2>1, <2>3 DEF InBonsai
<1> QED
  BY <1>4, <1>5

\* What has left the Bonsai tree is aborted or old.
LEMMA LeftStep ==
  ASSUME FateInv, LeftInv, WorkInv, [Next]_vars
  PROVE  LeftInv'
<1>1. BaseInv /\ Types /\ StmtInv /\ WrittenInv
  BY DEF FateInv, BaseInv
<1>2. SUFFICES ASSUME NEW k \in written', ~InBonsai(k)'
               PROVE  \/ Fate(k.id)' = "abort"
                      \/ Fate(k.id)' = "commit" /\ num'[stmt'[k.id].trx] <= merge'.level
  BY DEF LeftInv
<1>3. merge.level \in Nat /\ merge'.level \in Nat /\ merge.level <= merge'.level
  BY <1>1, MergeLevel
<1>4. CASE k \in written
  <2>1. k.id \in 1..trxid
    BY <1>1, <1>4, WrittenKey
  <2>2. /\ Fate(k.id) \in {"commit", "abort"} => Fate(k.id)' = Fate(k.id)
        /\ Fate(k.id) = "commit" => num'[stmt'[k.id].trx] = num[stmt[k.id].trx]
    BY <1>1, <2>1, FateStep
  <2>3. num[stmt[k.id].trx] \in Nat
    BY <1>1, <2>1, StmtAt
  <2>4. \/ Fate(k.id) = "abort"
        \/ Fate(k.id) = "commit" /\ num[stmt[k.id].trx] <= merge.level
    <3>1. CASE ~InBonsai(k)
      BY <1>4, <3>1 DEF LeftInv
    <3>2. CASE InBonsai(k) /\ ~MergeMove
      BY <1>2, <1>4, <3>2, InBonsaiStep
    <3>3. CASE InBonsai(k) /\ MergeMove
      <4>1. PICK m \in Taken : [m EXCEPT !.num = 0] = k
        BY <1>2, <1>4, <3>3, InBonsaiMove
      <4>2. m \in merge.work
        BY <3>3, TakenKeys DEF MergeMove
      <4> QED
        BY <4>1, <4>2, WorkKey
    <3> QED
      BY <3>1, <3>2, <3>3
  <2> QED
    BY <1>3, <2>2, <2>3, <2>4
<1>5. CASE k \notin written
  <2>1. PICK t \in Trx, i \in 1..trxid, r \in Rows, del \in BOOLEAN : Write(t, i, r, del)
    BY <1>1, <1>5, Frame
  <2>2. k = [row |-> r, del |-> del, id |-> i, num |-> 0]
    BY <1>5, <2>1 DEF Write
  <2>3. PICK S : S = bonsai \cup {k}
    OBVIOUS
  <2>4. bonsai' = S \/ \E l : bonsai' = CleanLeaf(S, l)
    BY <2>1, <2>2, <2>3 DEF Write
  <2>5. Lookup(k.id) = "begin" /\ k.num = 0
    BY <2>1, <2>2, Fresh
  <2>6. k \in bonsai' \/ [k EXCEPT !.num = num[stmt[k.id].trx]] \in bonsai'
    BY <2>3, <2>4, <2>5, CleanLeafKeeps
  <2>7. PICK c : c = [k EXCEPT !.num = num[stmt[k.id].trx]]
    OBVIOUS
  <2>8. [k EXCEPT !.num = 0] = k /\ [c EXCEPT !.num = 0] = k
    <3>1. c = [row |-> r, del |-> del, id |-> i, num |-> num[stmt[k.id].trx]]
      BY <2>2, <2>7
    <3> QED
      BY <2>2, <3>1
  <2>9. InBonsai(k)'
    BY <2>6, <2>7, <2>8 DEF InBonsai
  <2> QED
    BY <1>2, <2>9
<1> QED
  BY <1>4, <1>5

\* The rows of a transaction that has ended were there.
LEMMA DeleteOfOld ==
  ASSUME FateInv, LevelInv, NEW k \in written, NEW d \in written, Precedes(k, d),
         Fate(d.id) = "commit"
  PROVE  Fate(k.id) = "commit" /\ num[stmt[k.id].trx] <= num[stmt[d.id].trx]
<1>1. BaseInv /\ Types /\ StmtInv
  BY DEF FateInv, BaseInv
<1>2. k.id \in 1..trxid /\ d.id \in 1..trxid
  BY <1>1, WrittenKey
<1>3. PICK t \in Trx : t = stmt[d.id].trx
  BY <1>1, <1>2, StmtAt
<1>4. trxst[t] = "commit" /\ stmt[d.id].st # "aborted"
  BY <1>3 DEF Fate
<1>5. num[t] > 0 /\ num[t] \in Nat /\ level[t] \in Nat /\ num[stmt[k.id].trx] \in Nat
  BY <1>1, <1>2, <1>3, <1>4, StmtAt DEF StmtInv
<1>6. level[t] < num[t]
  BY <1>4, <1>5 DEF LevelInv
<1>7. CASE Fate(k.id) = "commit" /\ num[stmt[k.id].trx] <= level[t]
  BY <1>3, <1>5, <1>6, <1>7
<1>8. CASE stmt[k.id].trx = t /\ (k.id = d.id \/ stmt[k.id].st = "done")
  BY <1>3, <1>4, <1>5, <1>8 DEF Fate
<1> QED
  BY <1>3, <1>7, <1>8 DEF Precedes

\* When a delete is moved alone its row has no insert in the Bonsai tree.
LEMMA MoveAlone ==
  ASSUME FateInv, RowsInv, Moves, NEW k, k = FirstKey(merge.work), k.del, Taken = {k},
         NEW j \in Inserts(k.row)
  PROVE  ~InBonsai(j)
<1>1. BaseInv /\ Types /\ StmtInv /\ KeysInv /\ PatchInv /\ LevelInv /\ WorkInv
  BY DEF FateInv, BaseInv, RowsInv
<1>2. k \in merge.work /\ \A m \in merge.work : Pos(k) <= Pos(m)
  BY <1>1, TakenKeys
<1>3. PICK p : p = [k EXCEPT !.num = 0]
  OBVIOUS
<1>4. /\ k \in Keys /\ k.num # 0 /\ k.num <= merge.level
      /\ Fate(k.id) = "commit" /\ k.num = num[stmt[k.id].trx]
      /\ p \in written /\ p.row = k.row /\ p.del = k.del /\ p.id = k.id
      /\ k.row \in Rows
  BY <1>1, <1>2, <1>3, WorkKey
<1>5. RowInv(k.row)
  BY <1>4 DEF RowsInv
<1>6. j \in written /\ j.row = k.row /\ ~j.del
  BY DEF Inserts
<1>7. Fate(j.id) = "commit" /\ num[stmt[j.id].trx] <= merge.level
  <2>1. p \in Deletes(k.row) /\ Fate(p.id) = "commit"
    BY <1>4 DEF Deletes
  <2>2. PICK i \in Inserts(k.row) : Precedes(i, p)
    BY <1>5, <2>1 DEF RowInv
  <2>3. i = j
    BY <1>5 DEF RowInv
  <2>4. Fate(j.id) = "commit" /\ num[stmt[j.id].trx] <= num[stmt[p.id].trx]
    BY <1>1, <1>4, <1>6, <2>1, <2>2, <2>3, DeleteOfOld
  <2>5. num[stmt[j.id].trx] \in Nat /\ num[stmt[p.id].trx] \in Nat /\ merge.level \in Nat
    BY <1>1, <1>4, <1>6, WrittenKey, StmtAt, MergeFields
  <2> QED
    BY <1>4, <2>4, <2>5
<1>8. ASSUME NEW f \in merge.work, f # k, f.row = k.row, f.del
      PROVE  FALSE
  <2>1. PICK q : q = [f EXCEPT !.num = 0]
    OBVIOUS
  <2>2. /\ f \in Keys /\ Fate(f.id) = "commit" /\ f.num = num[stmt[f.id].trx]
        /\ q \in written /\ q.row = f.row /\ q.del = f.del /\ q.id = f.id
    BY <1>1, <2>1, WorkKey
  <2>3. f.id # k.id
    BY <1>4, <1>8, <2>2, SameKey
  <2>4. p \in Deletes(k.row) /\ q \in Deletes(k.row) /\ p # q
    BY <1>4, <1>8, <2>2, <2>3 DEF Deletes
  <2> QED
    BY <1>4, <1>5, <2>2, <2>4 DEF RowInv
<1>9. ASSUME NEW b \in bonsai, [b EXCEPT !.num = 0] = j
      PROVE  FALSE
  <2>1. /\ b \in Keys /\ b.row = k.row /\ ~b.del /\ b.id = j.id /\ KeyOK(b) /\ b.id \in 1..trxid
    BY <1>6, <1>9, TreeKey
  <2>2. merge.st = "active" /\ ~merge.ended /\ merge.work # {} /\ merge.full
    BY <1>1 DEF Moves, Active, WorkInv
  <2>3. PICK rest : rest = merge.work \ {k}
    OBVIOUS
  <2>4. PICK f : f = FirstKey(rest)
    OBVIOUS
  <2>5. rest # {} => f \in rest /\ \A m \in rest : Pos(f) <= Pos(m)
    BY <1>1, <2>3, <2>4, MergeFields, FirstKeyProperties
  <2>6. ~(rest # {} /\ f.row = k.row /\ ~f.del)
    <3>1. SUFFICES ASSUME rest # {}, f.row = k.row, ~f.del
                   PROVE  FALSE
      OBVIOUS
    <3>2. Taken = {k, f}
      BY <2>3, <2>4, <3>1 DEF Taken
    <3>3. f # k
      BY <2>3, <2>5, <3>1
    <3> QED
      BY <3>2, <3>3
  <2>7. rest # {} => f.row # k.row
    BY <1>8, <2>3, <2>5, <2>6
  <2>8. rest # {} => f \in Keys /\ k.row < f.row
    <3>1. SUFFICES ASSUME rest # {}
                   PROVE  f \in Keys /\ k.row < f.row
      OBVIOUS
    <3>2. f \in merge.work
      BY <2>3, <2>5, <3>1
    <3>3. f \in Keys /\ Pos(k) <= Pos(f)
      BY <1>1, <1>2, <3>2, WorkKey
    <3>4. k.row <= f.row /\ k.row \in Nat /\ f.row \in Nat
      BY <1>4, <3>3, PosOrder, KeyFields
    <3> QED
      BY <2>7, <3>1, <3>3, <3>4
  <2>9. CASE BonsaiLeaf[<<b.row, b.del>>] <= merge.leaf
    <3>1. PatchedOK(b)
      BY <1>1, <2>9 DEF PatchInv
    <3>2. merge.level \in Nat /\ merge.patch \in Nat /\ merge.level <= merge.patch
          /\ num[stmt[b.id].trx] \in Nat
      BY <1>1, <2>1, MergeFields, StmtAt DEF LevelInv
    <3>3. b.num # 0
      BY <1>7, <2>1, <3>1, <3>2 DEF PatchedOK
    <3>4. b.num <= merge.level
      BY <1>7, <2>1, <3>3 DEF KeyOK
    <3>5. b \in merge.work
      BY <1>1, <2>2, <2>9, <3>3, <3>4 DEF WorkInv
    <3>6. b \in rest
      BY <2>1, <2>3, <3>5
    <3>7. Pos(f) <= Pos(b) /\ f \in Keys /\ k.row < f.row
      BY <2>5, <2>8, <3>6
    <3>8. f.row <= b.row /\ f.row \in Nat /\ b.row \in Nat
      BY <2>1, <3>7, PosOrder, KeyFields
    <3> QED
      BY <2>1, <3>7, <3>8
  <2>10. CASE ~(BonsaiLeaf[<<b.row, b.del>>] <= merge.leaf)
    <3>1. BonsaiLeaf[<<b.row, b.del>>] \in 1..Leaves /\ merge.leaf \in Nat /\ Leaves \in Nat
      BY <1>1, <2>1, KeyFields, LeavesAssumption, MergeFields
    <3>2. merge.leaf # Leaves
      BY <2>10, <3>1
    <3>3. ~NeedsLeaf
      BY <3>2 DEF Moves
    <3>4. rest # {}
      BY <1>2, <2>3, <3>3 DEF NeedsLeaf
    <3>5. f \in merge.work /\ f \in Keys /\ k.row < f.row
      BY <2>3, <2>5, <2>8, <3>4
    <3>6. BonsaiLeaf[<<f.row, f.del>>] <= merge.leaf
      BY <1>1, <3>5, WorkKey
    <3>7. f.row \in Rows /\ f.del \in BOOLEAN /\ b.row \in Rows /\ b.del \in BOOLEAN
      BY <2>1, <3>5, KeyFields
    <3>8. BonsaiLeaf[<<b.row, b.del>>] <= BonsaiLeaf[<<f.row, f.del>>]
      BY <2>1, <3>5, <3>7, LeavesAssumption
    <3>9. BonsaiLeaf[<<f.row, f.del>>] \in 1..Leaves
      BY <3>7, LeavesAssumption
    <3> QED
      BY <2>10, <3>1, <3>6, <3>8, <3>9
  <2> QED
    BY <2>9, <2>10
<1> QED
  BY <1>9 DEF InBonsai


\* The row of the key that is moved next.
LEMMA MoveRow ==
  ASSUME FateInv, RowsInv, Moves, NEW k, k = FirstKey(merge.work),
         NEW p, p = [k EXCEPT !.num = 0]
  PROVE  /\ k.row \in Rows /\ ~Gone(p) /\ p \in written /\ Fate(p.id) = "commit"
         /\ p.row = k.row /\ p.del = k.del
         /\ ~Removed(k.row)
         /\ ~k.del => k.row \notin storage
         /\ k.del /\ Taken = {k} => k.row \in storage
         /\ k.del /\ Taken # {k} => k.row \notin storage
<1>1. BaseInv /\ Types /\ StmtInv /\ LevelInv /\ LeftInv /\ WorkInv
  BY DEF FateInv, BaseInv, RowsInv
<1>2. /\ k \in merge.work
      /\ \/ Taken = {k}
         \/ k.del /\ \E f \in merge.work : ~f.del /\ f.row = k.row /\ Taken = {k, f}
  BY <1>1, TakenKeys
<1>3. /\ k \in Keys /\ Fate(k.id) = "commit" /\ k.row \in Rows /\ k.del \in BOOLEAN
      /\ p \in written /\ p.row = k.row /\ p.del = k.del /\ p.id = k.id /\ InBonsai(p)
  <2>1. /\ k \in Keys /\ Fate(k.id) = "commit" /\ k.row \in Rows
        /\ p \in written /\ p.row = k.row /\ p.del = k.del /\ p.id = k.id /\ InBonsai(p)
    BY <1>1, <1>2, WorkKey
  <2> QED
    BY <2>1, KeyFields
<1>4. RowInv(k.row)
  BY <1>3 DEF RowsInv
<1>5. ~Removed(k.row)
  <2>1. CASE ~k.del
    <3>1. p \in Inserts(k.row)
      BY <1>3, <2>1 DEF Inserts
    <3> QED
      BY <1>3, <1>4, <3>1 DEF RowInv
  <2>2. CASE k.del
    <3>1. p \in Deletes(k.row)
      BY <1>3, <2>2 DEF Deletes
    <3>2. ASSUME NEW d \in Deletes(k.row), Gone(d)
          PROVE  FALSE
      <4>1. Fate(d.id) = "commit" /\ d # p
        BY <1>3, <3>2 DEF Gone
      <4> QED
        BY <1>3, <1>4, <3>1, <4>1 DEF RowInv
    <3> QED
      BY <3>2 DEF Removed
  <2> QED
    BY <1>3, <2>1, <2>2
<1>6. k.row \in storage <=> k.row \in Stored \/ \E i \in Inserts(k.row) : Gone(i)
  BY <1>4, <1>5 DEF RowInv
<1>7. ASSUME NEW i \in Inserts(k.row), InBonsai(i)
      PROVE  k.row \notin storage
  <2>1. ASSUME NEW h \in Inserts(k.row), Gone(h)
        PROVE  FALSE
    <3>1. h = i
      BY <1>4 DEF RowInv
    <3> QED
      BY <1>7, <2>1, <3>1 DEF Gone
  <2>2. k.row \notin Stored
    BY <1>4 DEF RowInv
  <2> QED
    BY <1>6, <2>1, <2>2
<1>8. ASSUME ~k.del
      PROVE  k.row \notin storage
  <2>1. p \in Inserts(k.row)
    BY <1>3, <1>8 DEF Inserts
  <2> QED
    BY <1>3, <1>7, <2>1
<1>9. ASSUME k.del, Taken = {k}
      PROVE  k.row \in storage
  <2>1. p \in Deletes(k.row) /\ Fate(p.id) = "commit"
    BY <1>3, <1>9 DEF Deletes
  <2>2. CASE k.row \in Stored
    BY <1>6, <2>2
  <2>3. CASE k.row \notin Stored
    <3>1. PICK i \in Inserts(k.row) : Precedes(i, p)
      BY <1>4, <2>1, <2>3 DEF RowInv
    <3>2. Fate(i.id) = "commit"
      BY <1>1, <1>3, <2>1, <3>1, DeleteOfOld DEF Inserts
    <3>3. ~InBonsai(i)
      BY <1>9, MoveAlone
    <3> QED
      BY <1>6, <3>2, <3>3 DEF Gone
  <2> QED
    BY <2>2, <2>3
<1>10. ASSUME k.del, Taken # {k}
       PROVE  k.row \notin storage
  <2>1. PICK f \in merge.work : ~f.del /\ f.row = k.row
    BY <1>2, <1>10
  <2>2. PICK q : q = [f EXCEPT !.num = 0]
    OBVIOUS
  <2>3. q \in written /\ q.row = f.row /\ q.del = f.del /\ InBonsai(q)
    BY <1>1, <2>2, WorkKey
  <2>4. q \in Inserts(k.row)
    BY <2>1, <2>3 DEF Inserts
  <2> QED
    BY <1>7, <2>3, <2>4
<1> QED
  BY <1>3, <1>5, <1>8, <1>9, <1>10 DEF Gone

\* A move keeps what is known of every row.
LEMMA RowMove ==
  ASSUME FateInv, RowsInv, MergeMove, NEW r \in Rows
  PROVE  RowInv(r)'
<1>1. /\ BaseInv /\ Types /\ StmtInv /\ LevelInv /\ LeftInv /\ WorkInv /\ RowInv(r) /\ Moves
  BY DEF FateInv, BaseInv, RowsInv, MergeMove
<1>2. UNCHANGED <<trxs, stmt, written>>
  BY DEF MergeMove
<1>3. PICK k, p : k = FirstKey(merge.work) /\ p = [k EXCEPT !.num = 0]
  OBVIOUS
<1>4. /\ storage' = IF ~k.del THEN storage \cup {k.row}
                    ELSE IF Taken = {k} THEN storage \ {k.row} ELSE storage
  BY <1>3 DEF MergeMove
<1>5. /\ k \in Taken /\ \A j \in Taken : j.row = k.row
      /\ Taken \subseteq merge.work
      /\ \/ Taken = {k}
         \/ k.del /\ \E f \in merge.work : ~f.del /\ f.row = k.row /\ Taken = {k, f}
  BY <1>1, <1>3, TakenKeys
<1>6. /\ k.row \in Rows /\ ~Gone(p) /\ p \in written /\ Fate(p.id) = "commit"
      /\ p.row = k.row /\ p.del = k.del
      /\ ~Removed(k.row)
      /\ ~k.del => k.row \notin storage
      /\ k.del /\ Taken = {k} => k.row \in storage
      /\ k.del /\ Taken # {k} => k.row \notin storage
  BY <1>1, <1>3, MoveRow
<1>7. /\ Inserts(r)' = Inserts(r) /\ Deletes(r)' = Deletes(r)
      /\ \A i \in written : Fate(i.id)' = Fate(i.id)
      /\ \A i, d \in written : Precedes(i, d)' <=> Precedes(i, d)
  BY <1>2 DEF Inserts, Deletes, Fate, Precedes, trxs
<1>8. \A i \in written : InBonsai(i)' <=> InBonsai(i) /\ \A m \in Taken : [m EXCEPT !.num = 0] # i
  BY <1>1, InBonsaiMove
<1>9. \A m \in Taken : [m EXCEPT !.num = 0].row = k.row /\ [m EXCEPT !.num = 0].del = m.del
  BY <1>1, <1>5, WorkKey
<1>10. Inserts(r) \subseteq written /\ Deletes(r) \subseteq written
  BY DEF Inserts, Deletes
<1>11. /\ \A i, j \in Inserts(r) : i = j
       /\ Inserts(r) # {} => r \notin Stored
       /\ \A d, e \in Deletes(r) : d # e => Fate(d.id) = "abort" \/ Fate(e.id) = "abort"
       /\ \A d \in Deletes(r) : Fate(d.id) # "abort" =>
            r \in Stored \/ \E i \in Inserts(r) : Precedes(i, d)
  BY <1>1 DEF RowInv
<1>12. /\ Removed(r) => r \notin storage /\ \A i \in Inserts(r) : ~InBonsai(i)
       /\ ~Removed(r) => (r \in storage <=> r \in Stored \/ \E i \in Inserts(r) : Gone(i))
  BY <1>1 DEF RowInv
<1>13. /\ Removed(r)' => r \notin storage' /\ \A i \in Inserts(r) : ~InBonsai(i)'
       /\ ~Removed(r)' => (r \in storage' <=> r \in Stored \/ \E i \in Inserts(r) : Gone(i)')
  <2>1. CASE r # k.row
    <3>1. \A i \in Inserts(r) \cup Deletes(r) : i.row = r
      BY DEF Inserts, Deletes
    <3>2. \A i \in Inserts(r) \cup Deletes(r) : InBonsai(i)' <=> InBonsai(i)
      BY <1>8, <1>9, <1>10, <2>1, <3>1
    <3>3. \A i \in Inserts(r) \cup Deletes(r) : Gone(i)' <=> Gone(i)
      BY <1>7, <1>10, <3>2 DEF Gone
    <3>4. Removed(r)' <=> Removed(r)
      BY <1>7, <3>3 DEF Removed
    <3>5. r \in storage' <=> r \in storage
      BY <1>4, <2>1
    <3> QED
      BY <1>12, <3>2, <3>3, <3>4, <3>5
  <2>2. CASE r = k.row /\ ~k.del
    <3>1. Taken = {k}
      BY <1>5, <2>2
    <3>2. p \in Inserts(r) /\ ~InBonsai(p)'
      BY <1>3, <1>6, <1>8, <2>2, <3>1 DEF Inserts
    <3>3. Gone(p)'
      BY <1>6, <1>7, <3>2 DEF Gone
    <3>4. \A d \in Deletes(r) : d # p
      BY <1>6, <2>2 DEF Deletes
    <3>5. \A d \in Deletes(r) : Gone(d)' <=> Gone(d)
      BY <1>3, <1>7, <1>8, <1>10, <3>1, <3>4 DEF Gone
    <3>6. ~Removed(r)'
      BY <1>6, <1>7, <2>2, <3>5 DEF Removed
    <3>7. r \in storage'
      BY <1>4, <2>2
    <3> QED
      BY <3>2, <3>3, <3>6, <3>7
  <2>3. CASE r = k.row /\ k.del
    <3>1. p \in Deletes(r) /\ ~InBonsai(p)'
      BY <1>3, <1>5, <1>6, <1>8, <2>3 DEF Deletes
    <3>2. Removed(r)'
      BY <1>6, <1>7, <3>1 DEF Removed, Gone
    <3>3. r \notin storage'
      BY <1>4, <1>6, <2>3
    <3>4. ASSUME NEW i \in Inserts(r)
          PROVE  ~InBonsai(i)'
      <4>1. CASE Taken = {k}
        <5>1. ~InBonsai(i)
          BY <1>1, <1>3, <2>3, <4>1, MoveAlone
        <5> QED
          BY <1>8, <1>10, <5>1
      <4>2. CASE Taken # {k}
        <5>1. PICK f \in merge.work : ~f.del /\ f.row = k.row /\ Taken = {k, f}
          BY <1>5, <4>2
        <5>2. PICK q : q = [f EXCEPT !.num = 0]
          OBVIOUS
        <5>3. q \in written /\ q.row = f.row /\ q.del = f.del
          BY <1>1, <5>2, WorkKey
        <5>4. q \in Inserts(r)
          BY <2>3, <5>1, <5>3 DEF Inserts
        <5>5. q = i
          BY <1>11, <5>4
        <5> QED
          BY <1>8, <1>10, <5>1, <5>2, <5>5
      <4> QED
        BY <4>1, <4>2
    <3> QED
      BY <3>2, <3>3, <3>4
  <2> QED
    BY <1>6, <2>1, <2>2, <2>3
<1>14. \A d \in Deletes(r) : Fate(d.id)' # "abort" =>
            r \in Stored \/ \E i \in Inserts(r) : Precedes(i, d)'
  BY <1>7, <1>10, <1>11
<1> QED
  BY <1>7, <1>10, <1>11, <1>13, <1>14 DEF RowInv


\* An insert that came before a delete still does.
LEMMA PrecedesStep ==
  ASSUME Types, StmtInv, [Next]_vars, NEW k, k.id \in 1..trxid, NEW d, d.id \in 1..trxid,
         Precedes(k, d)
  PROVE  Precedes(k, d)'
<1>1. PICK t \in Trx : t = stmt[d.id].trx
  BY StmtAt
<1>2. /\ stmt'[d.id].trx = t /\ stmt'[k.id].trx = stmt[k.id].trx
      /\ stmt[k.id].st = "done" => stmt'[k.id].st = "done"
  BY <1>1, StmtStep
<1>3. trxst[t] # "new"
  BY <1>1 DEF StmtInv
<1>4. level'[t] = level[t]
  BY <1>3, TrxStep
<1>5. Fate(k.id) = "commit" => Fate(k.id)' = "commit" /\ num'[stmt'[k.id].trx] = num[stmt[k.id].trx]
  BY FateStep
<1> QED
  BY <1>1, <1>2, <1>4, <1>5 DEF Precedes

\* A step that neither moves nor writes the row keeps what is known of it.
LEMMA RowKept ==
  ASSUME FateInv, RowsInv, [Next]_vars, ~MergeMove, NEW r \in Rows,
         storage' = storage, Inserts(r)' = Inserts(r), Deletes(r)' = Deletes(r)
  PROVE  RowInv(r)'
<1>1. BaseInv /\ Types /\ StmtInv /\ LeftInv
  BY DEF FateInv, BaseInv, RowsInv
<1>2. /\ \A i, j \in Inserts(r) : i = j
      /\ Inserts(r) # {} => r \notin Stored
      /\ \A d, e \in Deletes(r) : d # e => Fate(d.id) = "abort" \/ Fate(e.id) = "abort"
      /\ \A d \in Deletes(r) : Fate(d.id) # "abort" =>
           r \in Stored \/ \E i \in Inserts(r) : Precedes(i, d)
      /\ Removed(r) => r \notin storage /\ \A i \in Inserts(r) : ~InBonsai(i)
      /\ ~Removed(r) => (r \in storage <=> r \in Stored \/ \E i \in Inserts(r) : Gone(i))
  BY DEF RowsInv, RowInv
<1>3. Inserts(r) \subseteq written /\ Deletes(r) \subseteq written
  BY DEF Inserts, Deletes
<1>4. \A i \in written : i.id \in 1..trxid
  BY <1>1, WrittenKey
<1>5. \A i \in written : /\ Gone(i)' <=> Gone(i)
                         /\ InBonsai(i)' => InBonsai(i)
                         /\ Fate(i.id) = "abort" => Fate(i.id)' = "abort"
  BY <1>1, <1>4, GoneStep, InBonsaiStep, FateStep
<1>6. \A i, d \in written : Precedes(i, d) => Precedes(i, d)'
  BY <1>1, <1>4, PrecedesStep
<1>7. Removed(r)' <=> Removed(r)
  BY <1>3, <1>5 DEF Removed
<1>8. \A d, e \in Deletes(r) : d # e => Fate(d.id)' = "abort" \/ Fate(e.id)' = "abort"
  BY <1>2, <1>3, <1>5
<1>9. \A d \in Deletes(r) : Fate(d.id)' # "abort" =>
           r \in Stored \/ \E i \in Inserts(r) : Precedes(i, d)'
  <2> SUFFICES ASSUME NEW d \in Deletes(r), Fate(d.id)' # "abort", r \notin Stored
               PROVE  \E i \in Inserts(r) : Precedes(i, d)'
    OBVIOUS
  <2>1. Fate(d.id) # "abort"
    BY <1>3, <1>5
  <2>2. PICK i \in Inserts(r) : Precedes(i, d)
    BY <1>2, <2>1
  <2> QED
    BY <1>3, <1>6, <2>2
<1>10. Removed(r)' => r \notin storage' /\ \A i \in Inserts(r) : ~InBonsai(i)'
  BY <1>2, <1>3, <1>5, <1>7
<1>11. ~Removed(r)' => (r \in storage' <=> r \in Stored \/ \E i \in Inserts(r) : Gone(i)')
  BY <1>2, <1>3, <1>5, <1>7
<1> QED
  BY <1>2, <1>8, <1>9, <1>10, <1>11 DEF RowInv

\* A row that is inserted.
LEMMA RowInsert ==
  ASSUME FateInv, RowsInv, [Next]_vars, NEW t \in Trx, NEW i \in 1..trxid, NEW r \in Rows,
         NEW del \in BOOLEAN, ~del, Write(t, i, r, del)
  PROVE  RowInv(r)'
<1>1. BaseInv /\ LeftInv
  BY DEF FateInv, BaseInv, RowsInv
<1>2. PICK w : w = [row |-> r, del |-> del, id |-> i, num |-> 0]
  OBVIOUS
<1>3. /\ w.row = r /\ ~w.del /\ w.id = i /\ Fate(i) = "begin"
  BY <1>1, <1>2, Fresh
<1>4. /\ written' = written \cup {w} /\ UNCHANGED <<trxs, stmt, storage>>
      /\ r \notin Stored /\ \A k \in written : k.row # r
  BY <1>2 DEF Write, MayInsert
<1>5. Inserts(r) = {} /\ Deletes(r) = {}
  BY <1>4 DEF Inserts, Deletes
<1>6. Inserts(r)' = {w} /\ Deletes(r)' = {}
  BY <1>3, <1>4 DEF Inserts, Deletes
<1>7. ~Removed(r) /\ ~Removed(r)'
  BY <1>5, <1>6 DEF Removed
<1>8. r \notin storage
  BY <1>4, <1>5, <1>7 DEF RowsInv, RowInv
<1>9. ~Gone(w)'
  BY <1>3, <1>4 DEF Gone, Fate, trxs
<1> QED
  BY <1>4, <1>6, <1>7, <1>8, <1>9 DEF RowInv

\* A row that is deleted: it was there for the transaction, and whoever deleted
\* it before has been rolled back.
LEMMA RowDelete ==
  ASSUME FateInv, RowsInv, [Next]_vars, NEW t \in Trx, NEW i \in 1..trxid, NEW r \in Rows,
         NEW del \in BOOLEAN, del, Write(t, i, r, del)
  PROVE  RowInv(r)'
<1>1. BaseInv /\ Types /\ StmtInv /\ LeftInv /\ LevelInv
  BY DEF FateInv, BaseInv, RowsInv
<1>2. PICK w : w = [row |-> r, del |-> del, id |-> i, num |-> 0]
  OBVIOUS
<1>3. /\ w \notin written /\ w.row = r /\ w.del /\ w.id = i /\ Fate(i) = "begin"
      /\ stmt[i].trx = t /\ trxst[t] = "begin" /\ stmt[i].st = "open"
  <2>1. stmt[i].st = "open"
    BY DEF Write, Open
  <2>2. w.row = r /\ w.id = i /\ stmt[i].trx = t
    BY <1>2 DEF Write, Open
  <2>3. w.del
    BY <1>2
  <2>4. WriteKey(w)
    BY <1>2 DEF WriteKey
  <2>5. w \notin written /\ Fate(w.id) = "begin" /\ trxst[stmt[w.id].trx] = "begin"
    BY <1>1, <2>4, FreshKey
  <2> QED
    BY <2>1, <2>2, <2>3, <2>5
<1>4. /\ written' = written \cup {w} /\ UNCHANGED <<trxs, stmt, storage>>
      /\ \/ r \in storage
         \/ \E k \in bonsai : k.row = r /\ ~k.del /\ Accepts(t, i, k)
      /\ \A k \in bonsai : k.row = r /\ k.del => k.num = 0 /\ Lookup(k.id) = "abort"
  BY <1>2 DEF Write, MayDelete
<1>5. /\ \A j, k \in Inserts(r) : j = k
      /\ Inserts(r) # {} => r \notin Stored
      /\ \A d, e \in Deletes(r) : d # e => Fate(d.id) = "abort" \/ Fate(e.id) = "abort"
      /\ \A d \in Deletes(r) : Fate(d.id) # "abort" =>
           r \in Stored \/ \E j \in Inserts(r) : Precedes(j, d)
      /\ Removed(r) => r \notin storage /\ \A j \in Inserts(r) : ~InBonsai(j)
      /\ ~Removed(r) => (r \in storage <=> r \in Stored \/ \E j \in Inserts(r) : Gone(j))
  BY DEF RowsInv, RowInv
<1>6. Inserts(r)' = Inserts(r) /\ Deletes(r)' = Deletes(r) \cup {w}
  BY <1>3, <1>4 DEF Inserts, Deletes
<1>7. Inserts(r) \subseteq written /\ Deletes(r) \subseteq written
  BY DEF Inserts, Deletes
<1>8. ~MergeMove
  BY <1>3, <1>4 DEF MergeMove
<1>9. \A k \in written : /\ Gone(k)' <=> Gone(k)
                         /\ InBonsai(k)' => InBonsai(k)
                         /\ Fate(k.id)' = Fate(k.id)
                         /\ k.id \in 1..trxid
  <2>1. \A k \in written : Fate(k.id)' = Fate(k.id)
    BY <1>4 DEF Fate, trxs
  <2> QED
    BY <1>1, <1>8, <2>1, GoneStep, InBonsaiStep, WrittenKey
<1>10. ASSUME NEW k \in bonsai, k.row = r, ~k.del
       PROVE  \E j \in Inserts(r) : j.id = k.id /\ InBonsai(j)
  <2>1. PICK j : j = [k EXCEPT !.num = 0]
    OBVIOUS
  <2>2. j \in written /\ j.row = r /\ ~j.del /\ j.id = k.id /\ InBonsai(j)
    BY <1>10, <2>1, TreeKey
  <2> QED
    BY <2>2 DEF Inserts
<1>11. ~Removed(r)
  BY <1>4, <1>5, <1>10
<1>12. \A d \in Deletes(r) : Fate(d.id) = "abort"
  <2> SUFFICES ASSUME NEW d \in Deletes(r)
               PROVE  Fate(d.id) = "abort"
    OBVIOUS
  <2>1. CASE InBonsai(d)
    <3>1. PICK b \in bonsai : d = [b EXCEPT !.num = 0]
      BY <2>1 DEF InBonsai
    <3>2. b.row = r /\ b.del /\ b.id = d.id /\ FateKnown(b)
      BY <3>1, TreeKey DEF Deletes
    <3>3. b.num = 0 /\ Lookup(b.id) = "abort"
      BY <1>4, <3>2
    <3> QED
      BY <3>2, <3>3 DEF FateKnown
  <2>2. CASE ~InBonsai(d)
    BY <1>1, <1>7, <1>11, <2>2 DEF LeftInv, Removed, Gone
  <2> QED
    BY <2>1, <2>2
<1>13. r \in Stored \/ \E j \in Inserts(r) : Precedes(j, w)
  <2>1. CASE r \in storage
    <3>1. CASE r \in Stored
      BY <3>1
    <3>2. ASSUME NEW j \in Inserts(r), Gone(j)
          PROVE  Precedes(j, w)
      <4>1. Fate(j.id) = "commit" /\ num[stmt[j.id].trx] <= merge.level
        BY <1>1, <1>7, <3>2 DEF LeftInv, Gone
      <4>2. merge.level <= level[t]
        BY <1>1, <1>3 DEF LevelInv
      <4>3. num[stmt[j.id].trx] \in Nat /\ merge.level \in Nat /\ level[t] \in Nat
        BY <1>1, <1>3, <1>7, <1>9, StmtAt, MergeFields
      <4>4. num[stmt[j.id].trx] <= level[t]
        BY <4>1, <4>2, <4>3
      <4> QED
        BY <1>3, <4>1, <4>4 DEF Precedes
    <3> QED
      BY <1>5, <1>11, <2>1, <3>1, <3>2
  <2>2. ASSUME NEW k \in bonsai, k.row = r, ~k.del, Accepts(t, i, k)
        PROVE  \E j \in Inserts(r) : Precedes(j, w)
    <3>1. PICK j \in Inserts(r) : j.id = k.id
      BY <1>10, <2>2
    <3>2. KeyOK(k) /\ FateKnown(k) /\ k.id \in 1..trxid
      BY TreeKey
    <3>3. CASE Fate(k.id) = "commit" /\ num[stmt[k.id].trx] <= level[t]
      BY <1>3, <3>1, <3>3 DEF Precedes
    <3>4. CASE Fate(k.id) = "begin" /\ stmt[k.id].trx = t
      <4>1. stmt[k.id].st \in {"open", "done"}
        BY <1>1, <3>2, <3>4, StmtAt DEF Fate
      <4>2. stmt[k.id].st = "open" => k.id = i
        BY <1>1, <1>3, <3>2, <3>4 DEF LevelInv
      <4> QED
        BY <1>3, <3>1, <3>4, <4>1, <4>2 DEF Precedes
    <3> QED
      BY <2>2, <3>2, <3>3, <3>4 DEF Accepts, FateKnown
  <2> QED
    BY <1>4, <2>1, <2>2
<1>14. \A j, d : Precedes(j, d)' <=> Precedes(j, d)
  BY <1>4 DEF Precedes, Fate, trxs
<1>15. ~Gone(w)'
  BY <1>3, <1>4 DEF Gone, Fate, trxs
<1>16. ~Removed(r)'
  BY <1>6, <1>7, <1>9, <1>11, <1>15 DEF Removed
<1>17. \A d, e \in Deletes(r)' : d # e => Fate(d.id)' = "abort" \/ Fate(e.id)' = "abort"
  BY <1>6, <1>7, <1>9, <1>12
<1>18. \A d \in Deletes(r)' : Fate(d.id)' # "abort" =>
           r \in Stored \/ \E j \in Inserts(r) : Precedes(j, d)'
  BY <1>6, <1>7, <1>9, <1>12, <1>13, <1>14
<1>19. r \in storage' <=> r \in Stored \/ \E j \in Inserts(r) : Gone(j)'
  BY <1>4, <1>5, <1>7, <1>9, <1>11
<1> QED
  BY <1>5, <1>6, <1>16, <1>17, <1>18, <1>19 DEF RowInv


\* The rows of the trees after every step.
LEMMA RowsStep ==
  ASSUME FateInv, RowsInv, [Next]_vars
  PROVE  RowsInv'
<1>1. BaseInv /\ Types /\ StmtInv /\ WrittenInv /\ LeftInv /\ LevelInv /\ WorkInv
  BY DEF FateInv, BaseInv, RowsInv
<1>2. LeftInv' /\ LevelInv' /\ WorkInv'
  BY <1>1, LeftStep, LevelStep, WorkStep
<1>3. ASSUME NEW r \in Rows
      PROVE  RowInv(r)'
  <2>1. CASE MergeMove
    BY <2>1, RowMove
  <2>2. ASSUME NEW t \in Trx, NEW i \in 1..trxid, NEW q \in Rows, NEW del \in BOOLEAN,
               Write(t, i, q, del)
        PROVE  RowInv(r)'
    <3>1. CASE q = r /\ del
      BY <2>2, <3>1, RowDelete
    <3>2. CASE q = r /\ ~del
      BY <2>2, <3>2, RowInsert
    <3>3. CASE q # r
      <4>1. PICK w : w = [row |-> q, del |-> del, id |-> i, num |-> 0]
        OBVIOUS
      <4>2. w.row = q /\ written' = written \cup {w} /\ storage' = storage /\ merge' = merge
        BY <2>2, <4>1 DEF Write
      <4>3. Inserts(r)' = Inserts(r) /\ Deletes(r)' = Deletes(r)
        BY <3>3, <4>2 DEF Inserts, Deletes
      <4>4. ~MergeMove
        <5>1. w \notin written
          <6>1. WriteKey(w)
            BY <2>2, <4>1 DEF WriteKey
          <6> QED
            BY <1>1, <6>1, FreshKey
        <5> QED
          BY <4>2, <5>1 DEF MergeMove
      <4> QED
        BY <4>2, <4>3, <4>4, RowKept
    <3> QED
      BY <3>1, <3>2, <3>3
  <2>3. CASE storage' = storage /\ written' = written /\ ~MergeMove
    BY <2>3, RowKept DEF Inserts, Deletes
  <2>4. ASSUME NEW t \in Trx,
               \/ Begin(t) \/ StmtBegin(t) \/ PublishAbortId(t) \/ \E c \in BOOLEAN : EndTrx(t, c)
               \/ \E i \in 1..trxid : AddStmt(t, i) \/ StmtCommit(t, i) \/ StmtRollback(t, i)
        PROVE  storage' = storage /\ written' = written
    BY <2>4 DEF Begin, StmtBegin, PublishAbortId, EndTrx, AddStmt, StmtCommit, StmtRollback, trees
  <2>5. ASSUME MergeStart \/ MergeMark \/ MergeLeaf \/ MergeEnd \/ MergeError \/ MergeStop \/ MergeClean
        PROVE  storage' = storage /\ written' = written
    BY <2>5 DEF MergeStart, MergeMark, MergeLeaf, MergeEnd, MergeError, MergeStop, MergeClean, trees
  <2>6. ASSUME NEW t \in Readers,
               SearchOpen(t) \/ SearchStore(t) \/ SearchNext(t) \/ SearchClose(t)
        PROVE  storage' = storage /\ written' = written
    BY <2>6 DEF SearchOpen, SearchStore, SearchNext, SearchClose, trees
  <2>7. ASSUME UNCHANGED vars
        PROVE  storage' = storage /\ written' = written
    BY <2>7 DEF vars, trees
  <2> QED
    BY <2>1, <2>2, <2>3, <2>4, <2>5, <2>6, <2>7 DEF Next
<1> QED
  BY <1>2, <1>3 DEF RowsInv

\* The initial state.
LEMMA InitRows ==
  ASSUME Init
  PROVE  RowsInv
<1>1. /\ trxid = 0 /\ written = {} /\ bonsai = {} /\ storage = Stored
      /\ trxst = [t \in Trx |-> "new"] /\ num = [t \in Trx |-> 0]
  BY DEF Init, trxid
<1>2. /\ merge.st = "off" /\ merge.level = 0 /\ merge.patch = 0 /\ merge.work = {}
  BY DEF Init, NoMerge
<1>3. \A r \in Rows : RowInv(r)
  BY <1>1 DEF RowInv, Inserts, Deletes, Removed
<1>4. LeftInv /\ LevelInv /\ WorkInv
  BY <1>1, <1>2 DEF LeftInv, LevelInv, WorkInv
<1> QED
  BY <1>3, <1>4 DEF RowsInv

\* Without errors before the last leaf the rows of the trees are known.
LEMMA RowsInvariant ==
  ASSUME ~EarlyErrors
  PROVE  Spec => [](FateInv /\ RowsInv)
<1>1. Init => RowsInv
  BY InitRows
<1>2. FateInv /\ RowsInv /\ [Next]_vars => RowsInv'
  BY RowsStep
<1>3. Spec => []FateInv
  BY FateInvariant
<1> QED
  BY <1>1, <1>2, <1>3, PTL DEF Spec

\* What a transaction accepts of the Bonsai tree is what it has to see.
LEMMA AcceptsSees ==
  ASSUME FateInv, NEW t, NEW k \in bonsai, NEW m
  PROVE  Accepts(t, m, k) <=> Sees(t, m, k.id)
<1>1. KeyOK(k) /\ FateKnown(k)
  <2>1. PICK p : p = [k EXCEPT !.num = 0]
    OBVIOUS
  <2> QED
    BY <2>1, TreeKey
<1>2. CASE k.num # 0
  BY <1>1, <1>2 DEF KeyOK, Accepts, Sees
<1>3. CASE k.num = 0
  BY <1>1, <1>3 DEF KeyOK, FateKnown, Accepts, Sees
<1> QED
  BY <1>2, <1>3

\* The trees hold for a transaction the rows of its level.
LEMMA TreesOfLevel ==
  ASSUME FateInv, RowsInv, NEW t \in Trx, trxst[t] = "begin", NEW m
  PROVE  InTrees(t, m) = Snapshot(t, m)
<1>1. BaseInv /\ Types /\ StmtInv /\ LeftInv /\ LevelInv
  BY DEF FateInv, BaseInv, RowsInv
<1>2. SUFFICES ASSUME NEW r \in Rows
               PROVE  (/\ r \in storage \/ \E k \in bonsai : k.row = r /\ ~k.del /\ Accepts(t, m, k)
                       /\ ~ \E k \in bonsai : k.row = r /\ k.del /\ Accepts(t, m, k))
                  <=> (/\ r \in Stored \/ \E k \in written : k.row = r /\ ~k.del /\ Sees(t, m, k.id)
                       /\ ~ \E k \in written : k.row = r /\ k.del /\ Sees(t, m, k.id))
  BY DEF InTrees, Snapshot
<1>3. ASSUME NEW k \in bonsai, Accepts(t, m, k)
      PROVE  \E j \in written : /\ j.row = k.row /\ j.del = k.del /\ Sees(t, m, j.id)
                                /\ InBonsai(j)
  <2>1. PICK j : j = [k EXCEPT !.num = 0]
    OBVIOUS
  <2>2. j \in written /\ j.row = k.row /\ j.del = k.del /\ j.id = k.id /\ InBonsai(j)
    BY <2>1, TreeKey
  <2> QED
    BY <1>3, <2>2, AcceptsSees
<1>4. ASSUME NEW j \in written, InBonsai(j), Sees(t, m, j.id)
      PROVE  \E k \in bonsai : k.row = j.row /\ k.del = j.del /\ Accepts(t, m, k)
  <2>1. PICK k \in bonsai : j = [k EXCEPT !.num = 0]
    BY <1>4 DEF InBonsai
  <2>2. j.row = k.row /\ j.del = k.del /\ j.id = k.id
    BY <2>1, TreeKey
  <2> QED
    BY <1>4, <2>2, AcceptsSees
<1>5. ASSUME NEW j \in written, ~InBonsai(j), Sees(t, m, j.id)
      PROVE  Gone(j)
  BY <1>1, <1>5 DEF LeftInv, Gone, Sees
<1>6. ASSUME NEW j \in written, Gone(j)
      PROVE  Sees(t, m, j.id)
  <2>1. Fate(j.id) = "commit" /\ num[stmt[j.id].trx] <= merge.level
    BY <1>1, <1>6 DEF LeftInv, Gone
  <2>2. merge.level <= level[t]
    BY <1>1 DEF LevelInv
  <2>3. num[stmt[j.id].trx] \in Nat /\ merge.level \in Nat /\ level[t] \in Nat
    <3>1. j.id \in 1..trxid
      BY <1>1, WrittenKey
    <3>2. level[t] \in Nat
      BY <1>1 DEF Types
    <3> QED
      BY <1>1, <3>1, <3>2, StmtAt, MergeFields
  <2>4. num[stmt[j.id].trx] <= level[t]
    BY <2>1, <2>2, <2>3
  <2> QED
    BY <2>1, <2>4 DEF Sees
<1>7. /\ Removed(r) => r \notin storage /\ \A i \in Inserts(r) : ~InBonsai(i)
      /\ ~Removed(r) => (r \in storage <=> r \in Stored \/ \E i \in Inserts(r) : Gone(i))
  BY DEF RowsInv, RowInv
<1>8. CASE Removed(r)
  <2>1. PICK d \in written : d.row = r /\ d.del /\ Gone(d)
    BY <1>8 DEF Removed, Deletes
  <2>2. Sees(t, m, d.id)
    BY <1>6, <2>1
  <2>3. r \notin storage
    BY <1>7, <1>8
  <2>4. ASSUME NEW k \in bonsai, k.row = r, ~k.del, Accepts(t, m, k)
        PROVE  FALSE
    <3>1. PICK j \in written : j.row = k.row /\ j.del = k.del /\ InBonsai(j)
      BY <1>3, <2>4
    <3>2. j \in Inserts(r)
      BY <2>4, <3>1 DEF Inserts
    <3> QED
      BY <1>7, <1>8, <3>1, <3>2
  <2> QED
    BY <2>1, <2>2, <2>3, <2>4
<1>9. CASE ~Removed(r)
  <2>1. (\E k \in bonsai : k.row = r /\ k.del /\ Accepts(t, m, k))
          <=> (\E k \in written : k.row = r /\ k.del /\ Sees(t, m, k.id))
    <3>1. ASSUME NEW k \in bonsai, k.row = r, k.del, Accepts(t, m, k)
          PROVE  \E j \in written : j.row = r /\ j.del /\ Sees(t, m, j.id)
      BY <1>3, <3>1
    <3>2. ASSUME NEW j \in written, j.row = r, j.del, Sees(t, m, j.id)
          PROVE  \E k \in bonsai : k.row = r /\ k.del /\ Accepts(t, m, k)
      <4>1. InBonsai(j)
        BY <1>5, <1>9, <3>2 DEF Removed, Deletes
      <4> QED
        BY <1>4, <3>2, <4>1
    <3> QED
      BY <3>1, <3>2
  <2>2. (r \in storage \/ \E k \in bonsai : k.row = r /\ ~k.del /\ Accepts(t, m, k))
          <=> (r \in Stored \/ \E k \in written : k.row = r /\ ~k.del /\ Sees(t, m, k.id))
    <3>1. ASSUME r \in storage
          PROVE  r \in Stored \/ \E k \in written : k.row = r /\ ~k.del /\ Sees(t, m, k.id)
      BY <1>6, <1>7, <1>9, <3>1 DEF Inserts
    <3>2. ASSUME NEW k \in bonsai, k.row = r, ~k.del, Accepts(t, m, k)
          PROVE  \E j \in written : j.row = r /\ ~j.del /\ Sees(t, m, j.id)
      BY <1>3, <3>2
    <3>3. ASSUME r \in Stored
          PROVE  r \in storage
      BY <1>7, <1>9, <3>3
    <3>4. ASSUME NEW j \in written, j.row = r, ~j.del, Sees(t, m, j.id)
          PROVE  r \in storage \/ \E k \in bonsai : k.row = r /\ ~k.del /\ Accepts(t, m, k)
      <4>1. CASE InBonsai(j)
        BY <1>4, <3>4, <4>1
      <4>2. CASE ~InBonsai(j)
        <5>1. j \in Inserts(r) /\ Gone(j)
          BY <1>5, <3>4, <4>2 DEF Inserts
        <5> QED
          BY <1>7, <1>9, <5>1
      <4> QED
        BY <4>1, <4>2
    <3> QED
      BY <3>1, <3>2, <3>3, <3>4
  <2> QED
    BY <2>1, <2>2
<1> QED
  BY <1>8, <1>9

\* SnapshotKept: whatever the merge has patched, moved and cleaned, the two
\* trees and the buffer hold for every running transaction exactly the rows of
\* its level (dbe_indmerge_advance, dbe_trxbuf_clean), as long as no merge runs
\* out of disk space before its last leaf.
THEOREM SnapshotKeptCorrect ==
  ASSUME ~EarlyErrors
  PROVE  Spec => []SnapshotKept
<1>1. FateInv /\ RowsInv => SnapshotKept
  BY TreesOfLevel DEF SnapshotKept
<1> QED
  BY <1>1, RowsInvariant, PTL

\* MovesFit: what the merge moves is still in the Bonsai tree, a row comes to the
\* storage tree once, and a delete mark without its row finds the row there
\* (indmerge_advance_normal).
THEOREM MovesFitCorrect ==
  ASSUME ~EarlyErrors
  PROVE  Spec => []MovesFit
<1>1. FateInv /\ RowsInv => MovesFit
  <2> SUFFICES ASSUME FateInv, RowsInv, Moves
               PROVE  LET k == FirstKey(merge.work)
                      IN /\ Taken \subseteq bonsai
                         /\ ~k.del => k.row \notin storage
                         /\ Taken = {k} /\ k.del => k.row \in storage
    BY DEF MovesFit
  <2>1. PICK k, p : k = FirstKey(merge.work) /\ p = [k EXCEPT !.num = 0]
    OBVIOUS
  <2>2. WorkInv /\ Taken \subseteq merge.work
    BY <2>1, TakenKeys DEF RowsInv
  <2>3. Taken \subseteq bonsai
    BY <2>2 DEF WorkInv
  <2>4. /\ ~k.del => k.row \notin storage
        /\ k.del /\ Taken = {k} => k.row \in storage
    BY <2>1, MoveRow
  <2> QED
    BY <2>1, <2>3, <2>4
<1> QED
  BY <1>1, RowsInvariant, PTL
=============================================================================
