-------------------------------- MODULE Mvcc --------------------------------
(***************************************************************************)
(* Versions of rows: the transaction buffer of src/dbe/dbe7trxb.c, the     *)
(* merge of src/dbe/dbe5imrg.c and the index search of src/dbe/dbe5isea.c. *)
(*                                                                         *)
(* A new row version is a key in the Bonsai tree, a delete is a delete     *)
(* mark for it there.  A key carries the id of its statement; whether that *)
(* is committed, and with which number, is looked up in the transaction    *)
(* buffer until the key is patched with the number.  The merge visits the  *)
(* leaves of the Bonsai tree, patches them, moves what everybody sees to   *)
(* the storage tree, and at its end removes from the buffer what no key    *)
(* needs any more.  A search reads both trees through a buffered copy of   *)
(* a leaf of each while all this happens.                                  *)
(*                                                                         *)
(* Row versions (v-tuples) are numbers in key order, used once.  The       *)
(* commit pipeline of module Gtrs is one step here, and the default        *)
(* configuration is modelled: MergeCleanup=no, SplitPurge=no.              *)
(***************************************************************************)
EXTENDS Integers, Sequences, FiniteSetsExt

CONSTANTS
  Trx,          \* transactions
  Writers,      \* those that run statements
  Readers,      \* those that run a search
  Rows,         \* row versions, 1..n in key order
  Stored,       \* the rows the storage tree starts with
  BonsaiLeaf,   \* the leaf of the Bonsai tree for a row and a delete mark
  StorageLeaf,  \* the leaf of the storage tree for a row
  Leaves,       \* their number, of each tree
  MaxId,        \* bound: statement ids
  MaxWrites,    \* bound: keys a statement writes
  MaxMerges,    \* bound: merges
  EarlyErrors,  \* may the merge run out of disk space before its last leaf?
  InitRace      \* may a merge start while a search stores the merge flag?

ASSUME BoundsAssumption ==
  /\ {MaxId, MaxWrites, MaxMerges, Leaves} \subseteq Nat
  /\ Writers \cup Readers \subseteq Trx /\ Rows \subseteq Nat /\ Stored \subseteq Rows
  /\ {EarlyErrors, InitRace} \subseteq BOOLEAN

ASSUME LeavesAssumption ==
  /\ BonsaiLeaf \in [Rows \X BOOLEAN -> 1..Leaves]
  /\ StorageLeaf \in [Rows -> 1..Leaves]
  /\ \A r, s \in Rows, d, e \in BOOLEAN :
       r < s \/ (r = s /\ d) => BonsaiLeaf[<<r, d>>] <= BonsaiLeaf[<<s, e>>]
  /\ \A r, s \in Rows : r < s => StorageLeaf[r] <= StorageLeaf[s]

VARIABLES
  trxst,       \* ti_state of a user transaction
  num,         \* its ti_committrxnum
  level,       \* its tc_maxtrxnum: read level
  pending,     \* the abort id its end has still to publish
  stmt,        \* statements by id: the transaction and how it went
  trxbuf,      \* the statement ids the buffer holds
  maxtrxnum,
  aborttrxid,  \* tb_aborttrxid
  bonsai,      \* keys of the Bonsai tree
  storage,     \* rows of the storage tree
  written,     \* history: every key ever written
  merge,       \* dbe_indmerge_t
  sea          \* dbe_indsea_t of a reader

trxs  == <<trxst, num, level, pending, maxtrxnum>>
buf   == <<trxbuf, aborttrxid>>
trees == <<bonsai, storage, written>>
vars  == <<trxs, stmt, buf, trees, merge, sea>>

Ids  == 1..MaxId
Keys == [row : Rows, del : BOOLEAN, id : 0..MaxId, num : Nat]

\* The statement id counter.
trxid == Len(stmt)

\* Keys in tree order: by row, delete marks first, then by statement id.
RowOf(p) == p \div (2 * (MaxId + 1))
RowEnd(r) == 2 * (MaxId + 1) * (r + 1) - 1
Pos(k) == 2 * (MaxId + 1) * k.row + (IF k.del THEN 0 ELSE MaxId + 1) + k.id

StorageKey(r) == [row |-> r, del |-> FALSE, id |-> 0, num |-> 0]

FirstKey(S) == CHOOSE k \in S : \A j \in S : Pos(k) <= Pos(j)

After(S, p) == {k \in S : Pos(k) > p}

NoSearch ==
  [st |-> "new", active |-> FALSE, reset |-> FALSE, ingate |-> FALSE,
   deletenext |-> FALSE, edge |-> "no", pos |-> 0, bbuf |-> {}, sbuf |-> {},
   out |-> {}, maxid |-> 0, seen |-> FALSE]

NoMerge ==
  [st |-> "off", full |-> FALSE, level |-> 0, patch |-> 0, abortid |-> 0,
   leaf |-> 0, work |-> {}, ended |-> FALSE, readonly |-> FALSE, count |-> 0]

Init ==
  /\ trxst = [t \in Trx |-> "new"]
  /\ num = [t \in Trx |-> 0]
  /\ level = [t \in Trx |-> 0]
  /\ pending = [t \in Trx |-> 0]
  /\ stmt = << >>
  /\ trxbuf = {}
  /\ maxtrxnum = 0 /\ aborttrxid = 0
  /\ bonsai = {} /\ storage = Stored /\ written = {}
  /\ merge = NoMerge
  /\ sea = [t \in Readers |-> NoSearch]

-----------------------------------------------------------------------------
(***************************************************************************)
(* The buffer and what a reader accepts                                    *)
(***************************************************************************)

\* dbe_trxbuf_gettrxstate: a statement that was rolled back has a
\* transaction info of its own, all others share that of their transaction.
\* An id that is not there is taken for aborted up to the abort id, and for
\* one that is not yet added above it.
Fate(i) == IF stmt[i].st = "aborted" THEN "abort" ELSE trxst[stmt[i].trx]

Lookup(i) ==
  IF i \in trxbuf THEN Fate(i)
  ELSE IF i <= aborttrxid THEN "abort" ELSE "begin"

\* dbe_btrsea_checktimecons: what t sees of the Bonsai tree, with its own
\* statements up to maxid.
Accepts(t, maxid, k) ==
  IF k.num # 0
  THEN k.num <= level[t]
  ELSE \/ Lookup(k.id) = "commit" /\ num[stmt[k.id].trx] <= level[t]
       \/ /\ Lookup(k.id) = "begin" /\ k.id \in trxbuf
          /\ stmt[k.id].trx = t /\ k.id <= maxid

\* The last statement t has finished.
Finished(t) == {i \in 1..trxid : stmt[i].trx = t /\ stmt[i].st # "open"}
ReadId(t)   == IF Finished(t) = {} THEN 0 ELSE Max(Finished(t))

\* dbe_bnode_cleanup: committed keys get their number, aborted ones go.
Patched(k) ==
  IF k.num = 0 /\ Lookup(k.id) = "commit"
  THEN [k EXCEPT !.num = num[stmt[k.id].trx]] ELSE k

Cleaned(S) == {Patched(k) : k \in {j \in S : j.num # 0 \/ Lookup(j.id) # "abort"}}

InLeaf(S, l)   == {k \in S : BonsaiLeaf[<<k.row, k.del>>] = l}
CleanLeaf(S, l) == (S \ InLeaf(S, l)) \cup Cleaned(InLeaf(S, l))

-----------------------------------------------------------------------------
(***************************************************************************)
(* Transactions and statements                                             *)
(***************************************************************************)

Begin(t) ==
  /\ trxst[t] = "new"
  /\ trxst' = [trxst EXCEPT ![t] = "begin"]
  /\ level' = [level EXCEPT ![t] = maxtrxnum]
  /\ UNCHANGED <<num, pending, maxtrxnum, stmt, buf, trees, merge, sea>>

Open(t, i) == stmt[i].trx = t /\ stmt[i].st = "open"

StmtBegin(t) ==
  /\ t \in Writers /\ trxst[t] = "begin" /\ trxid < MaxId
  /\ \A i \in 1..trxid : ~Open(t, i)
  /\ stmt' = Append(stmt, [trx |-> t, st |-> "open"])
  /\ UNCHANGED <<trxs, buf, trees, merge, sea>>

\* The first write of a statement puts it into the buffer, before any key of
\* it is in the tree.
AddStmt(t, i) ==
  /\ Open(t, i) /\ i \notin trxbuf
  /\ trxbuf' = trxbuf \cup {i}
  /\ UNCHANGED <<trxs, stmt, aborttrxid, trees, merge, sea>>

\* The row is there for t, and nobody has deleted it in the meantime.
MayDelete(t, i, r) ==
  /\ \/ r \in storage
     \/ \E k \in bonsai : k.row = r /\ ~k.del /\ Accepts(t, i, k)
  /\ \A k \in bonsai : k.row = r /\ k.del => k.num = 0 /\ Lookup(k.id) = "abort"

Wrote(t) == \E k \in written : stmt[k.id].trx = t

MayInsert(r) == r \notin Stored /\ \A k \in written : k.row # r

\* A key is written to a leaf, which is cleaned when it has to be split.  A
\* transaction that has not written cannot start to in a read-only database.
Write(t, i, r, del) ==
  /\ Open(t, i) /\ i \in trxbuf
  /\ merge.readonly => Wrote(t)
  /\ Cardinality({k \in written : k.id = i}) < MaxWrites
  /\ IF del THEN MayDelete(t, i, r) ELSE MayInsert(r)
  /\ LET k == [row |-> r, del |-> del, id |-> i, num |-> 0]
         b == bonsai \cup {k}
     IN /\ written' = written \cup {k}
        /\ \E split \in BOOLEAN :
             bonsai' = IF split THEN CleanLeaf(b, BonsaiLeaf[<<r, del>>]) ELSE b
  /\ UNCHANGED <<trxs, stmt, buf, storage, merge, sea>>

StmtCommit(t, i) ==
  /\ Open(t, i)
  /\ stmt' = [stmt EXCEPT ![i].st = "done"]
  /\ UNCHANGED <<trxs, buf, trees, merge, sea>>

StmtRollback(t, i) ==
  /\ Open(t, i)
  /\ stmt' = [stmt EXCEPT ![i].st = "aborted"]
  /\ trxbuf' = trxbuf \cup {i}
  /\ UNCHANGED <<trxs, aborttrxid, trees, merge, sea>>

\* Mutant of EndTrx: the abort id is the next statement id.
EndTrx_NextId(t, commit) ==
  /\ trxst[t] = "begin"
  /\ \A i \in 1..trxid : ~Open(t, i)
  /\ t \in Readers => sea[t].st \in {"new", "end"}
  /\ commit /\ merge.readonly => ~Wrote(t)
  /\ trxst' = [trxst EXCEPT ![t] = IF commit THEN "commit" ELSE "abort"]
  /\ IF commit /\ Wrote(t)
       THEN /\ maxtrxnum' = maxtrxnum + 1
            /\ num' = [num EXCEPT ![t] = maxtrxnum']
       ELSE UNCHANGED <<maxtrxnum, num>>
  /\ pending' = [pending EXCEPT ![t] = trxid + 1]
  /\ UNCHANGED <<level, stmt, buf, trees, merge, sea>>

\* The end in the gate: the state, the number, and the abort id it will
\* publish when it has left the gate.
EndTrx(t, commit) ==
  /\ trxst[t] = "begin"
  /\ \A i \in 1..trxid : ~Open(t, i)
  /\ t \in Readers => sea[t].st \in {"new", "end"}
  /\ commit /\ merge.readonly => ~Wrote(t)
  /\ trxst' = [trxst EXCEPT ![t] = IF commit THEN "commit" ELSE "abort"]
  /\ IF commit /\ Wrote(t)
       THEN /\ maxtrxnum' = maxtrxnum + 1
            /\ num' = [num EXCEPT ![t] = maxtrxnum']
       ELSE UNCHANGED <<maxtrxnum, num>>
  /\ pending' = [pending EXCEPT ![t] = trxid]
  /\ UNCHANGED <<level, stmt, buf, trees, merge, sea>>

\* After the gate; an id that was overtaken does not count.
PublishAbortId(t) ==
  /\ pending[t] # 0
  /\ aborttrxid' = Max({aborttrxid, pending[t]})
  /\ pending' = [pending EXCEPT ![t] = 0]
  /\ UNCHANGED <<trxst, num, level, maxtrxnum, stmt, trxbuf, trees, merge, sea>>

-----------------------------------------------------------------------------
(***************************************************************************)
(* The merge                                                               *)
(***************************************************************************)

\* setmergestart and setmergestop wait for a search that is in a call.
InCall(t) == sea[t].deletenext \/ sea[t].ingate

Listed(t) == sea[t].st \notin {"new", "end"}

MergeStart ==
  /\ merge.st = "off" /\ ~merge.readonly /\ merge.count < MaxMerges
  /\ \E full \in BOOLEAN :
     \E m \in merge.level..Min({maxtrxnum} \cup
                      {level[t] : t \in {u \in Trx : trxst[u] = "begin"}}) :
       merge' = [NoMerge EXCEPT !.st = "start", !.full = full, !.level = m,
                                !.patch = maxtrxnum, !.count = merge.count + 1]
  /\ UNCHANGED <<trxs, stmt, buf, trees, sea>>

MergeMark ==
  /\ merge.st = "start"
  /\ InitRace \/ \A t \in Readers : sea[t].st # "adding"
  /\ \A t \in Readers : ~InCall(t)
  /\ merge' = [merge EXCEPT !.st = "active", !.abortid = aborttrxid]
  /\ sea' = [t \in Readers |-> IF Listed(t) THEN [sea[t] EXCEPT !.active = TRUE]
                               ELSE sea[t]]
  /\ UNCHANGED <<trxs, stmt, buf, trees>>

Active == merge.st = "active" /\ ~merge.ended

\* A delete mark is kept until the key behind it is known.
\* Mutant of NeedsLeaf: a delete mark does not wait for the next leaf.
NeedsLeaf_Eager == merge.work = {}

NeedsLeaf == \A k \in merge.work : k.del /\ merge.work = {k}

MergeLeaf ==
  /\ Active /\ NeedsLeaf /\ merge.leaf < Leaves
  /\ LET l == merge.leaf + 1
         b == CleanLeaf(bonsai, l)
     IN /\ bonsai' = b
        /\ merge' = [merge EXCEPT !.leaf = l,
             !.work = IF merge.full
                      THEN @ \cup {k \in InLeaf(b, l) :
                                     k.num # 0 /\ k.num <= merge.level}
                      ELSE {}]
  /\ UNCHANGED <<trxs, stmt, buf, storage, written, sea>>

Without(S, T) == {k \in S : \A j \in T : Pos(j) # Pos(k)}

\* What the next move takes: a key, or a delete mark with the key it deletes.
Taken ==
  LET k == FirstKey(merge.work)
      rest == merge.work \ {k}
  IN IF k.del /\ rest # {} /\ FirstKey(rest).row = k.row /\ ~FirstKey(rest).del
     THEN {k, FirstKey(rest)} ELSE {k}

\* What is known to be complete is moved; the last key when no leaf is left.
Moves == Active /\ merge.work # {} /\ (~NeedsLeaf \/ merge.leaf = Leaves)

\* Mutant of MergeMove: the merge gate is not entered.
MergeMove_Ungated ==
  /\ Moves
  /\ LET k == FirstKey(merge.work)
     IN storage' = IF ~k.del THEN storage \cup {k.row}
                   ELSE IF Taken = {k} THEN storage \ {k.row} ELSE storage
  /\ bonsai' = Without(bonsai, Taken)
  /\ merge' = [merge EXCEPT !.work = @ \ Taken]
  /\ UNCHANGED <<trxs, stmt, buf, written, sea>>

\* One key or pair, in the merge gate that excludes a search that was reset.
MergeMove ==
  /\ Moves /\ \A t \in Readers : ~sea[t].ingate
  /\ LET k == FirstKey(merge.work)
     IN storage' = IF ~k.del THEN storage \cup {k.row}
                   ELSE IF Taken = {k} THEN storage \ {k.row} ELSE storage
  /\ bonsai' = Without(bonsai, Taken)
  /\ merge' = [merge EXCEPT !.work = @ \ Taken]
  /\ UNCHANGED <<trxs, stmt, buf, written, sea>>

MergeEnd ==
  /\ Active /\ merge.work = {} /\ merge.leaf = Leaves
  /\ merge' = [merge EXCEPT !.ended = TRUE]
  /\ UNCHANGED <<trxs, stmt, buf, trees, sea>>

\* No disk space: the merge counts as ended and the database is read-only.
MergeError ==
  /\ Active /\ (EarlyErrors \/ merge.leaf = Leaves)
  /\ merge' = [merge EXCEPT !.ended = TRUE, !.readonly = TRUE]
  /\ UNCHANGED <<trxs, stmt, buf, trees, sea>>

\* Mutant of Freed: a search keeps its copies of leaves.
Freed_Keep(s) == [s EXCEPT !.active = FALSE]

\* dbe_indsea_setmergestop: the copies of leaves go, the next call resets.
Freed(s) ==
  IF s.st = "on"
  THEN [s EXCEPT !.active = FALSE, !.reset = TRUE, !.bbuf = {}, !.sbuf = {}]
  ELSE [s EXCEPT !.active = FALSE]

\* The merge stops, at its end or before: the searches lose their buffers,
\* and only then the buffer of transactions is cleaned.
MergeStop ==
  /\ merge.st = "active"
  /\ \A t \in Readers : ~InCall(t)
  /\ merge' = [merge EXCEPT !.st = "stop"]
  /\ sea' = [t \in Readers |-> IF Listed(t) THEN Freed(sea[t]) ELSE sea[t]]
  /\ UNCHANGED <<trxs, stmt, buf, trees>>

\* Mutant of Unneeded: committed up to now, not up to the start of the merge.
Unneeded_Now(i) ==
  \/ Fate(i) = "commit"
  \/ Fate(i) = "abort" /\ i <= merge.abortid

\* dbe_trxbuf_clean: committed before the merge started, so that it has
\* patched every key, or ended before it started, so that it has removed it.
Unneeded(i) ==
  \/ Fate(i) = "commit" /\ num[stmt[i].trx] <= merge.patch
  \/ Fate(i) = "abort" /\ i <= merge.abortid

MergeClean ==
  /\ merge.st = "stop"
  /\ trxbuf' = IF merge.ended THEN {i \in trxbuf : ~Unneeded(i)} ELSE trxbuf
  /\ merge' = [merge EXCEPT !.st = "off", !.work = {}]
  /\ UNCHANGED <<trxs, stmt, aborttrxid, trees, sea>>

-----------------------------------------------------------------------------
(***************************************************************************)
(* Searches                                                                *)
(***************************************************************************)

MergeFlag == merge.st \in {"active", "stop"}

\* dbe_indsea_init_ex: into the list of searches, then the merge flag, which
\* is read and stored without a lock.
SearchOpen(t) ==
  /\ trxst[t] = "begin" /\ sea[t].st = "new" /\ merge.st # "stop"
  /\ sea' = [sea EXCEPT ![t] =
       [NoSearch EXCEPT !.st = "adding", !.active = MergeFlag, !.seen = MergeFlag,
                        !.maxid = ReadId(t)]]
  /\ UNCHANGED <<trxs, stmt, buf, trees, merge>>

\* Mutant of SearchStore: a new search takes no merge to be active.
SearchStore_Off(t) ==
  /\ sea[t].st = "adding"
  /\ sea' = [sea EXCEPT ![t].st = "listed", ![t].active = FALSE]
  /\ UNCHANGED <<trxs, stmt, buf, trees, merge>>

SearchStore(t) ==
  /\ sea[t].st = "adding"
  /\ sea' = [sea EXCEPT ![t].st = "listed", ![t].active = sea[t].seen]
  /\ UNCHANGED <<trxs, stmt, buf, trees, merge>>

\* The keys behind position p in the first leaf that has any.
LoadBonsai(p) ==
  LET S == After(bonsai, p)
  IN {k \in S : BonsaiLeaf[<<k.row, k.del>>] =
                  BonsaiLeaf[<<FirstKey(S).row, FirstKey(S).del>>]}

LoadStorage(p) ==
  LET S == After({StorageKey(r) : r \in storage}, p)
  IN {k \in S : StorageLeaf[k.row] = StorageLeaf[FirstKey(S).row]}

\* indsea_reset: start again behind the last key, or behind the row whose
\* delete mark was the last key.
ResetPos(s) == IF s.deletenext THEN RowEnd(RowOf(s.pos)) ELSE s.pos

Reset(s) ==
  [s EXCEPT !.st = "on", !.reset = FALSE, !.deletenext = FALSE,
            !.edge = "no", !.ingate = s.active \/ s.reset,
            !.bbuf = LoadBonsai(ResetPos(s)),
            !.sbuf = LoadStorage(ResetPos(s))]

\* Mutant of NeedsReset: the merge does not matter at the edge of a buffer.
NeedsReset_NoEdge(s) == s.st = "listed" \/ s.reset

NeedsReset(s) ==
  \/ s.st = "listed" \/ s.reset
  \/ s.edge # "no" /\ s.active /\ ~s.ingate

\* indsea_getnextorprev up to the choice of a key: buffers that hold one.
Positioned(s) ==
  IF NeedsReset(s) THEN Reset(s)
  ELSE CASE s.edge = "bonsai" -> [s EXCEPT !.bbuf = LoadBonsai(s.pos)]
         [] s.edge = "storage" -> [s EXCEPT !.sbuf = LoadStorage(s.pos)]
         [] OTHER -> s

\* Take the smaller of the first keys of the two buffers.
Step(t, s) ==
  LET k == FirstKey(s.bbuf \cup s.sbuf)
      inb == k \in s.bbuf
      b == s.bbuf \ {k}
      p == s.sbuf \ {k}
      seen == ~inb \/ Accepts(t, s.maxid, k)
      mark == IF seen THEN k.del ELSE s.deletenext
  IN [s EXCEPT !.bbuf = b, !.sbuf = p, !.pos = Pos(k),
        !.edge = CASE inb /\ b = {} -> "bonsai"
                   [] ~inb /\ p = {} -> "storage"
                   [] OTHER -> "no",
        !.deletenext = mark,
        !.ingate = s.ingate /\ mark,
        !.out = IF seen /\ ~k.del /\ ~s.deletenext THEN @ \cup {k.row} ELSE @]

\* One key of a call of dbe_indsea_next.  The call goes on, with the gate it
\* may be in, until the key behind a delete mark is known.
SearchNext(t) ==
  /\ sea[t].st \in {"listed", "on"}
  /\ LET s == Positioned(sea[t])
     IN sea' = [sea EXCEPT ![t] =
          IF s.bbuf \cup s.sbuf = {}
          THEN [NoSearch EXCEPT !.st = "end", !.out = s.out, !.maxid = s.maxid]
          ELSE Step(t, s)]
  /\ UNCHANGED <<trxs, stmt, buf, trees, merge>>

SearchClose(t) ==
  /\ sea[t].st \in {"listed", "on"} /\ ~InCall(t)
  /\ sea' = [sea EXCEPT ![t] = NoSearch]
  /\ UNCHANGED <<trxs, stmt, buf, trees, merge>>

-----------------------------------------------------------------------------
Next ==
  \/ \E t \in Trx : \/ Begin(t) \/ StmtBegin(t) \/ PublishAbortId(t)
                    \/ \E commit \in BOOLEAN : EndTrx(t, commit)
                    \/ \E i \in 1..trxid :
                         \/ AddStmt(t, i) \/ StmtCommit(t, i)
                         \/ StmtRollback(t, i)
                         \/ \E r \in Rows, del \in BOOLEAN : Write(t, i, r, del)
  \/ MergeStart \/ MergeMark \/ MergeLeaf \/ MergeMove \/ MergeEnd
  \/ MergeError \/ MergeStop \/ MergeClean
  \/ \E t \in Readers : \/ SearchOpen(t) \/ SearchStore(t) \/ SearchNext(t)
                        \/ SearchClose(t)

Spec == Init /\ [][Next]_vars

-----------------------------------------------------------------------------
(***************************************************************************)
(* Properties                                                              *)
(***************************************************************************)

\* Every structure stays within its type.  The abort id never passes the
\* statement counter (dbe_gtrs_abort), no merge is patched beyond the
\* counter of commits, and what the merge holds was written.
TypeOK ==
  /\ trxst \in [Trx -> {"new", "begin", "commit", "abort"}]
  /\ num \in [Trx -> 0..maxtrxnum] /\ level \in [Trx -> 0..maxtrxnum]
  /\ pending \in [Trx -> 0..trxid] /\ aborttrxid \in 0..trxid
  /\ trxbuf \subseteq 1..trxid
  /\ \A i \in 1..trxid : stmt[i].st \in {"open", "done", "aborted"}
  /\ storage \subseteq Rows
  /\ {[k EXCEPT !.num = 0] : k \in bonsai \cup merge.work} \subseteq written
  /\ merge.level \in 0..maxtrxnum /\ merge.patch \in 0..maxtrxnum
  /\ merge.leaf \in 0..Leaves

\* A key knows its end by its number, or the buffer tells it right.
FateKnown(k) ==
  IF k.num # 0 THEN Fate(k.id) = "commit" /\ k.num = num[stmt[k.id].trx]
  ELSE Lookup(k.id) = Fate(k.id)

\* Whatever key a search or the merge still holds, in the Bonsai tree or in a
\* copy of a leaf of it, dbe_trxbuf_gettrxstate tells how it ended although
\* the merge has cleaned the buffer: committed never reads as aborted, nor
\* aborted as running.
KeyFateKnown ==
  \A k \in bonsai \cup merge.work \cup UNION {sea[t].bbuf : t \in Readers} :
    FateKnown(k)

\* What t has to see, from what was written and how it ended.
Sees(t, maxid, i) ==
  \/ Fate(i) = "commit" /\ num[stmt[i].trx] <= level[t]
  \/ Fate(i) = "begin" /\ stmt[i].trx = t /\ i <= maxid

Snapshot(t, maxid) ==
  {r \in Rows :
     /\ r \in Stored \/ \E k \in written : k.row = r /\ ~k.del /\ Sees(t, maxid, k.id)
     /\ ~ \E k \in written : k.row = r /\ k.del /\ Sees(t, maxid, k.id)}

InTrees(t, maxid) ==
  {r \in Rows :
     /\ r \in storage \/ \E k \in bonsai : k.row = r /\ ~k.del /\ Accepts(t, maxid, k)
     /\ ~ \E k \in bonsai : k.row = r /\ k.del /\ Accepts(t, maxid, k)}

\* Whatever the merge has patched, moved and cleaned, the two trees and the
\* buffer hold for every running transaction exactly the rows of its level
\* (dbe_indmerge_advance, dbe_trxbuf_clean).
SnapshotKept ==
  \A t \in Trx : trxst[t] = "begin" => InTrees(t, trxid) = Snapshot(t, trxid)

\* A search that runs while the merge starts, moves keys under it and stops
\* returns the rows of its level that lie behind it, all of them and no
\* others (dbe_indsea_next, dbe_indsea_setmergestart, dbe_indsea_setmergestop).
ScanExact ==
  \A t \in Readers :
    LET s == sea[t]
        Passed == {r \in Rows : s.st = "end" \/ r < RowOf(s.pos)}
    IN trxst[t] = "begin" /\ s.st \in {"on", "end"} =>
         /\ s.out \subseteq Snapshot(t, s.maxid)
         /\ s.out \cap Passed = Snapshot(t, s.maxid) \cap Passed

\* What the merge moves fits the trees: it is still in the Bonsai tree, a row
\* comes to the storage tree once, a delete mark without its row finds the
\* row there (indmerge_advance_normal).
MovesFit ==
  Moves => LET k == FirstKey(merge.work)
           IN /\ Taken \subseteq bonsai
              /\ ~k.del => k.row \notin storage
              /\ Taken = {k} /\ k.del => k.row \in storage

\* The assertion of dbe_indsea_setmergestop: while a merge is active every
\* search in the list is marked.
SearchesMarked ==
  merge.st = "active" =>
    \A t \in Readers : sea[t].st \in {"listed", "on"} => sea[t].active

\* The assertions of dbe_indsea_next: behind a delete mark that the search
\* sees comes the row it deletes, never the end or another row, also when
\* the merge has taken the two away.
MarksMeetRows ==
  \A t \in Readers :
    sea[t].deletenext /\ ~NeedsReset(sea[t]) =>
      LET s == Positioned(sea[t])
          next == s.bbuf \cup s.sbuf
      IN next # {} /\ FirstKey(next).row = RowOf(s.pos)
=============================================================================
