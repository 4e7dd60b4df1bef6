-------------------------------- MODULE Gtrs --------------------------------
(***************************************************************************)
(* Read levels and the commit pipeline: the global transaction state of    *)
(* src/dbe/dbe7gtrs.c, the number counters of src/dbe/dbe7ctr.c, and the   *)
(* begin, commit and rollback of src/dbe/dbe0trx.c and dbe0trut.c.         *)
(*                                                                         *)
(* A transaction reads at a level, the highest commit number that was      *)
(* visible when it first touched a table.  A writer gets its commit number *)
(* either before its commit-time validation, and then waits in             *)
(* validatetrxlist for older numbers, or in the very gate section that     *)
(* ends it.  The counter maxtrxnum is what a new reader sees, mergetrxnum  *)
(* what the merge may move out of the Bonsai tree.                         *)
(*                                                                         *)
(* gtrs_sem makes every section between entertrxgate and exittrxgate one   *)
(* step.  What the code reads or writes outside it is a step of its own.   *)
(* A member of Trx is one dbe_trx_t with its dbe_trxinfo_t, used once; a   *)
(* connection that runs several is several of them, one after another.     *)
(***************************************************************************)
EXTENDS Naturals, Sequences, FiniteSetsExt

CONSTANTS
  Trx,                  \* transactions
  NewTrxWaitReadLevel,  \* dbe_cfg_newtrxwaitreadlevel (default TRUE)
  RelaxedReadLevel,     \* dbe_cfg_relaxedreadlevel (default TRUE)
  EarlyVld,             \* trx_earlyvld: validate writes at once (default TRUE)
  Failures,             \* may operations, validation and log writes fail?
  Releases              \* may read levels be released for the merge?

ASSUME FlagsAssumption ==
  {NewTrxWaitReadLevel, RelaxedReadLevel, EarlyVld, Failures, Releases}
    \subseteq BOOLEAN

\* The null trx number; the counters hand out numbers above FirstTrxNum.
NULL        == 0
FirstTrxNum == 1

VARIABLES
  state,            \* ti_state: "new" until begin, "begin", "validate", ...
  commitst,         \* trx_commitst: where the commit of t is
  writes,           \* trx_mode # TRX_NOWRITES
  dtable,           \* TRX_FLAG_DTABLE and TRX_FLAG_USEREADLEVEL
  checks,           \* something is left to validate at commit
  delayed,          \* TRX_FLAG_DELAYEDBEGINVALIDATE
  failed,           \* trx_errcode # SU_SUCCESS
  canremove,        \* DBE_TRXST_CANREMOVEREADLEVEL
  storageonly,      \* RS_SYSI_FLAG_STORAGETREEONLY: "no", "asking", "yes"
  level,            \* ti_maxtrxnum: read level
  num,              \* trx_committrxnum
  mergewrites,      \* trx_nmergewrites: writes of t the merge has to move
  atmergewrites,    \* at_nmergewrites: writes that wait for t's level to go
  pendingmergewrites,
  validatetrxlist,
  readlevellist,
  committrxnum,     \* counters of dbe7ctr.c
  maxtrxnum,
  mergetrxnum,
  activemergetrxnum,
  storagetrxnum,
  instorage         \* the transactions whose rows are in the storage tree

session  == <<writes, dtable, checks, delayed, failed, storageonly>>
lists    == <<validatetrxlist, readlevellist>>
merging  == <<atmergewrites, pendingmergewrites>>
storage  == <<storagetrxnum, instorage>>
counters == <<committrxnum, maxtrxnum, mergetrxnum, activemergetrxnum,
              storage>>
vars == <<state, commitst, session, canremove, level, num, mergewrites,
          merging, lists, counters>>

States    == {"new", "begin", "validate", "commit", "abort"}
CommitSts == {"init", "level", "validate", "end", "waitreadlevel", "done"}

LevelTypes ==
  /\ state \in [Trx -> States]
  /\ commitst \in [Trx -> CommitSts]
  /\ writes \in [Trx -> BOOLEAN]
  /\ dtable \in [Trx -> BOOLEAN]
  /\ checks \in [Trx -> BOOLEAN]
  /\ delayed \in [Trx -> BOOLEAN]
  /\ failed \in [Trx -> BOOLEAN]
  /\ canremove \in [Trx -> BOOLEAN]
  /\ storageonly \in [Trx -> {"no", "asking", "yes"}]
  /\ level \in [Trx -> Nat]
  /\ num \in [Trx -> Nat]
  /\ mergewrites \in [Trx -> Nat]
  /\ validatetrxlist \in Seq(Trx)
  /\ readlevellist \in Seq(Trx)
  /\ committrxnum \in Nat
  /\ maxtrxnum \in Nat
  /\ mergetrxnum \in Nat
  /\ activemergetrxnum \in Nat
  /\ storagetrxnum \in Nat
  /\ instorage \subseteq Trx

WriteTypes == atmergewrites \in [Trx -> Nat] /\ pendingmergewrites \in Nat

TypeOK == LevelTypes /\ WriteTypes

Ended(st) == st \in {"commit", "abort"}

\* s without its first n elements, and without its element i.
Drop(s, n)   == [j \in 1..(Len(s) - n) |-> s[j + n]]
Remove(s, i) == [j \in 1..(Len(s) - 1) |-> IF j < i THEN s[j] ELSE s[j + 1]]

\* The transactions whose rows a reader at level L sees.
Visible(L) ==
  {t \in Trx : state[t] = "commit" /\ writes[t] /\ dtable[t] /\ num[t] <= L}

In(t, s) == \E i \in DOMAIN s : s[i] = t

\* Mutants of IsPrefix: the walk does not stop; only the head is looked at.
IsPrefix_All(n, s, S) == n = Len(s)

IsPrefix_One(n, s, S) == n = IF s # << >> /\ s[1] \in S THEN 1 ELSE 0

\* n is the length of the longest prefix of s whose elements are in S.
IsPrefix(n, s, S) ==
  /\ \A i \in 1..n : s[i] \in S
  /\ n < Len(s) => s[n + 1] \notin S

\* The counters of dbe7ctr.c that only grow.
Raise(counter, n) == IF n > counter THEN n ELSE counter

(***************************************************************************)
(* A database in use: the transactions that created it took number 1, the  *)
(* first the counter gives, which is also where maxtrxnum starts.          *)
(***************************************************************************)
Init ==
  /\ state = [t \in Trx |-> "new"]
  /\ commitst = [t \in Trx |-> "init"]
  /\ writes = [t \in Trx |-> FALSE]
  /\ dtable = [t \in Trx |-> FALSE]
  /\ checks = [t \in Trx |-> FALSE]
  /\ delayed = [t \in Trx |-> FALSE]
  /\ failed = [t \in Trx |-> FALSE]
  /\ canremove = [t \in Trx |-> FALSE]
  /\ storageonly = [t \in Trx |-> "no"]
  /\ level = [t \in Trx |-> NULL]
  /\ num = [t \in Trx |-> NULL]
  /\ mergewrites = [t \in Trx |-> 0]
  /\ atmergewrites = [t \in Trx |-> 0]
  /\ pendingmergewrites = 0
  /\ validatetrxlist = << >>
  /\ readlevellist = << >>
  /\ committrxnum = FirstTrxNum
  /\ maxtrxnum = FirstTrxNum
  /\ mergetrxnum = FirstTrxNum
  /\ activemergetrxnum = NULL
  /\ storagetrxnum = NULL
  /\ instorage = {}

-----------------------------------------------------------------------------
(***************************************************************************)
(* Begin, read levels, writes and statement failures                       *)
(***************************************************************************)

\* With UseRelaxedReadLevel=no the level is taken next, outside the gate.
Begin(t) ==
  /\ state[t] = "new"
  /\ state' = [state EXCEPT ![t] = "begin"]
  /\ commitst' = [commitst EXCEPT ![t] =
                    IF RelaxedReadLevel THEN "init" ELSE "level"]
  /\ UNCHANGED <<session, canremove, level, num, mergewrites, merging, lists,
                 counters>>

Open(t) == state[t] = "begin" /\ commitst[t] = "init" /\ ~canremove[t]

\* Mutant of AddReadLevel: the newest level comes first.
AddReadLevel_First(t) ==
  readlevellist' = IF failed[t] THEN readlevellist ELSE << t >> \o readlevellist

\* Only a level whose transaction has not failed holds back the merge.
AddReadLevel(t) ==
  readlevellist' =
    IF failed[t] THEN readlevellist ELSE Append(readlevellist, t)

\* Mutant of TouchTable: the level is the newest commit number.
TouchTable_Newest(t) ==
  /\ Open(t) /\ storageonly[t] # "asking"
  /\ ~dtable[t] \/ level[t] = NULL
  /\ dtable' = [dtable EXCEPT ![t] = TRUE]
  /\ IF level[t] = NULL
       THEN /\ level' = [level EXCEPT ![t] = committrxnum]
            /\ AddReadLevel(t)
            /\ storageonly' = [storageonly EXCEPT ![t] =
                                 IF writes[t] THEN @ ELSE "asking"]
       ELSE UNCHANGED <<level, readlevellist, storageonly>>
  /\ UNCHANGED <<state, commitst, writes, checks, delayed, failed, canremove,
                 num, mergewrites, merging, validatetrxlist, counters>>

\* Touch a table: set TRX_FLAG_DTABLE, which takes a level if there is none.
TouchTable(t) ==
  /\ Open(t) /\ storageonly[t] # "asking"
  /\ ~dtable[t] \/ level[t] = NULL
  /\ dtable' = [dtable EXCEPT ![t] = TRUE]
  /\ IF level[t] = NULL
       THEN /\ level' = [level EXCEPT ![t] = maxtrxnum]
            /\ AddReadLevel(t)
            /\ storageonly' = [storageonly EXCEPT ![t] =
                                 IF writes[t] THEN @ ELSE "asking"]
       ELSE UNCHANGED <<level, readlevellist, storageonly>>
  /\ UNCHANGED <<state, commitst, writes, checks, delayed, failed, canremove,
                 num, mergewrites, merging, validatetrxlist, counters>>

\* After the gate: is everything t may see in the storage tree already?
AskStorageTree(t) ==
  /\ storageonly[t] = "asking"
  /\ storageonly' = [storageonly EXCEPT ![t] =
                       IF storagetrxnum >= level[t] THEN "yes" ELSE "no"]
  /\ UNCHANGED <<state, commitst, writes, dtable, checks, delayed, failed,
                 canremove, level, num, mergewrites, merging, lists, counters>>

\* The same without the gate: reading the counter and entering the list are
\* two steps.  The list entry is made when the level is known.
BeginReadLevel(t) ==
  /\ commitst[t] = "level" /\ level[t] = NULL
  /\ level' = [level EXCEPT ![t] = maxtrxnum]
  /\ UNCHANGED <<state, commitst, session, canremove, num, mergewrites,
                 merging, lists, counters>>

BeginAddReadLevel(t) ==
  /\ commitst[t] = "level" /\ level[t] # NULL
  /\ AddReadLevel(t)
  /\ commitst' = [commitst EXCEPT ![t] = "init"]
  /\ storageonly' = [storageonly EXCEPT ![t] = "asking"]
  /\ UNCHANGED <<state, writes, dtable, checks, delayed, failed, canremove,
                 level, num, mergewrites, merging, validatetrxlist, counters>>

\* The first write, or a sequence operation: no longer read-only.
MarkWrite(t) ==
  /\ Open(t) /\ storageonly[t] # "asking"
  /\ ~failed[t] /\ ~writes[t]
  /\ writes' = [writes EXCEPT ![t] = TRUE]
  /\ storageonly' = [storageonly EXCEPT ![t] = "no"]
  /\ UNCHANGED <<state, commitst, dtable, checks, delayed, failed, canremove,
                 level, num, mergewrites, merging, lists, counters>>

\* An index write.  Without early validation, and for serializable reads and
\* deferred checks, something is left to validate at commit.
Write(t) ==
  /\ Open(t) /\ writes[t] /\ dtable[t] /\ level[t] # NULL /\ ~failed[t]
  /\ mergewrites[t] = 0
  /\ mergewrites' = [mergewrites EXCEPT ![t] = 1]
  /\ \E c \in BOOLEAN : checks' = [checks EXCEPT ![t] = c]
  /\ UNCHANGED <<state, commitst, writes, dtable, delayed, failed, canremove,
                 storageonly, level, num, merging, lists, counters>>

\* A statement fails and sets trx_errcode; its rollback may clear it.
Fail(t) ==
  /\ Failures /\ Open(t) /\ ~failed[t] /\ storageonly[t] # "asking"
  /\ failed' = [failed EXCEPT ![t] = TRUE]
  /\ UNCHANGED <<state, commitst, writes, dtable, checks, delayed, canremove,
                 storageonly, level, num, mergewrites, merging, lists, counters>>

StmtRollback(t) ==
  /\ Open(t) /\ failed[t] /\ storageonly[t] # "asking"
  /\ failed' = [failed EXCEPT ![t] = FALSE]
  /\ UNCHANGED <<state, commitst, writes, dtable, checks, delayed, canremove,
                 storageonly, level, num, mergewrites, merging, lists, counters>>

\* ALTER TABLE lets the merge take its level, then commits; the commit takes
\* the permission back before it does anything else.
SetCanRemoveReadLevel(t) ==
  /\ Releases /\ Open(t) /\ dtable[t] /\ storageonly[t] # "asking"
  /\ canremove' = [canremove EXCEPT ![t] = TRUE]
  /\ UNCHANGED <<state, commitst, session, level, num, mergewrites, merging,
                 lists, counters>>

Restart(t) ==
  /\ state[t] = "begin" /\ canremove[t]
  /\ canremove' = [canremove EXCEPT ![t] = FALSE]
  /\ UNCHANGED <<state, commitst, session, level, num, mergewrites, merging,
                 lists, counters>>

-----------------------------------------------------------------------------
(***************************************************************************)
(* Commit: the number and the validation                                   *)
(***************************************************************************)

Committing(t) == Open(t) /\ writes[t] /\ ~failed[t]

\* Mutant of CommitNoTable: the counter is read before it is incremented.
CommitNoTable_Post(t) ==
  /\ Committing(t) /\ ~dtable[t]
  /\ committrxnum' = committrxnum + 1
  /\ num' = [num EXCEPT ![t] = committrxnum]
  /\ commitst' = [commitst EXCEPT ![t] = "end"]
  /\ UNCHANGED <<state, session, canremove, level, mergewrites, merging, lists,
                 maxtrxnum, mergetrxnum, activemergetrxnum, storage>>

\* No table was touched: a number taken without the gate, no validation.
CommitNoTable(t) ==
  /\ Committing(t) /\ ~dtable[t]
  /\ committrxnum' = committrxnum + 1
  /\ num' = [num EXCEPT ![t] = committrxnum']
  /\ commitst' = [commitst EXCEPT ![t] = "end"]
  /\ UNCHANGED <<state, session, canremove, level, mergewrites, merging, lists,
                 maxtrxnum, mergetrxnum, activemergetrxnum, storage>>

NumberBeforeValidation(t) == ~NewTrxWaitReadLevel \/ ~EarlyVld \/ checks[t]

\* Mutant of CommitValidate: the list is filled from its head.
CommitValidate_First(t) ==
  /\ Committing(t) /\ dtable[t] /\ NumberBeforeValidation(t)
  /\ committrxnum' = committrxnum + 1
  /\ num' = [num EXCEPT ![t] = committrxnum']
  /\ state' = [state EXCEPT ![t] = "validate"]
  /\ validatetrxlist' = << t >> \o validatetrxlist
  /\ commitst' = [commitst EXCEPT ![t] = "validate"]
  /\ UNCHANGED <<session, canremove, level, mergewrites, merging,
                 readlevellist, maxtrxnum, mergetrxnum, activemergetrxnum,
                 storage>>

CommitValidate(t) ==
  /\ Committing(t) /\ dtable[t] /\ NumberBeforeValidation(t)
  /\ committrxnum' = committrxnum + 1
  /\ num' = [num EXCEPT ![t] = committrxnum']
  /\ state' = [state EXCEPT ![t] = "validate"]
  /\ validatetrxlist' = Append(validatetrxlist, t)
  /\ commitst' = [commitst EXCEPT ![t] = "validate"]
  /\ UNCHANGED <<session, canremove, level, mergewrites, merging,
                 readlevellist, maxtrxnum, mergetrxnum, activemergetrxnum,
                 storage>>

\* Everything was validated as it was written: the number waits for the end.
CommitDelayed(t) ==
  /\ Committing(t) /\ dtable[t] /\ ~NumberBeforeValidation(t)
  /\ delayed' = [delayed EXCEPT ![t] = TRUE]
  /\ commitst' = [commitst EXCEPT ![t] = "end"]
  /\ UNCHANGED <<state, writes, dtable, checks, failed, storageonly, canremove,
                 level, num, mergewrites, merging, lists, counters>>

\* The commit-time checks come to an end, with success or a conflict.
Validate(t) ==
  /\ commitst[t] = "validate"
  /\ commitst' = [commitst EXCEPT ![t] = "end"]
  /\ \E conflict \in IF Failures THEN BOOLEAN ELSE {FALSE} :
       failed' = [failed EXCEPT ![t] = conflict]
  /\ UNCHANGED <<state, writes, dtable, checks, delayed, storageonly,
                 canremove, level, num, mergewrites, merging, lists, counters>>

-----------------------------------------------------------------------------
(***************************************************************************)
(* The end of a transaction: dbe_gtrs_endtrx, one section under gtrs_sem.  *)
(***************************************************************************)

\* A level that releasemergewrites may take: at_iswrites is only set on the
\* way out of the list, so it never stops a release.
Removable(t) == canremove[t] /\ ~In(t, validatetrxlist)

\* Levels that go because the merge has enough to do: none, or all the
\* removable ones at the head of s.
ReleaseCounts(s) ==
  {0} \cup {n \in 0..Len(s) : IsPrefix(n, s, {t \in Trx : Removable(t)})}

\* readlevellist after removetrxreadlevel of t.
LevelsWithout(t) ==
  IF In(t, readlevellist)
    THEN Remove(readlevellist, CHOOSE i \in DOMAIN readlevellist :
                                 readlevellist[i] = t)
    ELSE readlevellist

\* The level that inherits what waits for the level of t: the one before it,
\* or an equal one after it.
Heir(t) ==
  LET s == readlevellist
      i == CHOOSE j \in DOMAIN s : s[j] = t
  IN  IF i > 1 THEN {s[i - 1]}
      ELSE IF Len(s) > 1 /\ level[s[2]] <= level[t] THEN {s[2]}
      ELSE {}

\* Mutant of LeaveWrites: the writes of the commit are also handed over.
LeaveWrites_Twice(t, committed) ==
  LET own  == IF committed THEN mergewrites[t] ELSE 0
      heir == Heir(t)
  IN  IF ~In(t, readlevellist)
        THEN [at |-> atmergewrites, handed |-> mergewrites[t]]
        ELSE [at |-> [u \in Trx |->
                IF u = t THEN 0
                ELSE IF u \in heir
                  THEN atmergewrites[u] + atmergewrites[t] + own
                ELSE atmergewrites[u]],
              handed |-> mergewrites[t] + IF heir = {} THEN atmergewrites[t]
                                                       ELSE 0]

\* t leaves the list: what waits for its level goes to the heir, and with it
\* the writes of the commit itself; without an heir the merge gets it all.
LeaveWrites(t, committed) ==
  LET own  == IF committed THEN mergewrites[t] ELSE 0
      heir == Heir(t)
  IN  IF ~In(t, readlevellist)
        THEN [at |-> atmergewrites, handed |-> mergewrites[t]]
        ELSE [at |-> [u \in Trx |->
                IF u = t THEN 0
                ELSE IF u \in heir
                  THEN atmergewrites[u] + atmergewrites[t] + own
                ELSE atmergewrites[u]],
              handed |-> IF heir = {} THEN mergewrites[t] + atmergewrites[t]
                                      ELSE mergewrites[t] - own]

\* The first n levels of s are released: what waits for them waits for the
\* next level if that is the same, and is the merge's otherwise.
ReleaseWrites(s, at, n) ==
  LET Moved   == {i \in 1..n : n < Len(s) /\ level[s[i]] = level[s[n + 1]]}
      Sum(I)  == MapThenSumSet(LAMBDA i : at[s[i]], I)
      Gone(t) == \E i \in 1..n : s[i] = t
  IN  [at |-> [t \in Trx |->
         IF Gone(t) THEN 0
         ELSE IF n < Len(s) /\ t = s[n + 1] THEN at[t] + Sum(Moved)
         ELSE at[t]],
       handed |-> Sum(1..n \ Moved)]

\* What an end of t, with the release of n levels, does to the waiting writes.
EndWrites(t, committed, n) ==
  LET left     == LeaveWrites(t, committed)
      released == ReleaseWrites(LevelsWithout(t), left.at, n)
  IN  /\ atmergewrites' = released.at
      /\ pendingmergewrites' =
           (pendingmergewrites + mergewrites[t]) - (left.handed + released.handed)

\* Mutant of MergeLevel: readers do not count.
MergeLevel_Newest(s, max) == max

\* The merge may go up to the oldest level, or to the newest commit if nobody
\* reads.  (Ended transactions have left the list.)
MergeLevel(s, max) == IF s = << >> THEN max ELSE level[s[1]]

\* A delayed number is taken in the section that ends t; an aborted writer
\* without a number gets one.
TakesNumber(t, committed) ==
  num[t] = NULL /\ (delayed[t] \/ (~committed /\ writes[t]))

\* The validate list, with t in it if its number was delayed.
Validating(t) ==
  IF delayed[t] /\ num[t] = NULL THEN Append(validatetrxlist, t)
                                 ELSE validatetrxlist

\* dbe_gtrs_endtrx, with the delayed numbering in front of it.
EndTrx(t, committed) ==
  /\ committrxnum' = IF TakesNumber(t, committed) THEN committrxnum + 1
                                                  ELSE committrxnum
  /\ num' = IF TakesNumber(t, committed)
              THEN [num EXCEPT ![t] = committrxnum + 1] ELSE num
  /\ state' = [state EXCEPT ![t] = IF committed THEN "commit" ELSE "abort"]
  /\ \E n \in 0..Len(Validating(t)) :
       /\ IsPrefix(n, Validating(t), {u \in Trx : Ended(state'[u])})
       /\ validatetrxlist' = Drop(Validating(t), n)
       /\ maxtrxnum' =
            IF n > 0 THEN Raise(maxtrxnum, num'[Validating(t)[n]])
            ELSE IF committed /\ num'[t] # NULL /\ Validating(t) = << >>
                   THEN Raise(maxtrxnum, num'[t])
            ELSE maxtrxnum
  /\ \E n \in IF committed /\ writes[t] THEN ReleaseCounts(LevelsWithout(t))
                                        ELSE {0} :
       /\ readlevellist' = Drop(LevelsWithout(t), n)
       /\ level' = [u \in Trx |->
                      IF \/ u = t /\ In(t, readlevellist)
                         \/ \E i \in 1..n : LevelsWithout(t)[i] = u
                        THEN NULL ELSE level[u]]
       /\ EndWrites(t, committed, n)
  /\ mergetrxnum' = Raise(mergetrxnum, MergeLevel(readlevellist', maxtrxnum'))
  /\ UNCHANGED <<activemergetrxnum, storage, canremove>>

\* The dbe_trx_t is done with.  Of its flags only those of a commit matter to
\* anybody any more; state, numbers and lists are in the dbe_trxinfo_t.
EndSession(t, ok) ==
  /\ writes' = [writes EXCEPT ![t] = @ /\ ok]
  /\ dtable' = [dtable EXCEPT ![t] = @ /\ ok]
  /\ checks' = [checks EXCEPT ![t] = FALSE]
  /\ delayed' = [delayed EXCEPT ![t] = FALSE]
  /\ failed' = [failed EXCEPT ![t] = FALSE]
  /\ storageonly' = [storageonly EXCEPT ![t] = "no"]
  /\ mergewrites' = [mergewrites EXCEPT ![t] = 0]

\* A transaction that wrote nothing just ends, failed or not.
CommitReadOnly(t) ==
  /\ Open(t) /\ ~writes[t] /\ storageonly[t] # "asking"
  /\ EndTrx(t, TRUE)
  /\ EndSession(t, TRUE)
  /\ commitst' = [commitst EXCEPT ![t] = "done"]

\* dbe_trx_rollback, and the commit of a failed transaction.
Rollback(t) ==
  /\ Open(t) /\ storageonly[t] # "asking"
  /\ EndTrx(t, FALSE)
  /\ EndSession(t, FALSE)
  /\ commitst' = [commitst EXCEPT ![t] = "done"]

\* trx_end: a log write that fails turns the commit into an abort.  With waitp
\* the caller waits until new readers see the commit.
EndCommit(t) ==
  /\ commitst[t] = "end"
  /\ \E ok \in BOOLEAN :
       /\ ok => ~failed[t]
       /\ ~ok => failed[t] \/ Failures
       /\ EndTrx(t, ok)
       /\ EndSession(t, ok)
       /\ \E c \in {"done", "waitreadlevel"} :
            /\ c = "waitreadlevel" => ok
            /\ commitst' = [commitst EXCEPT ![t] = c]

\* Mutant of WaitReadLevel: off by one.
WaitReadLevel_Beyond(t) ==
  /\ commitst[t] = "waitreadlevel"
  /\ dtable[t] => maxtrxnum > num[t]
  /\ commitst' = [commitst EXCEPT ![t] = "done"]
  /\ UNCHANGED <<state, session, canremove, level, num, mergewrites, merging,
                 lists, counters>>

\* Busy wait until the level of new readers contains t.
WaitReadLevel(t) ==
  /\ commitst[t] = "waitreadlevel"
  /\ dtable[t] => maxtrxnum >= num[t]
  /\ commitst' = [commitst EXCEPT ![t] = "done"]
  /\ UNCHANGED <<state, session, canremove, level, num, mergewrites, merging,
                 lists, counters>>

\* The merge asks for levels to go when it cannot advance.  This section
\* leaves mergetrxnum alone; the next end of a transaction raises it.
ReleaseReadLevels ==
  /\ \E n \in ReleaseCounts(readlevellist) \ {0} :
       LET released == ReleaseWrites(readlevellist, atmergewrites, n) IN
       /\ readlevellist' = Drop(readlevellist, n)
       /\ atmergewrites' = released.at
       /\ pendingmergewrites' = pendingmergewrites - released.handed
       /\ level' = [u \in Trx |-> IF \E i \in 1..n : readlevellist[i] = u
                                    THEN NULL ELSE level[u]]
  /\ UNCHANGED <<state, commitst, session, canremove, num, mergewrites,
                 validatetrxlist, counters>>

-----------------------------------------------------------------------------
(***************************************************************************)
(* The merge, as far as the levels are concerned: it fixes a level when it *)
(* starts and, if it went through the whole Bonsai tree, everything up to  *)
(* that level is in the storage tree when it ends.                         *)
(***************************************************************************)

MergeStart ==
  /\ activemergetrxnum = NULL
  /\ activemergetrxnum' = mergetrxnum
  /\ UNCHANGED <<state, commitst, session, canremove, level, num, mergewrites,
                 merging, lists, committrxnum, maxtrxnum, mergetrxnum,
                 storage>>

\* Mutant of MergeDone: the level is read when the merge ends.
MergeDone_Late ==
  /\ activemergetrxnum # NULL
  /\ activemergetrxnum' = NULL
  /\ instorage' = instorage \cup Visible(activemergetrxnum)
  /\ storagetrxnum' = Raise(storagetrxnum, mergetrxnum)
  /\ UNCHANGED <<state, commitst, session, canremove, level, num, mergewrites,
                 merging, lists, committrxnum, maxtrxnum, mergetrxnum>>

MergeDone ==
  /\ activemergetrxnum # NULL
  /\ activemergetrxnum' = NULL
  /\ \/ /\ instorage' = instorage \cup Visible(activemergetrxnum)
        /\ storagetrxnum' = Raise(storagetrxnum, activemergetrxnum)
     \/ /\ \E S \in SUBSET Visible(activemergetrxnum) :
             instorage' = instorage \cup S
        /\ UNCHANGED storagetrxnum
  /\ UNCHANGED <<state, commitst, session, canremove, level, num, mergewrites,
                 merging, lists, committrxnum, maxtrxnum, mergetrxnum>>

-----------------------------------------------------------------------------
Statement(t) ==
  \/ Begin(t) \/ BeginReadLevel(t) \/ BeginAddReadLevel(t)
  \/ TouchTable(t) \/ AskStorageTree(t)
  \/ MarkWrite(t) \/ Write(t) \/ Fail(t) \/ StmtRollback(t)
  \/ SetCanRemoveReadLevel(t) \/ Restart(t)

StartCommit(t) == CommitNoTable(t) \/ CommitValidate(t) \/ CommitDelayed(t)

FinishCommit(t) == Validate(t) \/ EndCommit(t) \/ WaitReadLevel(t)

EndNow(t) == CommitReadOnly(t) \/ Rollback(t)

Merge == ReleaseReadLevels \/ MergeStart \/ MergeDone

Next ==
  \/ \E t \in Trx : Statement(t) \/ StartCommit(t) \/ FinishCommit(t) \/ EndNow(t)
  \/ Merge

Spec == Init /\ [][Next]_vars

\* A commit call runs to its end: the thread loops while it gets DBE_RC_CONT.
FairSpec == Spec /\ \A t \in Trx : WF_vars(FinishCommit(t))

-----------------------------------------------------------------------------
(***************************************************************************)
(* Properties                                                              *)
(***************************************************************************)

\* No transaction that is still to commit has a number new readers would see:
\* the validate list holds the level back until every older number has ended.
SnapshotClosed ==
  \A t \in Trx : state[t] = "validate" => num[t] > maxtrxnum

\* What a transaction sees at its level never changes while it has the level,
\* whatever the other transactions do.
SnapshotStable ==
  [][\A t \in Trx :
       level[t] # NULL /\ level'[t] = level[t]
         => Visible(level[t])' = Visible(level[t])]_vars

\* The merge never moves, and never will move, into the storage tree, where no
\* reader checks numbers, a commit that a registered reader must not see.
MergeBelowReaders ==
  \A i \in DOMAIN readlevellist :
    LET L == level[readlevellist[i]]
    IN  mergetrxnum <= L /\ activemergetrxnum <= L /\ instorage \subseteq Visible(L)

\* readlevellist is ordered, "oldest first": only its head is looked at when
\* the merge level is computed (assertion of addtrxreadlevel).
ReadLevelsSorted ==
  \A i, j \in DOMAIN readlevellist :
    i < j => level[readlevellist[i]] <= level[readlevellist[j]]

\* validatetrxlist is ordered by commit number (assertion of
\* begintrxvalidate): the last ended head is the highest visible number.
ValidatesSorted ==
  \A i, j \in DOMAIN validatetrxlist :
    i < j => num[validatetrxlist[i]] < num[validatetrxlist[j]]

\* A reader that was told to look into the storage tree alone misses nothing:
\* every commit it may see has been moved there.
StorageOnlyComplete ==
  \A t \in Trx : storageonly[t] = "yes" => Visible(level[t]) \subseteq instorage

\* Writes wait with exactly one level, and no level, no waiting write: the
\* merge is never starved of what it has to do (assertion in endtrx).
MergeWritesKept ==
  pendingmergewrites =
    MapThenSumSet(LAMBDA t : IF In(t, readlevellist) THEN atmergewrites[t]
                                                     ELSE 0, Trx)

\* Numbers of commits are never reused, and never given below what is visible.
NumbersUnique ==
  \A t, u \in Trx : t # u /\ num[t] # NULL => num[t] # num[u]

\* A committed writer is seen by new readers in the end.
CommitBecomesVisible ==
  \A t \in Trx : t \in Visible(num[t]) ~> num[t] <= maxtrxnum

\* The wait for the own commit in trx_waitreadlevel ends.
WaitReadLevelEnds ==
  \A t \in Trx : commitst[t] = "waitreadlevel" ~> commitst[t] = "done"

-----------------------------------------------------------------------------
(***************************************************************************)
(* What this implements: the snapshots of module Snapshot.                 *)
(***************************************************************************)
Abstract == INSTANCE Snapshot WITH
  published <- Visible(maxtrxnum),
  snapshot  <- [t \in Trx |-> IF level[t] = NULL THEN {}
                                                 ELSE {Visible(level[t])}]

\* A new reader sees a growing set of commits, and each level is one state of
\* that set, kept until the transaction ends or its level is released.
ImplementsSnapshot == Abstract!Spec
=============================================================================
