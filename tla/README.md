# Verification of the solidDB storage engine

This directory holds TLA+ specifications of the core of the solidDB for MySQL
storage engine (locks, transactions, versions, log and recovery), the TLC
configurations that check them, and TLAPS proofs. Paths are relative to the root of the repository; `dbe6lmgr.c:1301`
without a directory is in `src/dbe/`.

1. [The system](#1-the-system)
2. [The modules and how they correspond to the code](#2-the-modules)
3. [Runs, bounds and fairness](#3-runs)
4. [Findings](#4-findings)
5. [Theorems](#5-theorems)
6. [What is only model-checked, and what is not modelled](#6-limits)
7. [Plan](#7-plan)

## 1. The system

About 470 000 lines of C. A server thread (in MySQL, a connection) calls the
handler, which calls the `tab` layer (transactions, relations, cursors), which
calls the `dbe` engine. The engine is multi-versioned: recent rows live in the
Bonsai tree (an in-memory index whose keys carry transaction numbers), older
ones in the storage tree (a B+-tree in the page cache). A background merge moves
rows from the first to the second. A log and periodic checkpoints make commits
durable.

| component | files | state | operations | what makes it correct |
|---|---|---|---|---|
| Global transaction state, counters | `dbe7gtrs.c`, `dbe7ctr.c`, `dbe7trxi.c` | validate list, read level list, numbers, merge level, waiting merge writes; all under `gtrs_sem` except some reads | begin, take a level, number a commit, validate, end, release levels | a level selects one instant; the merge stays below every reader |
| Transaction object | `dbe0trx.c`, `dbe0trut.c`, `dbe8trxl.c` | flags, mode, commit state machine, read and write sets | begin, statement, validate, commit, rollback, wait for the own level | commits are numbered, validated and ended in an order readers can trust |
| Lock manager | `dbe6lmgr.c` | hash of lock heads, a FIFO queue of requests each; per transaction the list of its requests and the wait | lock, convert, wait, retry, time out, unlock, unlock all | no two incompatible grants; no lost wakeup; a release leaves nothing behind |
| Transaction buffer | `dbe7trxb.c` | hash of transaction and statement numbers to outcomes | add, abort, look up, clean after a merge | committed data never reads as aborted, nor the reverse, after the clean |
| Statements | `dbe0trx.c` | statement number, group | begin, commit, roll back | a failed statement leaves nothing, the transaction goes on |
| Merge | `dbe5imrg.c` | cursor over the Bonsai tree, level of the merge | start, step, stop | every visible row is in exactly one tree for every reader |
| Searches, index trees | `dbe4srch.c`, `dbe5isea.c`, `dbe5inde.c`, `dbe6b*.c` | cursors, nodes | search, insert, delete, restart | a restarted search neither skips nor repeats a row |
| Tuple operations | `dbe4tupl.c` | none | insert, update, delete | unique and lost-update checks |
| Log, group commit | `dbe7logf.c`, `dbe6log.c` | write queue, flush state | append, flush, wait | commit answered implies record on disk |
| Checkpoint, recovery | `dbe6cpm.c`, `dbe8cpls.c`, `dbe7rfl.c`, `dbe4rfwd.c` | checkpoint list, free list, roll-forward state | create, delete, recover | the recovered state is the committed prefix |
| Cache, I/O | `dbe8cach.c`, `dbe6iom.c` | slots, LRU, preflush | reach, release, flush | a pinned slot keeps its page |
| Sequences, backup, administration | `dbe0seq.c`, `dbe2back.c`, `dbe0db.c` | sequence values, backup cursor | next, set, backup | values are not handed out twice |
| Replication hooks | `dbe0hsb*.c` | none in this build | stubs | |
| Gates, lists, ini files | `su/` | gate queues | enter shared, exclusive | mutual exclusion, no starvation |
| SQL-level transactions | `tab/` | transaction per connection, dictionary | begin, commit, cursors | boundaries around the engine's calls |
| Lock wait of the server | `tab/tab0srv.c`, `res/rs0sysi.c` | message semaphore, timeout | sleep, wake | no wait without an end |
| MySQL interface | `handler/ha_soliddb.cc` | one handler per open table | translates the server's calls | |
| Types, values, tuple encoding | `res/`, `dt/`, `uti/` | none | conversions, comparison | the encoding keeps the order |
| External sorter | `xs/` | runs | polyphase merge | the output is the sorted input |
| Estimator | `est/` | none | search plans | |
| Portability | `ss/` | semaphores, memory | | |

**How they interact.** A row operation takes its lock in the lock manager
(`dbe_trx_lock`) and, when the answer is LOCK_WAIT, returns to the server loop,
which sleeps on the connection's message (`srv_lockwait`) and repeats the whole
operation. The first access to a table takes a read level from the global state,
and every key found by a search is compared with that level. A commit numbers
itself, validates what was not validated while it was written, writes the log
and ends in the global state; the end computes what new readers see and how far
the merge may go, and then releases the locks. The merge reads its level from
the global state, and asks the global state to give up levels that hold it back.

**What is hard.** Commits are numbered in one order and end in another. Readers
take levels in between, inside a gate with one setting and outside it with the
other. The lock manager's queue is changed by the requests, time-outs, denials
and releases of others while a transaction sleeps, and a transaction can have
two requests for one lock. The merge patches, moves and forgets keys while
searches hold copies of their leaves, and each search notices at its own pace. A
commit is visible before it is durable, checkpoints are taken in the middle, and
a crash can come between any two steps. `PROJECT.json` lists these hazards with
their lines.

## 2. The modules

| module | models | extends |
|---|---|---|
| `LockMgr` | lock queues, waits, retries, releases | |
| `Gtrs` | read levels, commit pipeline, merge level | |
| `Snapshot` | what `Gtrs` promises (abstract) | |
| `Mvcc` | transaction buffer, the two trees, merge, searches | |
| `Durability` | write queue, commit order, checkpoints, crash, roll-forward | |
| `MCGtrs`, `MCLockMgr` | symmetry for TLC | `Gtrs`, `LockMgr` |
| `MCMvcc` | the leaves of the trees for TLC | `Mvcc` |
| `NatLemmas` | least and greatest elements of sets of numbers, for the proofs | `TLAPS` |
| `SumLemmas` | sums over finite sets, for the proofs | `NatLemmas` |
| `Gtrs_proofs` | theorems about `Gtrs` | `Gtrs`, `SumLemmas` |
| `LockMgr_queues` | invariant of `LockMgr`, lemmas about one queue | `LockMgr`, `NatLemmas` |
| `LockMgr_proofs` | theorems about `LockMgr` | `LockMgr_queues` |
| `Durability_proofs` | theorems about `Durability` | `Durability`, `NatLemmas` |
| `Mvcc_proofs` | theorems about the keys and rows of `Mvcc` | `Mvcc`, `NatLemmas` |
| `Mvcc_search_proofs` | theorems about the searches of `Mvcc` | `Mvcc_proofs` |

### LockMgr

| variable | code |
|---|---|
| `lock[n].queue` | the requests of a `lock_head_t`, in order; status, mode, class and `lr_count` |
| `lock[n].granted`, `.waiting` | `lh_granted_mode`, `lh_waiting` |
| `ltWait[t]` | `lt_wait` of the `dbe_locktran_t`: the name it waits for |
| `asleep[t]`, `mes[t]` | the task is in `SsMesRequest`; a message was sent |
| `releasing[t]` | what is left of an `unlockall` |
| `failed[t]` | `trx_errcode` is set |
| `claim[t][n]` | history: the modes and classes answered LOCK_OK and not released since, oldest first |

The split mutex makes a call on one name atomic, so it is one action.
`dbe_lockmgr_unlockall` takes one mutex after another: it is a sequence of
`UnlockAllStep`, one name each, between which others run. `lmgr_lock` is split
by its outcomes: `LockFree`, `LockNew`, `LockNewWait`, `LockNewDenied`,
`LockAgain`, `LockUpgrade`, `LockConvertWait`, `LockConvertDenied`, and for a
call with `lt_wait` set `RetryGranted`, `RetryWait`, `RetryTimeout`. The tail of
`lmgr_unlock`, which recomputes the granted group and grants waiters, is `Wake`.

- A bounce variant (lock with no duration) on a free lock changes nothing, and
  `dbe_lockmgr_lock_convert` is `Unlock` followed by a lock with timeout 0, in
  two mutex sections: both are behaviours of the model already.
- Fast deadlock detection is off by default (`dbe7cfg.c:204`). It only denies a
  request that would wait, which `LockNewDenied` and `LockConvertDenied` do at
  any time.
- `lmgr_unlock_class` reads a request it has just freed. The free list keeps the
  fields, so the model takes the old class.
- A row wait may be abandoned by a transaction that was failed meanwhile; the
  wait of LOCK TABLE is repeated to its end by the handler's loop.
- `FailOnTimeout` separates row locks (a timeout fails the transaction,
  `dbe4tupl.c:1936`) from table locks (it goes on, `dbe0trut.c:2799`).

### Gtrs

Every section between `dbe_gtrs_entertrxgate` and
`dbe_gtrs_exittrxgate`, or inside one `dbe_gtrs` call, is one action.
What the code does outside the gate is an action of its own: the read of
`storagetrxnum` (`AskStorageTree`), the level of a begin with
UseRelaxedReadLevel=no (`BeginReadLevel`, `BeginAddReadLevel`), the number of a
commit that touched no table (`CommitNoTable`), the busy wait (`WaitReadLevel`).

| variable | code |
|---|---|
| `state`, `level`, `num` | `ti_state`, `ti_maxtrxnum`, `trx_committrxnum` |
| `commitst` | `trx_commitst`, the state machine of `dbe_trx_commit` |
| `writes`, `dtable`, `delayed`, `failed`, `checks` | `trx_mode`, `TRX_FLAG_DTABLE`, `TRX_FLAG_DELAYEDBEGINVALIDATE`, `trx_errcode`, the read and write sets |
| `canremove` | `DBE_TRXST_CANREMOVEREADLEVEL` |
| `storageonly` | `RS_SYSI_FLAG_STORAGETREEONLY`, while it is asked for and after |
| `validatetrxlist`, `readlevellist` | the two lists of `dbe_gtrs_t` |
| `mergewrites`, `atmergewrites`, `pendingmergewrites` | `trx_nmergewrites`, `at_nmergewrites`, and what has been counted but not handed to the merge |
| `committrxnum`, `maxtrxnum`, `mergetrxnum`, `storagetrxnum` | `dbe7ctr.c` |
| `activemergetrxnum`, `instorage` | the level of the running merge; the transactions whose rows it has moved |

- A member of `Trx` is one `dbe_trx_t` and is used once, as in the code; a
  connection that runs several transactions is several members. This is also
  what bounds the counters, so no bound on a number is needed.
- A transaction writes once (`mergewrites` is 0 or 1); the number of its writes
  only scales the accounting.
- `MergeStart` reads `mergetrxnum` (`dbe0db.c:7064`) and publishes it
  (`dbe5imrg.c:557`) in one step. The counter only grows, so the later
  publication of an older value lets the merge do less.
- `Init` is a database in use. While a new database is created, the first
  number given equals the initial `maxtrxnum` (`dbe7ctr.c:275`).
- `Visible(L)` stands for the answer of the transaction buffer and the key
  comparison: the committed writers with a number up to `L`.

### Snapshot

Two actions: `Take`, a view is what is published now; `Publish`, commits are
added for good and some views end. `Gtrs` implements it under the mapping
`published <- Visible(maxtrxnum)`, `snapshot[t] <- {Visible(level[t])}`.

### Mvcc

| variable | code |
|---|---|
| `trxst`, `num`, `level` | `ti_state`, `ti_committrxnum`, `tc_maxtrxnum` |
| `stmt` | the statements by id: the transaction, and open, done or rolled back |
| `trxbuf` | the ids in the hash of `dbe_trxbuf_t` |
| `aborttrxid`, `pending` | `tb_aborttrxid`, and the id an ended transaction has not published yet |
| `bonsai` | the keys of the Bonsai tree: row or delete mark, statement id, number once patched |
| `storage` | the rows of the storage tree |
| `merge` | `dbe_indmerge_t`: level, patch level, abort id, leaf, keys taken from the leaf |
| `sea[t]` | `dbe_indsea_t`: `is_mergeactive`, the copies of a leaf of each tree, position, reset, gate |
| `written` | history: every key ever written |

The end of a transaction is in two steps, because the abort id is published
after the gate of the global state is left (`EndTrx`, `PublishAbortId`). The
start of a merge is in two (`MergeStart` reads the levels, `MergeMark` publishes
and marks the searches), its end in two (`MergeStop` takes the copies of the
searches away, `MergeClean` cleans the buffer), and between them it takes one
leaf (`MergeLeaf`: patch and remove) or moves one key or pair (`MergeMove`) at a
time. The opening of a search is in two (`SearchOpen` enters the list and reads
the merge flag, `SearchStore` stores it). A call of `dbe_indsea_next` is one
`SearchNext` for each key it looks at.

- The commit pipeline of `Gtrs` is one step: at its end a commit is numbered and
  visible. The level of a new merge is any value the global state allows.
- A row version is used once and a delete needs one that no live mark deletes:
  lost updates are prevented by the row locks and the write check, which are
  modelled elsewhere.
- Defaults: MergeCleanup=no, SplitPurge=no. Several merge threads work on
  parts that do not share a row; one part is modelled.
- A leaf that is split is cleaned first; that is a free choice of `Write`.
- After `MergeError` the database is read-only: nobody starts to write.
- Not modelled: searches backward, with validation or with locks, blobs,
  statement groups, more than the one or two keys a statement writes.

### Durability

| variable | code |
|---|---|
| `pc[t]` | where the thread of a transaction is between the calls listed in `PROJECT.json` |
| `fate`, `tree` | the outcome in the transaction buffer, the rows in the index |
| `queue`, `unsent`, `mes` | the write queue, `wqi_nbytes`, the message to the thread |
| `flushwait`, `spacewait` | the two message lists of the queue |
| `thread`, `batch`, `batchwait` | `logf_writequeue_flushthr` and what it has taken |
| `request`, `lazydo` | `lf_lazyflush_request`, `lf_lazyflush_do` |
| `log`, `stable` | the log file with its buffer, and how much is on the disk |
| `cp`, `image`, `header` | the checkpoint being created, the one a restart uses |
| `told`, `seen` | history: answered commits; what a transaction could see at its begin |

`Link` is the body of `logfile_putdata_splitif_writequeue` under the mutex of
the queue; its waits are the guards `~Waits(t)`. An operation enters the action
gate with its first step and leaves it when its last wait is over, so a writer
that waits for space keeps a checkpoint out. A checkpoint takes its image and
links its mark in the gate, waits for the flush of the mark in the gate, flushes
the caches without it, and saves the header. `ProcessCrash` keeps any prefix of
what is written, `PowerFailure` destroys any set of records that are not
flushed. `Restart` is both passes of the roll-forward.

- A record stands for a block and is written whole. The default write mode
  rewrites the last block in place, and a torn write of that block is not
  modelled; the ping-pong mode exists for that.
- The image of a checkpoint is taken at once. In the code the trees are copied
  on write from the mark on, so what the cache flush writes later is that image,
  and the header is saved after it.
- The mark carries the time of the checkpoint in seconds. The model gives
  another time to a checkpoint after a crash, that is, it assumes that a restart
  takes a second.
- Cutting the unreadable end off is in order with later writes to the log.
- A write error stops the server (no error handler is installed in this build),
  which is a crash.
- A reader may see a relaxed or not yet flushed commit that a crash then loses:
  the code shows a commit before it waits for the flush. What it may not do is
  survive such a crash itself (`SeenRecovered`).
- Not modelled: read-only commits, log file splits and their deletion, statement
  records, sequences, dictionary operations, hot standby.

## 3. Runs

Deadlock checking is off where the system really may stop. In `Gtrs`, `Mvcc`
and `Durability` every transaction is used once, and all of them may have ended.
In `LockMgr_convert` and `LockMgr_unlockall` two readers may both wait for the
stronger mode, which only a timeout ends, and these runs have none.

| run | instance | distinct states | what it shows |
|---|---|---|---|
| `LockMgr_rows` | 3 transactions, 1 name, S/X, time-outs, no conversion, fairness | 46 820 | queue, cached mode and FIFO order stay consistent; every wait ends |
| `LockMgr_names` | 2 transactions, 2 names, X, both durations, time-outs | 773 232 | releases one mutex at a time leave nothing and take nothing too much |
| `LockMgr_convert` | 3 transactions, 1 name, S/U/X, conversions, no time-outs | 391 585 | conversions that wait never share a lock they exclude, and go on when they fit |
| `LockMgr_rerequest` | 2 transactions, conversions and time-outs | | finding 1 |
| `LockMgr_unlockall` | 2 transactions, conversions, no time-outs | | finding 2 |
| `Gtrs_release` | 3 transactions, releases for the merge, default settings | 150 518 | levels, numbers, both lists, the accounting, the storage tree; refinement of `Snapshot` |
| `Gtrs_live` | 2 transactions, failures, UseRelaxedReadLevel=no, no early validation | 16 122 | each commit becomes visible, the busy wait ends |
| `Mvcc_scans` | a writer, a reader, 3 rows, 2 leaves in each tree, 1 merge | 2 078 046 | keys keep their fate, trees their rows, scans are exact |
| `Mvcc_race` | the same, a merge may start while a search stores the flag | | finding 3 |
| `Mvcc_diskfull` | the same, the merge may run out of space at any leaf | | finding 4 |
| `Durability_crash` | a strict and a relaxed transaction, 1 checkpoint, 1 crash | 573 465 | answered commits are recovered whole, aborted ones never; no wait is for ever |
| `Durability_relaxed` | one relaxed transaction, no crash | | finding 5 |

(`LockMgr_convert` is given without its symmetry.)

**Bounds.** Three transactions on one name give a holder, a waiter and a
newcomer, which is what granting, FIFO order and the group mode need; two names
give a cycle of waits and a release that is half done. `MaxCount = 2` is the
first count at which a release must not free the request. `LockMgr_convert` has
3: a client can then convert by waiting, convert again at once and give its
locks back one by one, so that two requests of it of different strength are in
the queue. Only the long class is there: `lmgr_unlock` counts a request of the
very long class down without an end (`dbe6lmgr.c:1413`), with two requests of a
client it takes the first one below zero, and the instance would not be finite.
`MaxQueue` stops
conversions from queueing in a longer queue; it is large enough for each
transaction to have a second request. S, U and X are the only modes a client
asks for (`dbe4srch.c:214`, `dbe0trut.c:2787`, `dbe4tupl.c:1880`; no caller uses
an intention mode), and the assumption on `Modes` says so. With three transactions in `Gtrs`
there are a writer that ends out of order, one it waits for, and a reader
between them; the theorems of section 5 hold for any number.

In `Mvcc` the leaves are chosen so that a delete mark and its row are parted by
the end of a leaf, that the other rows share one, and that one row is in the
storage tree already; one merge meets a search before, at and behind it. Two
statements are an insert and its delete, or one that is rolled back. The safety
properties `KeyFateKnown`, `SnapshotKept` and `MovesFit` were also checked once
on a larger instance of 5.06 million states.

In `Durability` three records fill the queue and two send a message, so that
both conditions come true alone; one crash before, in or after a checkpoint
reaches every pair of log and header. Without the liveness properties larger
instances were checked once: two checkpoints and one crash (1 739 989 states),
one checkpoint and two crashes (1 697 710), one transaction with three of each
(318 704).

**Conversions and time-outs are enabled together only in `LockMgr_rerequest`.**
In that combination the isolation properties fail, as a consequence of finding
1, and the same is true of `GrantedModeExact` even if every timeout fails the
transaction. The runs separate what holds from what does not: without
conversions (rows, names) and with conversions that always wait (convert). In
the same way `Mvcc_scans` leaves out the two steps of findings 3 and 4
(`InitRace`, `EarlyErrors`): with the first `ScanExact` fails too.

**Fairness.** `LockMgr!FairSpec`: a task with a message wakes, a task that is
awake repeats its operation (the loop around `rs_sysi_lockwait`), a release that
has begun goes on, and a transaction that does not wait ends some time. Nothing
is assumed of a transaction that waits, and no timeout helps. `Gtrs!FairSpec`:
weak fairness of `FinishCommit(t)`. The thread that called `dbe_trx_commit`
loops while it gets DBE_RC_CONT, and `trx_waitreadlevel` is a busy wait in that
thread. Nothing forces a transaction to begin, to commit or to roll back.
`Durability!FairSpec`: weak fairness of the steps of a transaction inside the
gate and of the write thread, each a thread that runs; `LazySpec` adds the lazy flush thread. Nothing forces a restart, a
checkpoint or an end of a transaction. `Mvcc` has no liveness property and no
fairness.

**Properties of LockMgr.** `ClaimsCompatible`: what two clients were told they
hold can be held together. `ClaimCovered`: what a client was told it holds, it
holds. `NoOrphans`: nothing stays in a queue that nobody waits for, holds or
keeps on purpose. `GrantedModeExact`: the cached group mode is that of the
granted requests. `NoStuckWaiter`, `NoOvertaking`, `WaitEnds`: the queue is
FIFO and moves.

**Properties of Gtrs.** `SnapshotClosed`: no number visible to new readers
belongs to a transaction still to commit. `SnapshotStable`: what a level selects
never changes. `MergeBelowReaders`: what the merge has moved, moves or may move
is visible to every registered reader. `ReadLevelsSorted`, `ValidatesSorted`,
`NumbersUnique`: the order that these rest on.
`StorageOnlyComplete`: a reader that skips the Bonsai tree misses nothing.
`MergeWritesKept`: the writes that wait for a level wait for exactly one.
`CommitBecomesVisible`, `WaitReadLevelEnds`, `ImplementsSnapshot`.

**Properties of Mvcc.** `KeyFateKnown`: no key that a tree, a search or the
merge still holds is taken for committed, aborted or running when it is not.
`SnapshotKept`: the trees and the buffer together hold the rows of each running
transaction's level. `ScanExact`: a search returns these rows, once, however the
merge moves them meanwhile. `MovesFit`, `SearchesMarked`, `MarksMeetRows`: the
assertions and assumptions of the code on the way.

**Properties of Durability.** `AnsweredDurable`: a strict commit that was
answered is recovered. `RowsComplete`: a recovered commit has its rows.
`SeenRecovered`: recovery keeps what a recovered transaction could see.
`AbortedStays`: a rollback is not undone by a restart. `MarkFlushed`: the
checkpoint in the header has its mark on the disk. `RedoOnce`: no row is
inserted into an image that has it. `DurableGrows`: what would survive a crash
now survives all later ones. `GateLeft`: a wait for the log ends. `WriterAwake`:
the write thread never sleeps through one, of a checkpoint either.

## 4. Findings

1. **A denied conversion loses the granted lock** (`LockMgr_rerequest`,
   `dbe6lmgr.c:1301`). The waiting conversion is a second request. When it times
   out, `lmgr_unlock` frees the transaction's first request, the granted one,
   and the denied one stays in the queue. The next request of the transaction
   finds it, against the assertion at `dbe6lmgr.c:1188`, and is answered LOCK_OK
   without a lock. The group mode is computed too weak behind such a request.
   Row locks fail their transaction at a timeout; table locks do not, so LOCK
   TABLE and DDL after a shared lock of the same table can meet it.
2. **A release can leave a request behind** (`LockMgr_unlockall`,
   `dbe6lmgr.c:1888`). With a lock taken twice and a conversion granted after a
   wait, `lmgr_unlock_class` marks the newest request and `lmgr_unlock`
   decrements the oldest; one granted request survives the end of the
   transaction, although "Unlocks all objects in the list locktran" is the
   comment (`dbe6lmgr.c:2764`).
3. **A search can miss the start of a merge** (`Mvcc_race`, `dbe5isea.c:782`).
   A new search enters the list of searches and then stores the merge flag it
   has read, without the mutex under which the merge sets the flag and marks the
   searches. The store can take the mark away. The assertion at
   `dbe5isea.c:3134` fails when the merge stops; before that the search combines
   leaves of different ages and can miss a row that was moved behind its copy.
4. **A merge that runs out of disk space** (`Mvcc_diskfull`, `dbe5imrg.c:1567`)
   sets `im_ended`, and the buffer is cleaned of all transactions the merge was
   to patch (`dbe5imrg.c:835`), although it has not reached all leaves, against
   the comments at `dbe5imrg.c:137` and `:510`. Committed rows in the leaves
   left out then read as aborted.
5. **A relaxed commit can stay unwritten** (`Durability_relaxed`,
   `dbe7logf.c:1955`). The lazy flush is asked for while the commit record is
   built. If the lazy flush thread takes the request before the record is in the
   queue, the write thread finds nothing to do, and the record waits in memory
   for other traffic, with no limit of time; `dbe7cfg.c:888` promises one.

Met while modelling and not runs:

- Read levels out of order (`dbe0trx.c:2712`). With UseRelaxedReadLevel=no,
  which is not the default, the level is read and entered into the list outside
  the gate, against the assertions at `dbe7gtrs.h:299` and `:312`. The merge
  level is computed from the head of the list, which may then not be the oldest;
  `ReadLevelsSorted` fails with `RelaxedReadLevel = FALSE` and `EarlyVld = TRUE`
  in the configuration of `Gtrs_release`.
- `dbe7gtrs.c:903` says that a level is
  released of a transaction "which is read only". The field tested, `at_iswrites`,
  is set only when an entry leaves the list, so it never stops a release. ALTER
  TABLE (`handler/ha_soliddb.cc:8399`) permits the release after it has written,
  and the model releases such levels.

## 5. Theorems

### Gtrs_proofs

For every finite or infinite set `Trx` and every value of
the flags; the assumption on the constants is that the flags are Boolean.
(`MergeWritesKeptCorrect` alone needs a finite `Trx`: its property is a sum over
all transactions.)

- `LevelsInvariant`, the inductive invariant `LevelsInv`:
  - `LevelTypes`: the types;
  - `NumbersInv`: every number handed out is bounded by its counter, and no
    commit number was handed out twice;
  - `StagesInv`: which stage of the commit goes with which state and number. It
    is needed because `EndTrx` behaves differently for a transaction that is
    numbered, in the list, or delayed, and only the stage says which one it is;
  - `ListInv`: numbers in the validate list are above `maxtrxnum`, strictly
    increasing, and who validates is in the list. It is the reason why raising
    `maxtrxnum` to the last ended entry of a prefix passes nobody.
- From it: `SnapshotClosedCorrect`, `ValidatesSortedCorrect`,
  `NumbersUniqueCorrect`.
- `WaitInvariant`, the inductive invariant `WaitInv` of the writes that wait for
  the merge: the list holds each transaction once, only transactions that have
  begun and have a level (`Registered`); no write waits with a transaction
  outside the list; and `pendingmergewrites` is the sum over the list. It gives
  `MergeWritesKeptCorrect` and, as the counters are then sums of natural numbers,
  `TypeCorrect`: no count gets negative, although `endtrx` and the release
  subtract. `LeaveKept` follows the writes of one transaction to its heir or to
  the merge, `ReleaseKept` those of the levels released at the head of the list,
  with or without a next level that equals them; `EndWait` combines the two, as
  one gate section of `endtrx` does both.
- The sums are in `SumLemmas`. `MapThenSumSet` is a recursion over the set, so the
  lemmas do not unfold it: `Total(f, S)` counts a set of tokens, `f[x]` of them
  for each `x`, which makes facts about cardinalities facts about sums
  (`TotalUnion`, `TotalRemove`); `TotalSolves` and `OnlyTotal` show that it is the
  only function with the defining equation of `MapThenSumSet`, by looking at a
  smallest set where two solutions would differ.
- `SnapshotStableCorrect`: a step changes `Visible(L)` only by the end of a
  transaction whose number is above every level taken before (`EndSees`,
  `VisibleStep`).
- `MergeBelowReadersCorrect`, `ReadLevelsSortedCorrect` assume
  UseRelaxedReadLevel=yes; without it TLC refutes the second (section 4). Their
  invariant `MergeInv` adds the order of the read level list to the bounds of
  the merge: a level is appended at `maxtrxnum`, removals keep the order, so the
  head is the oldest, and `mergetrxnum` is raised to it at most.
- `StorageOnlyCorrect`: who skips the Bonsai tree for good misses nothing. The
  invariant `StorageInv` says of the counters that `storagetrxnum` and the levels
  of the merge are at most `maxtrxnum` and that `Visible(storagetrxnum)` is in the
  storage tree (`StorageHas`), and of a reader of the storage tree alone that its
  level is at most `storagetrxnum` and that it has not written (`ReaderOK`). The
  level is taken before `storagetrxnum` is read, and the counter only grows, so
  the bound survives what others do in between. `SameVisible` is why a merge that
  ends later than it started may still count as complete for the level it
  started with.
- `ImplementsSnapshotCorrect`: `Spec => ImplementsSnapshot`. Every step is
  `Take`, `Publish` or a stutter of `Snapshot` (`PublishStep`, `TakeStep`,
  `RefinementStep`).

The invariants were checked with TLC on the instance of `Gtrs_release` and on
variants of it with failures and with the other settings before they were
proved; `StorageInv` on the instances of `Gtrs_release` (893 216 states, without
symmetry) and `Gtrs_live` (16 122); `WaitInv` on those of `Gtrs_release` (150 518,
with symmetry), `Gtrs_live`, and the latter with releases (89 420). Sequences appear as
functions through `Drop` and `Remove`, whose lemmas (`DropProperties`,
`RemoveProperties`, `LevelsWithoutType`) the step lemmas cite.

### Durability_proofs

For any set of transactions, any split in strict and relaxed ones, any length of
the queue and any number of checkpoints and crashes. The assumptions are those of
`Durability`: the relaxed transactions are transactions, the checkpointer is
not, the bounds are positive numbers.

The argument looks at the log, the batch the write thread is writing and the
queue as one sequence, `Stream`: a record enters it at the end (`Link`) and then
only moves in it, until a crash cuts it. A position of the stream is *safe* for
a writer when it is flushed or the writer is in the message list that the next
flush serves. `DurableInv` has these parts:

- `TypeOK`; `StageInv`: what the place of a thread (`pc`) says of its row in the
  tree, its outcome and its records in the stream;
- `PhaseInv`: what the phase of a checkpoint says of its image, its mark and the
  gate, and that a later checkpoint has all commits of an earlier one;
- `WaitInv`: who is in `flushwait` waits for something in the queue, who is in
  `batchwait` for something in the batch, and a sleeping write thread without a
  message has nobody waiting. Without it `WriterAwake` is not inductive: the
  thread looks at the queue and throws the message away in different steps;
- `MarkInv`: the mark of the header's checkpoint is flushed and can be read; the
  mark of the checkpoint being created is safe for it; no mark has a later time,
  or the present time and a later number. Numbers repeat after a crash, which is
  why a mark must carry the time;
- `CoverInv(header)` and `CoverInv(image)`: a commit in the stream is in the
  image or behind its mark, with its row and with all it has seen; no insert
  behind the mark is of a row of the image; every committed transaction is in
  one or the other. It is stated for both images, as the one being made becomes
  the header's by a single write;
- `FateInv`: only who commits has its commit record in the stream;
- `AnswerInv`: the commit record of a strict transaction is safe for it from the
  moment it is linked, and flushed when it was answered.

Each part has its step lemma (`StageStep`, `WaitStep`, `MarkStep`, ...), with one
step for each action. `DurableNext` puts them together. `NothingForgotten` is the
action property: no step, a crash with any loss of unflushed records included,
takes from what a power failure would leave. Where an induction over the log
would be natural, `SmallestNat` (a set of numbers has a least one) gives the
first record that breaks the claim. `DurableInv` was first checked with TLC, with two
transactions, a queue of two, one checkpoint and one crash (482 633 states).

| theorem | property |
|---|---|
| `TypesCorrect` | `TypeOK` |
| `AnswersDurable`, `MarksFlushed`, `RowsRecovered`, `SeenIsRecovered`, `AbortedNotRecovered`, `RowsRedoneOnce` | what a restart finds: `AnsweredDurable`, `MarkFlushed`, `RowsComplete`, `SeenRecovered`, `AbortedStays`, `RedoOnce` |
| `WriterStaysAwake` | `WriterAwake` |
| `NothingForgotten` | `DurableGrows` |

### LockMgr_proofs

For any set of transactions and names, any bound of the counts and the queues,
any subset of the three modes and the two durations, with time-outs or without,
whether a time-out fails the transaction or not. The theorems have one
hypothesis, `~Conversions`: no client asks for a stronger mode than it holds.
With conversions and time-outs together most of them are false (findings 1 and
2); what holds of conversions that always wait is checked in `LockMgr_convert`.
The assumptions are those of `LockMgr`.

Without conversions a transaction has at most one request in a queue, and a
queue is its granted requests followed by its waiting ones. `LockInv` is

- `Types`: between two calls no request is denied, converting or instant; the
  calls themselves pass through such requests, which is why the lemmas about
  them speak of queues that do not have the type yet;
- `QueueInv`, for a lock: one request of each transaction (`OneEach`); the first
  `g` requests are granted, each compatible with those before it
  (`GrantedFirst`); the cached mode is that of the granted group, the flag says
  whether somebody waits, and the first waiter does not fit (`HeaderInv`). The
  last part is what makes an unlock grant all it can: it looks at the queue only
  up to the first request that has to wait;
- `ClientInv`, for a transaction and a name: who waits has a request with count
  1, no claim, and stops waiting for a name that its own release has passed
  (`WaitPart`); what a client was told is covered by a granted request of at
  least the mode and the duration of each LOCK_OK and a count no smaller than
  their number, and a request that is not for the very long duration has exactly
  as many LOCK_OKs as its count (`ClaimPart`). Without the
  equality a release could free a request that somebody still claims, or keep
  one that nobody claims.

| theorem | property |
|---|---|
| `TypeCorrect` | `TypeOK` |
| `Isolation`, `Coverage`, `Ownership` | `ClaimsCompatible`, `ClaimCovered`, `NoOrphans` |
| `HeaderExact`, `Fifo`, `NobodyStuck` | `GrantedModeExact`, `NoOvertaking`, `NoStuckWaiter` |
| `RerequestGranted` | `RerequestFindsGranted`: the assertion that finding 1 breaks does hold without conversions |

The lemmas about one call (`LockMgr_queues`): `Joined` (a request is appended),
`Counted` (a count changes), `Leaves`, `DeniedLeaves`, `InstantLeaves` (a request
goes and the queue is woken: after `Wake` the queue is again granted requests
before waiting ones, and the first waiter does not fit), `ClassLeaves` (the walk
of `lmgr_unlock_class`, from the newest request to the oldest). `WakeProperties`
is the heart: the walk stops at the first request that does not fit, and the
group it has collected by then is the granted part of the new queue.
In `LockMgr_proofs`, `ClientKept` says that a call of one transaction may grant
another one's waiting request and changes nothing else of it, and `CallStep`
that it is enough to look at the name and the transaction of the call; with
these each action has one step lemma (`StepGranted`, `StepReleased`, ...), and
`NextInv` puts them together.

`LockInv` was checked with TLC before it was proved, on the instances of
`LockMgr_rows` (46 820 states) and `LockMgr_names` (773 232), and with three
transactions and all three modes under symmetry (27 222).

### Mvcc_proofs

For any sets of writers and readers, any rows and stored rows, any number of
leaves and any bounds. The assumptions are those of `Mvcc`: the bounds are
numbers, and the leaves of both trees follow the order of the keys
(`LeavesAssumption`). What findings 3 and 4 break is proved without them:
`SearchesMarkedCorrect` under `~InitRace`, the theorems about keys and rows under
`~EarlyErrors`. Within these hypotheses everything else is free: any
interleaving of statements, ends, searches, full and quick merges, also merges
that stop early or run out of space after their last leaf.

The invariant is built in three layers.

- `BaseInv` needs no hypothesis: `Types`; `StmtInv` (whose statement it is, and
  that a commit which wrote has a number); `WrittenInv` (every key of the trees,
  of the merge and of the copies of the searches was written once); `SearchInv`
  (a search between two calls has no copy, and a listed one is marked).
- `FateInv` adds `KeysInv`, that the end of every key can be found: its number is
  that of its commit, or its id is in the buffer, or it was aborted and its id is
  at most the abort id; and `PatchInv`, that behind the leaf the merge has reached
  no key with a commit up to `patchtrxnum` is without its number. `KeyFateKnown`
  alone is not inductive: the clean after a merge takes ids out of the buffer, and
  only `PatchInv` says that no key needs them any more. It speaks of the copies
  of the searches as well, as long as the merge has stopped and not yet
  cleaned.
- `RowsInv`: `RowInv(r)`, the history of one row: one insert, one delete that was
  not rolled back and could see the row, and whether the row must be in the
  storage tree, told from which of its keys have left the Bonsai tree. `LeftInv`:
  what has left is aborted or has a number up to the level of the merge.
  `LevelInv`: that level is at most the level of every running transaction.
  `WorkInv`: what the merge holds of a leaf is in the tree, is below its level,
  and is complete for the leaves it has visited. The last part is what makes a
  single delete mark safe to move: its row cannot still be in the tree.

| theorem | property | hypothesis |
|---|---|---|
| `TypeCorrect` | `TypeOK` | |
| `SearchesMarkedCorrect` | `SearchesMarked` | `~InitRace` |
| `KeyFateKnownCorrect` | `KeyFateKnown` | `~EarlyErrors` |
| `SnapshotKeptCorrect` | `SnapshotKept` | `~EarlyErrors` |
| `MovesFitCorrect` | `MovesFit` | `~EarlyErrors` |

A cleaned leaf is the heart of the first two layers (`CleanLeafProperties`: a
key of it was there before, and was not to be patched or is patched now);
`MoveRow` that of the third: the first key of what the merge holds is an insert
whose row is not in the storage tree, or a delete whose row comes with it or is
there. `RowMove`, `RowInsert`, `RowDelete` and `RowKept` are the steps of a
row; `SnapshotKept` follows from the invariant row by row.

The invariants were checked with TLC before they were proved, on the instance of
`Mvcc_scans` (2 078 046 states) and with two writers that write twice in a
statement (3 281 938).

### Mvcc_search_proofs

For the same constants as `Mvcc_proofs`, under `~EarlyErrors` and `~InitRace`: with
either of the two steps `ScanExact` is false (findings 3 and 4).

A search holds a copy of one leaf of each tree, and loads the next leaf of one
tree while it keeps its copy of the other. A merge that moves a row in between
makes the two copies of different times. The invariant `ScanInv` says what they
tell together all the same.

- `ViewInv`: a search belongs to a running transaction, and the last statement it
  may see of its own transaction, and all before it, have ended. So the set of keys
  it has to see, `Seen`, is the same in all its steps (`SeenStep`).
- `OrderInv`: the statements of a transaction follow each other, and a delete comes
  after the insert of its row: a search never sees a delete without its insert.
- `SamePlace`: no key is in the Bonsai tree both with and without its number.
- `SearchOK`, for each search:
  - `Shape`: each copy is of one leaf, behind the position;
  - `Passed`: no delete mark is behind the search without its row, unless it was
    the last key, and no row that the search has passed in the storage tree is
    still before it in the Bonsai tree;
  - the rows put out are those to be seen whose place in the storage tree
    is passed;
  - as long as no merge can move keys (`IsFresh`: the search is not marked, or is in
    the merge gate), each copy is what its tree has up to the end of the leaf;
  - under a merge, `Held`: nothing is in the Bonsai tree that the copy has not; and
    `Exact`: for each row up to the end of both leaves, the row is to be
    returned iff one of the copies has it and the copy of the Bonsai tree has no
    delete mark for it; a mark is there only with its row, and a row is not in
    both copies.

| theorem | property | hypothesis |
|---|---|---|
| `ScanInvariant` | | `~EarlyErrors`, `~InitRace` |
| `ScanExactCorrect` | `ScanExact` | the same |
| `MarksMeetRowsCorrect` | `MarksMeetRows` | the same |

`FreshReady` is where the two trees come in: copies that are up to date are `Exact`,
since the trees are (`RowsInv`). It is used when a leaf is loaded, when the search
starts again and when the merge marks it. From then on `Exact` needs no tree:
`StepExact` and `StepOut` take the next key from the two copies alone. `Between` (no key
that is seen lies between the position and the next key) and `MarkNext` (the next key
after a mark is of its row) are the lemmas on the order. A merge moves keys only
under searches that are marked and outside the gate (`OthersStep`, from
`SearchInv` and the guard of `MergeMove`): that is what the gate and the two signals
of the merge are for.

`ScanInv` was checked with TLC first: on the instance of `Mvcc_scans` (2 078 046
states), with two writes in a statement (8 751 075) and with two merges (5 901 299).

## 6. Limits

Only model-checked: in `LockMgr` the conversions and the liveness property
`WaitEnds`; in `Durability` the two
liveness properties, `GateLeft` and `RelaxedWritten`; in `Gtrs` the two
liveness properties, `CommitBecomesVisible` and `WaitReadLevelEnds` (fairness and
ENABLED are out of the prover's reach).

Not modelled:

- lock manager: `uselocks = FALSE`, lock escalation, the `_mme` variants and
  `dbe_lockmgr_cancelwaiting` (no callers in this code);
- transactions: statement groups, the contents of the read and write checks, the
  replication and two-phase variants, the creation of the database;
- M-tables: this source only has stubs for them (`dbe4nomme.c`);
- hot standby: stubs;
- wording, metadata, conversions, costs: no state that could go wrong in an
  interleaving;
- versions, log and recovery: what section 2 lists for `Mvcc` and `Durability`;
- the components of the plan below.

The mapped code is a small share of the repository by lines. Most of the 470 000
lines are the MySQL handler, the data dictionary and administration of `tab`,
the node and key formats of the trees, conversions of types and the portability
layer: code that runs inside one call and keeps no state another thread could
see half done. The models cover the state machines that threads share.

## 7. Plan

Done: the lock manager with its waits; the transaction core with the levels of
the merge; versions, merge and searches; log, checkpoint and recovery; the proofs
of the transaction core, of the log, of the trees, the merge and the searches, and
of the lock manager without conversions.

1. Proofs: `ClaimsCompatible` of `LockMgr` with conversions that always wait.
2. `Gate`: the shared and exclusive gate of `su0gate.c` with its wakeups, which
   `Durability` and `Mvcc` take for granted.
3. The write modes of the log with torn blocks; sequences, cache slots, backup;
   the order-preserving tuple encoding and the external sorter as pure
   algorithms against reference definitions.
