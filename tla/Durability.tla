---------------------------- MODULE Durability ----------------------------
(***************************************************************************)
(* The way of a commit to the disk and back: the write queue of the log    *)
(* with its two threads (src/dbe/dbe7logf.c), the order of the last steps  *)
(* of a transaction (src/dbe/dbe0trx.c), checkpoints (src/dbe/dbe0db.c,    *)
(* src/dbe/dbe6cpm.c), and the roll-forward after a crash                  *)
(* (src/dbe/dbe4rfwd.c, src/dbe/dbe7trxb.c).                               *)
(*                                                                         *)
(* A transaction writes one row, which stands for its rows: the row is     *)
(* named after the transaction.  A log record is written whole.  Sizes are *)
(* counted in records.  `told' and `seen' are history variables.           *)
(***************************************************************************)
EXTENDS Naturals, SequencesExt

CONSTANTS
  Trx,             \* transactions; each is used once
  Relaxed,         \* those with relaxed durability
  Checkpointer,    \* the task that creates checkpoints
  QueueMax,        \* MaxWriteQueueRecords: a writer waits at this many
  FlushLimit,      \* WriteQueueFlushLimit: the thread is woken at this many
  MaxCheckpoints,  \* bound on the checkpoint number
  MaxCrashes       \* bound on the crashes

ASSUME RelaxedAssumption == Relaxed \subseteq Trx
ASSUME CheckpointerAssumption == Checkpointer \notin Trx
ASSUME BoundsAssumption ==
  /\ {QueueMax, FlushLimit} \subseteq Nat \ {0}
  /\ {MaxCheckpoints, MaxCrashes} \subseteq Nat

VARIABLES
  pc,        \* where the thread of each transaction is
  fate,      \* the outcome in the transaction buffer
  tree,      \* the transactions whose row is in the index
  queue,     \* the write queue: records, and does the writer need a flush
  flushwait, \* wqi_writequeue_flushmeswaitlist
  spacewait, \* wqi_writequeue_meswaitlist
  unsent,    \* wqi_nbytes: records since the last message to the thread
  mes,       \* wqi_writequeue_mes is set
  thread,    \* where the write thread is
  batch,     \* what it has taken from the queue
  batchwait, \* who waits for the flush of that
  request,   \* lf_lazyflush_request
  lazydo,    \* lf_lazyflush_do
  log,       \* the log file; Hole is a block that a crash has destroyed
  stable,    \* the records of it that are flushed to the disk
  cp,        \* where the task that creates a checkpoint is
  image,     \* the checkpoint it creates
  header,    \* the checkpoint of the database header
  up,        \* the server runs
  crashes,   \* number of crashes
  told,      \* history: the client was told that its commit succeeded
  seen       \* history: the commits a transaction could see at its begin

trxvars  == <<pc, fate, tree, told, seen>>
linkvars == <<queue, flushwait, spacewait, unsent, mes>>
batchvars == <<thread, batch, batchwait>>
lazyvars == <<request, lazydo>>
diskvars == <<log, stable>>
cpvars   == <<cp, image, header>>
vars == <<trxvars, linkvars, batchvars, lazyvars, diskvars, cpvars, up, crashes>>

Hole == [kind |-> "hole", of |-> 0, ts |-> 0]
Record(kind, t) == [kind |-> kind, of |-> t, ts |-> 0]

\* A mark has the number of the checkpoint and the time of its creation.
Mark(c) == [kind |-> "mark", of |-> c.num, ts |-> c.ts]

Committed == {t \in Trx : fate[t] = "commit"}
Empty == [num |-> 0, ts |-> 0, tree |-> {}, committed |-> {}]

\* A database in use, just after its first checkpoint.
Init ==
  /\ pc = [t \in Trx |-> "idle"]
  /\ fate = [t \in Trx |-> "none"]
  /\ tree = {} /\ told = {}
  /\ seen = [t \in Trx |-> {}]
  /\ queue = << >> /\ flushwait = {} /\ spacewait = {}
  /\ unsent = 0 /\ mes = FALSE
  /\ thread = "check" /\ batch = << >> /\ batchwait = {}
  /\ request = FALSE /\ lazydo = FALSE
  /\ log = <<Mark(Empty)>> /\ stable = 1
  /\ cp = "idle" /\ image = Empty /\ header = Empty
  /\ up = TRUE /\ crashes = 0

-----------------------------------------------------------------------------
(* The write queue and its threads *)

\* Mutant of Link: a record that needs a flush sends no message of its own.
Link_NoMessage(r, w, flush) ==
  LET full == Len(queue) + Len(batch) + 1 >= QueueMax
      send == full \/ unsent + 1 >= FlushLimit
  IN  /\ queue' = Append(queue, [rec |-> r, flush |-> flush])
      /\ flushwait' = IF flush THEN flushwait \cup {w} ELSE flushwait
      /\ spacewait' = IF full /\ ~flush THEN spacewait \cup {w} ELSE spacewait
      /\ unsent' = IF send THEN 0 ELSE unsent + 1
      /\ mes' = (mes \/ send)

\* logfile_putdata_splitif_writequeue: link the record, say who waits and for
\* what, and wake the thread.  The wait itself comes later.
Link(r, w, flush) ==
  LET full == Len(queue) + Len(batch) + 1 >= QueueMax
      send == flush \/ full \/ unsent + 1 >= FlushLimit
  IN  /\ queue' = Append(queue, [rec |-> r, flush |-> flush])
      /\ flushwait' = IF flush THEN flushwait \cup {w} ELSE flushwait
      /\ spacewait' = IF full /\ ~flush THEN spacewait \cup {w} ELSE spacewait
      /\ unsent' = IF send THEN 0 ELSE unsent + 1
      /\ mes' = (mes \/ send)

Waits(w) == w \in flushwait \cup batchwait \cup spacewait

\* Take the whole queue; who waited for space goes on.
Take ==
  /\ up /\ thread = "check" /\ queue # << >>
  /\ batch' = queue /\ queue' = << >>
  /\ batchwait' = flushwait /\ flushwait' = {} /\ spacewait' = {}
  /\ thread' = "write"
  /\ UNCHANGED <<trxvars, unsent, mes, lazyvars, diskvars, cpvars, up, crashes>>

\* With an empty queue the thread sleeps, whatever lf_lazyflush_do says.
Sleep ==
  /\ up /\ thread = "check" /\ queue = << >>
  /\ thread' = "sleep"
  /\ UNCHANGED <<trxvars, linkvars, batch, batchwait, lazyvars, diskvars, cpvars, up, crashes>>

\* SsMesWait and SsMesReset.  A message sent between the two is thrown away;
\* its record is in the queue already, which is looked at again.
Awake ==
  /\ up /\ thread = "sleep" /\ mes
  /\ mes' = FALSE /\ thread' = "check"
  /\ UNCHANGED <<trxvars, queue, flushwait, spacewait, unsent, batch, batchwait,
                 lazyvars, diskvars, cpvars, up, crashes>>

NeedsFlush == \E i \in 1..Len(batch) : batch[i].flush

WriteBatch ==
  /\ up /\ thread = "write"
  /\ log' = log \o [i \in 1..Len(batch) |-> batch[i].rec]
  /\ thread' = IF NeedsFlush THEN "flush" ELSE "wake"
  /\ UNCHANGED <<trxvars, linkvars, batch, batchwait, lazyvars, stable, cpvars, up, crashes>>

\* Mutant of FlushBatch: one record too many is taken for flushed.
FlushBatch_Beyond ==
  /\ up /\ thread = "flush"
  /\ stable' = Len(log) + 1 /\ lazydo' = FALSE
  /\ thread' = "wake"
  /\ UNCHANGED <<trxvars, linkvars, batch, batchwait, request, log, cpvars, up, crashes>>

FlushBatch ==
  /\ up /\ thread = "flush"
  /\ stable' = Len(log) /\ lazydo' = FALSE
  /\ thread' = "wake"
  /\ UNCHANGED <<trxvars, linkvars, batch, batchwait, request, log, cpvars, up, crashes>>

\* Wake those; after a batch that needed no flush, do one that is due.
WakeFlushed ==
  /\ up /\ thread = "wake"
  /\ batchwait' = {} /\ batch' = << >> /\ thread' = "check"
  /\ stable' = IF lazydo /\ ~NeedsFlush THEN Len(log) ELSE stable
  /\ lazydo' = (lazydo /\ NeedsFlush)
  /\ UNCHANGED <<trxvars, linkvars, request, log, cpvars, up, crashes>>

\* The lazy flush thread finds a request at the end of its period.
LazyTick ==
  /\ up /\ request
  /\ request' = FALSE /\ lazydo' = TRUE /\ mes' = TRUE
  /\ UNCHANGED <<trxvars, queue, flushwait, spacewait, unsent, batchvars,
                 diskvars, cpvars, up, crashes>>

-----------------------------------------------------------------------------
(* Transactions.  A checkpoint holds the action gate exclusively while it is
   at "mark"; the threads of transactions hold it shared in the states InGate. *)

InGate(t) ==
  \/ pc[t] \in {"inserting", "commit", "logged", "visible", "aborting"}
  \/ pc[t] = "written" /\ Waits(t)

Begin(t) ==
  /\ up /\ pc[t] = "idle"
  /\ pc' = [pc EXCEPT ![t] = "active"]
  /\ fate' = [fate EXCEPT ![t] = "begin"]
  /\ seen' = [seen EXCEPT ![t] = Committed]
  /\ UNCHANGED <<tree, told, linkvars, batchvars, lazyvars, diskvars, cpvars, up, crashes>>

\* The row goes to the index first ...
InsertTree(t) ==
  /\ up /\ pc[t] = "active" /\ cp # "mark"
  /\ tree' = tree \cup {t}
  /\ pc' = [pc EXCEPT ![t] = "inserting"]
  /\ UNCHANGED <<fate, told, seen, linkvars, batchvars, lazyvars, diskvars, cpvars, up, crashes>>

\* ... and then to the log.  The statement ends, and leaves the gate, when the
\* thread need not wait for space.
InsertLog(t) ==
  /\ up /\ pc[t] = "inserting"
  /\ Link(Record("insert", t), t, FALSE)
  /\ pc' = [pc EXCEPT ![t] = "written"]
  /\ UNCHANGED <<fate, tree, told, seen, batchvars, lazyvars, diskvars, cpvars, up, crashes>>

\* The record of a relaxed commit asks for a lazy flush while it is built,
\* before it is in the queue.
CommitBegin(t) ==
  /\ up /\ pc[t] = "written" /\ ~Waits(t) /\ cp # "mark"
  /\ pc' = [pc EXCEPT ![t] = "commit"]
  /\ request' = (request \/ t \in Relaxed)
  /\ UNCHANGED <<fate, tree, told, seen, linkvars, batchvars, lazydo, diskvars, cpvars, up, crashes>>

CommitLink(t) ==
  /\ up /\ pc[t] = "commit"
  /\ Link(Record("commit", t), t, t \notin Relaxed)
  /\ pc' = [pc EXCEPT ![t] = "logged"]
  /\ UNCHANGED <<fate, tree, told, seen, batchvars, lazyvars, diskvars, cpvars, up, crashes>>

\* Mutant of EndTrx: it may come before the record is in the queue.
EndTrx_Early(t) ==
  /\ up /\ pc[t] \in {"commit", "logged"} /\ (pc[t] = "commit" => fate[t] = "begin")
  /\ fate' = [fate EXCEPT ![t] = "commit"]
  /\ pc' = [pc EXCEPT ![t] = IF @ = "logged" THEN "visible" ELSE @]
  /\ UNCHANGED <<tree, told, seen, linkvars, batchvars, lazyvars, diskvars, cpvars, up, crashes>>

\* dbe_gtrs_endtrx and unlockall: others see the commit, flushed or not.
EndTrx(t) ==
  /\ up /\ pc[t] = "logged"
  /\ fate' = [fate EXCEPT ![t] = "commit"]
  /\ pc' = [pc EXCEPT ![t] = "visible"]
  /\ UNCHANGED <<tree, told, seen, linkvars, batchvars, lazyvars, diskvars, cpvars, up, crashes>>

\* dbe_log_waitflushmes has returned; the gate is left and the client answered.
Answer(t) ==
  /\ up /\ pc[t] = "visible" /\ ~Waits(t)
  /\ pc' = [pc EXCEPT ![t] = "ended"]
  /\ told' = told \cup {t}
  /\ UNCHANGED <<fate, tree, seen, linkvars, batchvars, lazyvars, diskvars, cpvars, up, crashes>>

\* A rollback writes its record, which nobody waits for except for space.
Rollback(t) ==
  /\ up /\ pc[t] = "written" /\ ~Waits(t) /\ cp # "mark"
  /\ Link(Record("abort", t), t, FALSE)
  /\ pc' = [pc EXCEPT ![t] = "aborting"]
  /\ UNCHANGED <<fate, tree, told, seen, batchvars, lazyvars, diskvars, cpvars, up, crashes>>

RollbackEnd(t) ==
  /\ up /\ pc[t] = "aborting" /\ ~Waits(t)
  /\ fate' = [fate EXCEPT ![t] = "abort"]
  /\ pc' = [pc EXCEPT ![t] = "ended"]
  /\ UNCHANGED <<tree, told, seen, linkvars, batchvars, lazyvars, diskvars, cpvars, up, crashes>>

-----------------------------------------------------------------------------
(* Checkpoints *)

\* Mutant of Quiet: a commit that has its record in the log is not waited for.
Quiet_Logged == \A t \in Trx : InGate(t) => pc[t] \in {"logged", "visible"}

\* dbe_db_enteraction_exclusive lets the checkpoint in.
Quiet == \A t \in Trx : ~InGate(t)

\* Everything up to the wait for the mark.  The trees are copied on write from
\* here on, so the image is what the cache flush will have written at the end.
CheckpointStart ==
  /\ up /\ cp = "idle" /\ Quiet /\ header.num < MaxCheckpoints
  /\ image' = [num |-> header.num + 1, ts |-> crashes,
               tree |-> tree, committed |-> Committed]
  /\ Link(Mark(image'), Checkpointer, TRUE)
  /\ cp' = "mark"
  /\ UNCHANGED <<trxvars, batchvars, lazyvars, diskvars, header, up, crashes>>

\* Mutant of CheckpointMarked: the mark is not waited for.
CheckpointMarked_NoWait ==
  /\ up /\ cp = "mark"
  /\ cp' = "save"
  /\ UNCHANGED <<trxvars, linkvars, batchvars, lazyvars, diskvars, image, header, up, crashes>>

\* The mark is flushed; the gate is left and the caches are flushed.
CheckpointMarked ==
  /\ up /\ cp = "mark" /\ ~Waits(Checkpointer)
  /\ cp' = "save"
  /\ UNCHANGED <<trxvars, linkvars, batchvars, lazyvars, diskvars, image, header, up, crashes>>

\* The header is saved: a restart uses the new checkpoint from now on.
CheckpointEnd ==
  /\ up /\ cp = "save"
  /\ header' = image /\ cp' = "idle"
  /\ UNCHANGED <<trxvars, linkvars, batchvars, lazyvars, diskvars, image, up, crashes>>

-----------------------------------------------------------------------------
(* Crash and roll-forward *)

\* Mutant of Readable: a block that cannot be read is skipped.
Readable_Skip(l) == SelectSeq(l, LAMBDA r : r # Hole)

\* The log up to the first block that cannot be read.
Readable(l) ==
  LET n == SelectInSeq(l, LAMBDA r : r = Hole)
  IN  IF n = 0 THEN l ELSE SubSeq(l, 1, n - 1)

\* Mutant of AfterMark: the number alone tells the mark.
AfterMark_Number(h, l) ==
  {l[i] : i \in {i \in 1..Len(l) :
             \E j \in 1..(i - 1) : l[j].kind = "mark" /\ l[j].of = h.num}}

\* The records behind the mark of checkpoint h; none if it is not found.
AfterMark(h, l) ==
  {l[i] : i \in {i \in 1..Len(l) : \E j \in 1..(i - 1) : l[j] = Mark(h)}}

Of(kind, records) == {r.of : r \in {r \in records : r.kind = kind}}

\* Mutant of Redone: the end of a transaction is taken for its commit.
Redone_Abort(h, l) ==
  LET after == AfterMark(h, l) IN Of("commit", after) \cup Of("abort", after)

\* The commits that dbe_rollfwd_scancommitmarks finds.
Redone(h, l) == Of("commit", AfterMark(h, l))

\* What a restart from checkpoint h and the readable log l finds committed, which
\* rows it inserts again, and which rows the index then has.
Recovered(h, l) == h.committed \cup Redone(h, l)
RowsRedone(h, l) == Of("insert", AfterMark(h, l)) \cap Recovered(h, l)
RecoveredTree(h, l) == h.tree \cup RowsRedone(h, l)

\* What a crash leaves of the memory: nothing.
Forget ==
  /\ up /\ crashes < MaxCrashes
  /\ up' = FALSE /\ crashes' = crashes + 1
  /\ pc' = [t \in Trx |-> IF pc[t] \in {"idle", "ended"} THEN pc[t] ELSE "gone"]
  /\ queue' = << >> /\ flushwait' = {} /\ spacewait' = {}
  /\ unsent' = 0 /\ mes' = FALSE
  /\ thread' = "check" /\ batch' = << >> /\ batchwait' = {}
  /\ request' = FALSE /\ lazydo' = FALSE
  /\ cp' = "idle" /\ image' = header /\ tree' = {}
  /\ UNCHANGED <<fate, told, seen, header>>

\* The process ends: what was handed to the operating system is kept, which is
\* some prefix of what the write thread was about to write.
ProcessCrash ==
  /\ Forget
  /\ \E n \in stable..Len(log) : log' = SubSeq(log, 1, n)
  /\ UNCHANGED stable

\* The machine stops: of what is not flushed, any blocks may be lost.  One that
\* loses none leaves what a ProcessCrash leaves.
PowerFailure ==
  /\ Forget
  /\ \E lost \in SUBSET ((stable + 1)..Len(log)) \ {{}} :
       log' = [i \in 1..Len(log) |-> IF i \in lost THEN Hole ELSE log[i]]
  /\ stable' = Len(log)

\* Mutant of Restart: the unreadable end of the log is not cut off.
Restart_NoClear ==
  /\ ~up /\ up' = TRUE
  /\ tree' = RecoveredTree(header, Readable(log))
  /\ fate' = [t \in Trx |-> IF t \in Recovered(header, Readable(log)) THEN "commit"
                            ELSE IF pc[t] = "idle" THEN "none" ELSE "abort"]
  /\ UNCHANGED <<pc, told, seen, linkvars, batchvars, lazyvars, diskvars, cpvars, crashes>>

\* dbe_db_init and dbe_db_recover: the checkpoint is restored, the commits
\* behind its mark are found and their rows inserted, the unreadable end of the
\* log is cut off, and what is not committed is dropped from the buffer.
Restart ==
  /\ ~up /\ up' = TRUE
  /\ tree' = RecoveredTree(header, Readable(log))
  /\ fate' = [t \in Trx |-> IF t \in Recovered(header, Readable(log)) THEN "commit"
                            ELSE IF pc[t] = "idle" THEN "none" ELSE "abort"]
  /\ log' = Readable(log)
  /\ stable' = IF stable < Len(log') THEN stable ELSE Len(log')
  /\ UNCHANGED <<pc, told, seen, linkvars, batchvars, lazyvars, cpvars, crashes>>

-----------------------------------------------------------------------------
TrxStep(t) ==
  \/ InsertLog(t) \/ CommitLink(t) \/ EndTrx(t) \/ Answer(t) \/ RollbackEnd(t)

WriteThread ==
  \/ Take \/ Sleep \/ Awake \/ WriteBatch \/ FlushBatch \/ WakeFlushed

Next ==
  \/ \E t \in Trx : \/ Begin(t) \/ InsertTree(t) \/ InsertLog(t)
                    \/ CommitBegin(t) \/ CommitLink(t) \/ EndTrx(t) \/ Answer(t)
                    \/ Rollback(t) \/ RollbackEnd(t)
  \/ Take \/ Sleep \/ Awake \/ WriteBatch \/ FlushBatch \/ WakeFlushed
  \/ LazyTick
  \/ CheckpointStart \/ CheckpointMarked \/ CheckpointEnd
  \/ ProcessCrash \/ PowerFailure \/ Restart

Spec == Init /\ [][Next]_vars

\* Threads run: a transaction that has entered the gate goes on, and so does the
\* write thread.  Nothing forces a transaction to begin, to commit or to roll
\* back, nor a checkpoint to start.
Fairness ==
  /\ \A t \in Trx : WF_vars(TrxStep(t))
  /\ WF_vars(WriteThread)

FairSpec == Spec /\ Fairness

\* The lazy flush thread runs, too.
LazySpec == FairSpec /\ WF_vars(LazyTick)

-----------------------------------------------------------------------------
(* Properties *)

Checkpoints ==
  [num : 0..MaxCheckpoints, ts : 0..MaxCrashes, tree : SUBSET Trx, committed : SUBSET Trx]

Records ==
  [kind : {"insert", "commit", "abort"}, of : Trx, ts : {0}]
    \cup [kind : {"mark"}, of : 0..MaxCheckpoints, ts : 0..MaxCrashes]

\* The types of the variables; what is flushed is part of the file (lf_flushed).
TypeOK ==
  /\ pc \in [Trx -> {"idle", "active", "inserting", "written", "commit",
                     "logged", "visible", "aborting", "ended", "gone"}]
  /\ fate \in [Trx -> {"none", "begin", "commit", "abort"}]
  /\ tree \subseteq Trx /\ told \subseteq Trx /\ seen \in [Trx -> SUBSET Trx]
  /\ queue \in Seq([rec : Records, flush : BOOLEAN])
  /\ batch \in Seq([rec : Records, flush : BOOLEAN])
  /\ flushwait \cup spacewait \cup batchwait \subseteq Trx \cup {Checkpointer}
  /\ unsent \in 0..FlushLimit
  /\ {mes, request, lazydo, up} \subseteq BOOLEAN
  /\ thread \in {"check", "sleep", "write", "flush", "wake"}
  /\ log \in Seq(Records \cup {Hole}) /\ stable \in 1..Len(log)
  /\ cp \in {"idle", "mark", "save"} /\ {image, header} \subseteq Checkpoints
  /\ crashes \in 0..MaxCrashes

\* What survives any crash from here on.
Survives(h, l, n) == Recovered(h, Readable(SubSeq(l, 1, n)))
Durable == Survives(header, log, stable)

\* The logs that the next restart may find, holes cut off, and what it then finds
\* committed.
Ends ==
  LET l == Readable(log)
  IN  {SubSeq(l, 1, n) : n \in (IF up THEN stable ELSE Len(l))..Len(l)}
Recoveries == {Recovered(header, l) : l \in Ends}

\* A strict commit that was answered (after dbe_log_waitflushmes, dbe0trx.c:3868)
\* is found again by every restart, whatever checkpoint the header has by then.
AnsweredDurable == told \ Relaxed \subseteq Durable

\* The mark of the checkpoint a restart would use is in the flushed log: without
\* it dbe_rollfwd_scancommitmarks redoes nothing, and does not say so.
MarkFlushed == \E i \in 1..stable : log[i] = Mark(header)

\* A restart finds every row of every transaction it finds committed, in the
\* image or behind the mark (db_createcp_start behind the exclusive gate).
RowsComplete ==
  \A l \in Ends : Recovered(header, l) \subseteq RecoveredTree(header, l)

\* Whatever a recovered transaction could see when it began is recovered too:
\* dbe_gtrs_endtrx shows a commit after its record is in the queue, not before.
SeenRecovered ==
  \A r \in Recoveries : \A t \in r : seen[t] \subseteq r

\* What was rolled back, or dropped by a restart (dbe_trxbuf_cleanuncommitted),
\* is never found committed later.
AbortedStays ==
  \A r \in Recoveries : \A t \in r : fate[t] # "abort"

\* The roll-forward never inserts a row that the image already has: the mark is
\* told by its time too (dbe4rfwd.c:1411), since a crash can leave an older mark
\* with the same number, and no insert is between index and log at the mark.
RedoOnce ==
  \A l \in Ends : RowsRedone(header, l) \cap header.tree = {}

\* What has survived once survives for ever: neither a checkpoint that replaces
\* the one before (dbe_db_createcp_end) nor a crash takes a commit away.
DurableGrows == [][Durable \subseteq Survives(header', log', stable')]_vars

\* A transaction that has entered the gate leaves it: who waits for the flush,
\* or for space in the queue, is woken (logf_writequeue_flushthr).  A relaxed one
\* waits for space only, as the strict ones do, too.
GateLeft == \A t \in Trx \ Relaxed : InGate(t) ~> ~InGate(t)

\* The write thread never sleeps without a message while a transaction or the
\* checkpoint, which holds the gate alone, waits for a flush or for space: the
\* message it throws away in Awake was for records it looks at next.
WriterAwake ==
  thread = "sleep" /\ ~mes => flushwait \cup batchwait \cup spacewait = {}

\* "Maximum time (in ms) the server waits before writing committed transactions
\* to the log.  Applies only when durability level is RELAXED" (dbe7cfg.c:888):
\* the record of a relaxed commit that was answered gets to the log file some
\* time (logf_lazy_flushthr, logf_writequeue_flushthr).
RelaxedWritten ==
  \A t \in Relaxed : t \in told ~> Record("commit", t) \in Range(log)
=============================================================================
