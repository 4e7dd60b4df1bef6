------------------------- MODULE Durability_proofs -------------------------
(***************************************************************************)
(* Theorems about module Durability, for every set of transactions and     *)
(* every value of the bounds.                                              *)
(***************************************************************************)
EXTENDS Durability, NatLemmas, TLAPS

(***************************************************************************)
(* The inductive invariant.                                                *)
(***************************************************************************)

\* The records on their way: the log, what the write thread is about to write
\* of its batch, and the queue, as one sequence.
Unwritten == IF thread = "write" THEN batch ELSE << >>

Stream ==
  [j \in 1..(Len(log) + Len(Unwritten) + Len(queue)) |->
     IF j <= Len(log) THEN log[j]
     ELSE IF j <= Len(log) + Len(Unwritten) THEN Unwritten[j - Len(log)].rec
     ELSE queue[j - Len(log) - Len(Unwritten)].rec]

\* The first j entries of l can be read.
Whole(l, j) == \A i \in 1..j : l[i] # Hole

\* Entry j of l is behind the mark of checkpoint c.
Behind(l, j, c) == \E i \in 1..(j - 1) : l[i] = Mark(c)

\* Among the first n entries of l, such a record is behind the mark of c.
Has(l, n, kind, t, c) ==
  \E k \in 1..n : l[k] = Record(kind, t) /\ Behind(l, k, c)

Running == {"active", "inserting", "written", "commit", "logged", "aborting"}
Rowed == {"inserting", "written", "commit", "logged", "visible", "aborting"}

\* Where the thread of a transaction is tells its outcome and its row.
StageInv ==
  /\ \A t \in Trx :
       /\ pc[t] = "idle" => fate[t] = "none"
       /\ pc[t] \in Running => fate[t] = "begin"
       /\ pc[t] = "visible" => fate[t] = "commit"
       /\ pc[t] = "ended" => fate[t] \in {"commit", "abort"}
       /\ pc[t] = "gone" => fate[t] # "none" /\ (up => fate[t] # "begin")
       /\ ~up => pc[t] \in {"idle", "ended", "gone"}
       /\ up /\ fate[t] \in {"begin", "commit"} => seen[t] \subseteq Committed
  /\ up => \A t \in Trx :
       /\ pc[t] \in Rowed \/ fate[t] = "commit" => t \in tree
       /\ pc[t] \in {"idle", "active"} => t \notin tree

\* The steps of a checkpoint; what a crash leaves of the queue.
PhaseInv ==
  /\ cp = "idle" => image = header
  /\ header.committed \subseteq image.committed
  /\ cp # "idle" => up /\ image.num = header.num + 1 /\ image.ts = crashes
  /\ cp = "mark" => \A t \in Trx : pc[t] \notin Rowed \ {"written"}
  /\ ~up => cp = "idle" /\ thread = "check" /\ queue = << >> /\ batch = << >>

\* Waits and the write thread: who waits has an entry in the queue or in the
\* batch, and the thread has a message for it.
WaitInv ==
  /\ thread \in {"check", "sleep"} => batchwait = {}
  /\ flushwait \cup spacewait # {} => queue # << >>
  /\ flushwait # {} => \E i \in 1..Len(queue) : queue[i].flush
  /\ batchwait # {} /\ thread = "write" => NeedsFlush
  /\ WriterAwake

\* Entry j of the stream is flushed, or w waits for it to be.
Safe(w, j) ==
  \/ j <= stable
  \/ w \in batchwait /\ thread = "flush" /\ j <= Len(log)
  \/ w \in batchwait /\ thread = "write" /\ j <= Len(log) + Len(batch)
  \/ w \in flushwait

\* The marks of the checkpoints, and that no other has the number and the time
\* of the next one.
MarkInv ==
  /\ up => Whole(Stream, Len(Stream))
  /\ \E i \in 1..stable : log[i] = Mark(header) /\ Whole(log, i)
  /\ cp = "mark" =>
       \E j \in 1..Len(Stream) : Stream[j] = Mark(image) /\ Safe(Checkpointer, j)
  /\ cp = "save" => \E i \in 1..stable : log[i] = Mark(image)
  /\ header.ts <= crashes
  /\ \A j \in 1..Len(Stream) :
       Stream[j].kind = "mark" =>
         \/ Stream[j].ts < crashes
         \/ Stream[j].ts = crashes /\ Stream[j].of <= image.num

\* The image of a checkpoint is closed, and what is new to the index is not in it.
ImageInv(c) ==
  /\ c.committed \subseteq c.tree /\ c.committed \subseteq Committed
  /\ \A t \in c.committed : seen[t] \subseteq c.committed
  /\ \A t \in Trx : pc[t] \in {"idle", "active", "inserting"} => t \notin c.tree

\* A commit in the log is in the checkpoint or behind its mark, with its row and
\* with every commit it has seen.
CommitsCovered(c) ==
  \A j \in 1..Len(Stream), t \in Trx :
    Whole(Stream, j) /\ Stream[j] = Record("commit", t) =>
      /\ t \in c.committed \/ Behind(Stream, j, c)
      /\ t \in c.tree \/ Has(Stream, j, "insert", t, c)
      /\ \A u \in seen[t] : u \in c.committed \/ Has(Stream, j, "commit", u, c)

\* No row of a checkpoint is inserted behind its mark.
InsertsNew(c) ==
  \A j \in 1..Len(Stream), t \in Trx :
    Whole(Stream, j) /\ Stream[j] = Record("insert", t) /\ Behind(Stream, j, c)
      => t \notin c.tree

\* What the running server has done is in the checkpoint or on its way.
StreamReaches(c) ==
  up => \A t \in Trx :
    /\ fate[t] = "commit" \/ pc[t] = "logged" =>
         t \in c.committed \/ Has(Stream, Len(Stream), "commit", t, c)
    /\ pc[t] \in {"written", "commit"} =>
         t \in c.tree \/ Has(Stream, Len(Stream), "insert", t, c)

CoverInv(c) ==
  ImageInv(c) /\ CommitsCovered(c) /\ InsertsNew(c) /\ StreamReaches(c)

\* Only who commits has its commit in the log.
FateInv ==
  \A j \in 1..Len(Stream), t \in Trx :
    Whole(Stream, j) /\ Stream[j] = Record("commit", t) =>
      fate[t] = "commit" \/ (fate[t] = "begin" /\ pc[t] \in {"logged", "gone"})

\* The strict commits on their way, and those that were answered.
AnswerInv ==
  /\ \A t \in Trx \ Relaxed :
       pc[t] \in {"logged", "visible"} =>
         \E j \in 1..Len(Stream) : Stream[j] = Record("commit", t) /\ Safe(t, j)
  /\ AnsweredDurable

DurableInv ==
  /\ TypeOK /\ StageInv /\ PhaseInv /\ WaitInv /\ MarkInv
  /\ CoverInv(header) /\ CoverInv(image)
  /\ FateInv /\ AnswerInv
-----------------------------------------------------------------------------
(***************************************************************************)
(* Sequences and records                                                   *)
(***************************************************************************)

\* What the first n entries of a sequence are.
LEMMA PrefixProperties ==
  ASSUME NEW S, NEW s \in Seq(S), NEW n \in 0..Len(s)
  PROVE  /\ SubSeq(s, 1, n) \in Seq(S)
         /\ Len(SubSeq(s, 1, n)) = n
         /\ \A i \in 1..n : SubSeq(s, 1, n)[i] = s[i]
OBVIOUS

\* The readable part of a log is all before its first hole.
LEMMA ReadableIsPrefix ==
  ASSUME NEW S, NEW l \in Seq(S)
  PROVE  \E n \in 0..Len(l) :
           /\ Readable(l) \in Seq(S) /\ Len(Readable(l)) = n
           /\ \A i \in 1..n : Readable(l)[i] = l[i] /\ l[i] # Hole
           /\ n < Len(l) => l[n + 1] = Hole
<1> DEFINE I == {i \in 1..Len(l) : l[i] = Hole}
<1> Len(l) \in Nat
  OBVIOUS
<1>1. CASE I = {}
  <2>1. Readable(l) = l
    BY <1>1 DEF Readable, SelectInSeq
  <2>2. \A i \in 1..Len(l) : l[i] # Hole
    BY <1>1
  <2> QED
    BY <2>2, <2>1
<1>2. CASE I # {}
  <2>0. I \subseteq Nat
    OBVIOUS
  <2>1. \E n \in I : \A m \in I : n <= m
    <3> HIDE DEF I
    <3> QED BY <1>2, <2>0, SmallestNat
  <2>2. Min(I) \in I /\ \A m \in I : Min(I) <= m
    BY <2>1 DEF Min
  <2> DEFINE n == Min(I) - 1
  <2>3. Readable(l) = SubSeq(l, 1, n)
    <3>1. SelectInSeq(l, LAMBDA r : r = Hole) = Min(I)
      BY <1>2 DEF SelectInSeq
    <3>2. Min(I) # 0
      BY <2>2
    <3> HIDE DEF I
    <3> QED
      BY <3>1, <3>2 DEF Readable
  <2>4. n \in 0..Len(l) /\ n < Len(l) /\ l[n + 1] = Hole
    BY <2>2
  <2>5. \A i \in 1..n : l[i] # Hole
    BY <2>2
  <2>6. Readable(l) \in Seq(S) /\ Len(Readable(l)) = n
    BY <2>3, <2>4, PrefixProperties
  <2>7. \A i \in 1..n : Readable(l)[i] = l[i]
    BY <2>3, <2>4, PrefixProperties
  <2> QED
    <3> HIDE DEF n
    <3> QED BY <2>4, <2>5, <2>6, <2>7
<1> QED
  BY <1>1, <1>2

Entries == Records \cup {Hole}

\* The kinds of records exclude each other, and tell what a record is of.
LEMMA RecordFacts ==
  /\ \A t, u : \A k, l : Record(k, t) = Record(l, u) => k = l /\ t = u
  /\ \A k, t, c : k # "mark" => Record(k, t) # Mark(c)
  /\ \A k, t : k # "hole" => Record(k, t) # Hole
  /\ \A c : Mark(c) # Hole
  /\ \A c, d : Mark(c) = Mark(d) => c.num = d.num /\ c.ts = d.ts
  /\ \A r \in Entries : \A k \in {"insert", "commit", "abort"} :
       r.kind = k => r.of \in Trx /\ r = Record(k, r.of)
<1>1. \A t, u : \A k, l : Record(k, t) = Record(l, u) => k = l /\ t = u
  BY DEF Record
<1>2. \A k, t, c : k # "mark" => Record(k, t) # Mark(c)
  BY DEF Record, Mark
<1>3. \A k, t : k # "hole" => Record(k, t) # Hole
  BY DEF Record, Hole
<1>4. \A c : Mark(c) # Hole
  BY DEF Mark, Hole
<1>5. \A c, d : Mark(c) = Mark(d) => c.num = d.num /\ c.ts = d.ts
  BY DEF Mark
<1>6. \A r \in Entries : \A k \in {"insert", "commit", "abort"} :
        r.kind = k => r.of \in Trx /\ r = Record(k, r.of)
  BY DEF Entries, Records, Record, Hole
<1> QED
  BY <1>1, <1>2, <1>3, <1>4, <1>5, <1>6

\* Which records the actions make.
LEMMA RecordTypes ==
  /\ \A t \in Trx : \A k \in {"insert", "commit", "abort"} : Record(k, t) \in Records
  /\ \A c \in Checkpoints : Mark(c) \in Records
  /\ Hole \notin Records
<1>1. \A t \in Trx : \A k \in {"insert", "commit", "abort"} : Record(k, t) \in Records
  BY DEF Records, Record
<1>2. \A c \in Checkpoints : Mark(c) \in Records
  BY DEF Records, Mark, Checkpoints
<1>3. Hole \notin Records
  BY DEF Records, Hole
<1> QED
  BY <1>1, <1>2, <1>3

\* The types of the stream; the log is its beginning.
StreamTyped ==
  /\ Stream \in Seq(Entries)
  /\ Len(Stream) = Len(log) + Len(Unwritten) + Len(queue)
  /\ Len(log) \in Nat /\ Len(Unwritten) \in Nat /\ Len(queue) \in Nat
  /\ \A j \in 1..Len(log) : Stream[j] = log[j]
  /\ \A j \in (Len(log) + 1)..Len(Stream) : Stream[j] \in Records

\* The log, the batch and the queue have records, and so has the stream.
LEMMA StreamType == TypeOK => StreamTyped
<1> SUFFICES ASSUME TypeOK
             PROVE  StreamTyped
  OBVIOUS
<1> DEFINE Q == [rec : Records, flush : BOOLEAN]
           n == Len(log) + Len(Unwritten) + Len(queue)
<1>1. log \in Seq(Entries) /\ queue \in Seq(Q) /\ Unwritten \in Seq(Q)
  BY DEF TypeOK, Unwritten, Entries
<1>2. Len(log) \in Nat /\ Len(Unwritten) \in Nat /\ Len(queue) \in Nat
  BY <1>1
<1>3. /\ \A j \in 1..Len(log) : log[j] \in Entries
      /\ \A j \in 1..Len(queue) : queue[j].rec \in Records
      /\ \A j \in 1..Len(Unwritten) : Unwritten[j].rec \in Records
  <2>1. \A q \in Q : q.rec \in Records
    OBVIOUS
  <2> HIDE DEF Q
  <2> QED
    BY <1>1, <2>1
<1>4. \A j \in (Len(log) + 1)..n : Stream[j] \in Records
  BY <1>2, <1>3 DEF Stream
<1>5. \A j \in 1..Len(log) : Stream[j] = log[j]
  BY <1>2 DEF Stream
<1>6. \A j \in 1..n : Stream[j] \in Entries
  BY <1>2, <1>3, <1>4, <1>5 DEF Entries
<1>7. n \in Nat /\ Stream = [j \in 1..n |-> Stream[j]]
  BY <1>2 DEF Stream
<1>8. Stream \in Seq(Entries) /\ Len(Stream) = n
  BY <1>6, <1>7
<1> QED
  BY <1>2, <1>4, <1>5, <1>8 DEF StreamTyped

\* The same of the state after a step.
LEMMA StreamTypeNext == TypeOK' => StreamTyped'
BY StreamType, PTL

\* The log is the beginning of the stream, and what is flushed that of the log.
LEMMA LogInStream ==
  ASSUME TypeOK
  PROVE  /\ stable \in Nat /\ stable <= Len(log) /\ Len(log) \in Nat
         /\ Len(Stream) \in Nat /\ Len(log) <= Len(Stream)
         /\ \A j \in 1..Len(log) : Stream[j] = log[j]
         /\ \A j \in 1..Len(Stream) : Stream[j] \in Entries
<1>1. stable \in 1..Len(log)
  BY DEF TypeOK
<1> QED
  BY <1>1, StreamType DEF StreamTyped

\* The numbers and times of checkpoints and crashes.
LEMMA NumberTypes ==
  ASSUME TypeOK
  PROVE  /\ header \in Checkpoints /\ image \in Checkpoints
         /\ header.num \in Nat /\ image.num \in Nat
         /\ header.ts \in Nat /\ crashes \in Nat
<1>1. header \in Checkpoints /\ image \in Checkpoints /\ crashes \in Nat
  BY DEF TypeOK
<1> QED
  BY <1>1 DEF Checkpoints
-----------------------------------------------------------------------------
(***************************************************************************)
(* Types                                                                   *)
(***************************************************************************)

Waiters == Trx \cup {Checkpointer}
Queues == Seq([rec : Records, flush : BOOLEAN])

\* Linking a record keeps the types of the queue.
LEMMA LinkTypes ==
  ASSUME TypeOK, NEW r \in Records, NEW w \in Waiters, NEW f \in BOOLEAN,
         Link(r, w, f)
  PROVE  /\ queue' \in Queues /\ unsent' \in 0..FlushLimit /\ mes' \in BOOLEAN
         /\ flushwait' \subseteq Waiters /\ spacewait' \subseteq Waiters
<1>1. [rec |-> r, flush |-> f] \in [rec : Records, flush : BOOLEAN]
  OBVIOUS
<1>2. queue' \in Queues
  BY <1>1 DEF TypeOK, Link, Queues
<1>3. flushwait' \subseteq Waiters /\ spacewait' \subseteq Waiters
  BY DEF TypeOK, Link, Waiters
<1>4. mes' \in BOOLEAN
  BY DEF TypeOK, Link
<1>5. unsent' \in 0..FlushLimit
  <2>1. unsent \in Nat /\ unsent <= FlushLimit /\ FlushLimit \in Nat \ {0}
    BY BoundsAssumption DEF TypeOK
  <2>2. unsent' = 0 \/ (unsent' = unsent + 1 /\ ~(unsent + 1 >= FlushLimit))
    BY DEF Link
  <2> QED
    BY <2>1, <2>2
<1> QED
  BY <1>2, <1>3, <1>4, <1>5

\* What a restart reads of the log, and which transactions it finds.
LEMMA RestartTypes ==
  ASSUME TypeOK, NEW l \in Seq(Entries)
  PROVE  /\ Recovered(header, l) \subseteq Trx
         /\ RecoveredTree(header, l) \subseteq Trx
<1>1. AfterMark(header, l) \subseteq Entries
  BY DEF AfterMark
<1>2. /\ Of("commit", AfterMark(header, l)) \subseteq Trx
      /\ Of("insert", AfterMark(header, l)) \subseteq Trx
  BY <1>1, RecordFacts DEF Of
<1>3. header \in Checkpoints
  BY DEF TypeOK
<1>4. header.tree \subseteq Trx /\ header.committed \subseteq Trx
  BY <1>3 DEF Checkpoints
<1> QED
  BY <1>2, <1>4 DEF Recovered, RecoveredTree, RowsRedone, Redone

\* The types of the database in use, just after its first checkpoint.
LEMMA TypeInit == Init => TypeOK
<1> SUFFICES ASSUME Init PROVE TypeOK
  OBVIOUS
<1>1. Empty \in Checkpoints
  BY BoundsAssumption DEF Empty, Checkpoints
<1>2. log \in Seq(Records \cup {Hole}) /\ Len(log) = 1
  BY <1>1, RecordTypes DEF Init
<1>3. unsent \in 0..FlushLimit /\ crashes \in 0..MaxCrashes
  BY BoundsAssumption DEF Init
<1>4. /\ pc \in [Trx -> {"idle", "active", "inserting", "written", "commit",
                     "logged", "visible", "aborting", "ended", "gone"}]
      /\ fate \in [Trx -> {"none", "begin", "commit", "abort"}]
      /\ seen \in [Trx -> SUBSET Trx]
  BY DEF Init
<1>5. queue \in Queues /\ batch \in Queues
  BY DEF Init, Queues
<1>6. {image, header} \subseteq Checkpoints /\ stable \in 1..Len(log)
  BY <1>1, <1>2 DEF Init
<1>7. /\ tree \subseteq Trx /\ told \subseteq Trx
      /\ flushwait \cup spacewait \cup batchwait \subseteq Trx \cup {Checkpointer}
      /\ {mes, request, lazydo, up} \subseteq BOOLEAN
      /\ thread = "check" /\ cp = "idle"
  BY DEF Init
<1> QED
  BY <1>2, <1>3, <1>4, <1>5, <1>6, <1>7 DEF TypeOK, Queues

\* The steps of the transactions.
LEMMA TrxTypes ==
  ASSUME TypeOK, NEW t \in Trx,
         \/ Begin(t) \/ InsertTree(t) \/ InsertLog(t) \/ CommitBegin(t)
         \/ CommitLink(t) \/ EndTrx(t) \/ Answer(t) \/ Rollback(t) \/ RollbackEnd(t)
  PROVE  TypeOK'
<1>1. CASE Begin(t)
  BY <1>1 DEF Begin, TypeOK, Committed, linkvars, batchvars, lazyvars, diskvars, cpvars
<1>2. CASE InsertTree(t)
  BY <1>2 DEF InsertTree, TypeOK, linkvars, batchvars, lazyvars, diskvars, cpvars
<1>3. CASE InsertLog(t)
  <2>1. Record("insert", t) \in Records
    BY RecordTypes
  <2>2. /\ queue' \in Queues /\ unsent' \in 0..FlushLimit /\ mes' \in BOOLEAN
        /\ flushwait' \subseteq Waiters /\ spacewait' \subseteq Waiters
    BY <1>3, <2>1, LinkTypes DEF InsertLog, Waiters
  <2> QED
    BY <1>3, <2>2 DEF InsertLog, TypeOK, Waiters, Queues, batchvars, lazyvars, diskvars, cpvars
<1>4. CASE CommitBegin(t)
  BY <1>4 DEF CommitBegin, TypeOK, linkvars, batchvars, diskvars, cpvars
<1>5. CASE CommitLink(t)
  <2>1. Record("commit", t) \in Records
    BY RecordTypes
  <2>2. /\ queue' \in Queues /\ unsent' \in 0..FlushLimit /\ mes' \in BOOLEAN
        /\ flushwait' \subseteq Waiters /\ spacewait' \subseteq Waiters
    BY <1>5, <2>1, LinkTypes DEF CommitLink, Waiters
  <2> QED
    BY <1>5, <2>2 DEF CommitLink, TypeOK, Waiters, Queues, batchvars, lazyvars, diskvars, cpvars
<1>6. CASE EndTrx(t)
  BY <1>6 DEF EndTrx, TypeOK, linkvars, batchvars, lazyvars, diskvars, cpvars
<1>7. CASE Answer(t)
  BY <1>7 DEF Answer, TypeOK, linkvars, batchvars, lazyvars, diskvars, cpvars
<1>8. CASE Rollback(t)
  <2>1. Record("abort", t) \in Records
    BY RecordTypes
  <2>2. /\ queue' \in Queues /\ unsent' \in 0..FlushLimit /\ mes' \in BOOLEAN
        /\ flushwait' \subseteq Waiters /\ spacewait' \subseteq Waiters
    BY <1>8, <2>1, LinkTypes DEF Rollback, Waiters
  <2> QED
    BY <1>8, <2>2 DEF Rollback, TypeOK, Waiters, Queues, batchvars, lazyvars, diskvars, cpvars
<1>9. CASE RollbackEnd(t)
  BY <1>9 DEF RollbackEnd, TypeOK, linkvars, batchvars, lazyvars, diskvars, cpvars
<1> QED
  BY <1>1, <1>2, <1>3, <1>4, <1>5, <1>6, <1>7, <1>8, <1>9

\* The log that WriteBatch leaves: the records of the batch come last.
LEMMA BatchWritten ==
  ASSUME TypeOK, NEW l, l = log \o [i \in 1..Len(batch) |-> batch[i].rec]
  PROVE  /\ l \in Seq(Entries) /\ Len(l) = Len(log) + Len(batch)
         /\ \A j \in 1..Len(log) : l[j] = log[j]
         /\ \A j \in (Len(log) + 1)..Len(l) : l[j] = batch[j - Len(log)].rec
<1> DEFINE b == [i \in 1..Len(batch) |-> batch[i].rec]
<1>1. log \in Seq(Entries) /\ batch \in Queues
  BY DEF TypeOK, Entries, Queues
<1>2. \A q \in [rec : Records, flush : BOOLEAN] : q.rec \in Entries
  BY DEF Entries
<1>3. Len(batch) \in Nat /\ \A i \in 1..Len(batch) : batch[i].rec \in Entries
  <2> DEFINE Q == [rec : Records, flush : BOOLEAN]
  <2>1. batch \in Seq(Q) /\ \A q \in Q : q.rec \in Entries
    BY <1>1, <1>2 DEF Queues
  <2> HIDE DEF Entries, Q
  <2> QED
    BY <2>1
<1>4. b \in Seq(Entries) /\ Len(b) = Len(batch)
  BY <1>3
<1>5. \A j \in 1..Len(batch) : b[j] = batch[j].rec
  OBVIOUS
<1>6. l = log \o b
  OBVIOUS
<1> HIDE DEF b
<1> QED
  BY <1>1, <1>3, <1>4, <1>5, <1>6

\* The steps of the log threads.
LEMMA ThreadTypes ==
  ASSUME TypeOK,
         Take \/ Sleep \/ Awake \/ WriteBatch \/ FlushBatch \/ WakeFlushed \/ LazyTick
  PROVE  TypeOK'
<1>1. CASE Take
  BY <1>1 DEF Take, TypeOK, trxvars, lazyvars, diskvars, cpvars
<1>2. CASE Sleep
  BY <1>2 DEF Sleep, TypeOK, trxvars, linkvars, lazyvars, diskvars, cpvars
<1>3. CASE Awake
  BY <1>3 DEF Awake, TypeOK, trxvars, lazyvars, diskvars, cpvars
<1>4. CASE WriteBatch
  <2>1. log' \in Seq(Entries) /\ Len(log') = Len(log) + Len(batch)
    BY <1>4, BatchWritten DEF WriteBatch
  <2>2. stable' \in 1..Len(log')
    BY <1>4, <2>1 DEF WriteBatch, TypeOK
  <2> QED
    BY <1>4, <2>1, <2>2
    DEF WriteBatch, TypeOK, Entries, trxvars, linkvars, lazyvars, cpvars
<1>5. CASE FlushBatch
  <2>1. stable' \in 1..Len(log)
    BY <1>5 DEF FlushBatch, TypeOK
  <2> QED
    BY <1>5, <2>1 DEF FlushBatch, TypeOK, trxvars, linkvars, cpvars
<1>6. CASE WakeFlushed
  <2>1. lazydo' \in BOOLEAN
    BY <1>6 DEF WakeFlushed, TypeOK
  <2>2. stable' \in 1..Len(log)
    BY <1>6 DEF WakeFlushed, TypeOK
  <2>3. batch' \in Queues
    BY <1>6 DEF WakeFlushed, Queues
  <2> QED
    BY <1>6, <2>1, <2>2, <2>3 DEF WakeFlushed, TypeOK, Queues, trxvars, linkvars, cpvars
<1>7. CASE LazyTick
  BY <1>7 DEF LazyTick, TypeOK, trxvars, batchvars, diskvars, cpvars
<1> QED
  BY <1>1, <1>2, <1>3, <1>4, <1>5, <1>6, <1>7

\* The steps of a checkpoint.
LEMMA CheckpointTypes ==
  ASSUME TypeOK, CheckpointStart \/ CheckpointMarked \/ CheckpointEnd
  PROVE  TypeOK'
<1>1. CASE CheckpointStart
  <2>1. header \in Checkpoints /\ crashes \in 0..MaxCrashes /\ tree \subseteq Trx
    BY DEF TypeOK
  <2>2. header.num + 1 \in 0..MaxCheckpoints
    BY <1>1, <2>1, BoundsAssumption DEF CheckpointStart, Checkpoints
  <2>3. image' \in Checkpoints
    BY <1>1, <2>1, <2>2 DEF CheckpointStart, Checkpoints, Committed
  <2>4. Mark(image') \in Records
    BY <2>3, RecordTypes
  <2>5. Link(Mark(image'), Checkpointer, TRUE)
    BY <1>1 DEF CheckpointStart
  <2>6. /\ queue' \in Queues /\ unsent' \in 0..FlushLimit /\ mes' \in BOOLEAN
        /\ flushwait' \subseteq Waiters /\ spacewait' \subseteq Waiters
    BY <2>4, <2>5, LinkTypes DEF Waiters
  <2> QED
    BY <1>1, <2>3, <2>6
    DEF CheckpointStart, TypeOK, Waiters, Queues, trxvars, batchvars, lazyvars, diskvars
<1>2. CASE CheckpointMarked
  BY <1>2 DEF CheckpointMarked, TypeOK, trxvars, linkvars, batchvars, lazyvars, diskvars
<1>3. CASE CheckpointEnd
  BY <1>3 DEF CheckpointEnd, TypeOK, trxvars, linkvars, batchvars, lazyvars, diskvars
<1> QED
  BY <1>1, <1>2, <1>3

\* What is left of the memory, of the waits and of the checkpoint.
LEMMA ForgetTypes ==
  ASSUME TypeOK, Forget, log' \in Seq(Entries), stable' \in 1..Len(log')
  PROVE  TypeOK'
<1>1. pc' \in [Trx -> {"idle", "ended", "gone"}]
  BY DEF Forget, TypeOK
<1>2. crashes' \in 0..MaxCrashes
  BY BoundsAssumption DEF Forget, TypeOK
<1>3. queue' \in Queues /\ batch' \in Queues
  BY DEF Forget, Queues
<1>4. unsent' \in 0..FlushLimit
  BY BoundsAssumption DEF Forget
<1> QED
  BY <1>1, <1>2, <1>3, <1>4 DEF Forget, TypeOK, Queues, Entries

\* The log after a crash.
LEMMA CrashLog ==
  ASSUME TypeOK, ProcessCrash \/ PowerFailure
  PROVE  /\ log' \in Seq(Entries) /\ stable' \in 1..Len(log')
         /\ Len(log') <= Len(log) /\ stable <= stable'
         /\ \A j \in 1..stable : log'[j] = log[j]
         /\ \A j \in 1..Len(log') : log'[j] # Hole => log'[j] = log[j]
<1>1. log \in Seq(Entries) /\ stable \in 1..Len(log) /\ Len(log) \in Nat
  BY DEF TypeOK, Entries
<1>2. CASE ProcessCrash
  <2>1. PICK n \in stable..Len(log) : log' = SubSeq(log, 1, n)
    BY <1>2 DEF ProcessCrash
  <2>2. n \in 0..Len(log)
    BY <1>1
  <2>3. /\ log' \in Seq(Entries) /\ Len(log') = n
        /\ \A j \in 1..n : log'[j] = log[j]
    BY <1>1, <2>1, <2>2, PrefixProperties
  <2> QED
    BY <1>1, <1>2, <2>1, <2>3 DEF ProcessCrash
<1>3. CASE PowerFailure
  <2>1. PICK lost \in SUBSET ((stable + 1)..Len(log)) :
          log' = [i \in 1..Len(log) |-> IF i \in lost THEN Hole ELSE log[i]]
    BY <1>3 DEF PowerFailure
  <2>2. \A i \in 1..Len(log) : (IF i \in lost THEN Hole ELSE log[i]) \in Entries
    BY <1>1 DEF Entries
  <2>3. log' \in Seq(Entries) /\ Len(log') = Len(log)
    BY <1>1, <2>1, <2>2
  <2>4. \A j \in 1..stable : log'[j] = log[j]
    BY <1>1, <2>1
  <2>5. \A j \in 1..Len(log') : log'[j] # Hole => log'[j] = log[j]
    BY <1>1, <2>1, <2>3
  <2>6. stable' = Len(log)
    BY <1>3, <2>3 DEF PowerFailure
  <2> QED
    BY <1>1, <2>3, <2>4, <2>5, <2>6
<1> QED
  BY <1>2, <1>3

\* The types of a step.  That a restart finds something of the log to keep needs
\* the mark of the header, which MarkInv says.
LEMMA TypeStep ==
  ASSUME TypeOK, [Next]_vars,
         \E i \in 1..stable : log[i] = Mark(header) /\ Whole(log, i)
  PROVE  TypeOK'
<1>1. CASE ProcessCrash \/ PowerFailure
  BY <1>1, CrashLog, ForgetTypes DEF ProcessCrash, PowerFailure
<1>2. CASE Restart
  <2>1. log \in Seq(Entries) /\ stable \in 1..Len(log)
    BY DEF TypeOK, Entries
  <2>2. PICK n \in 0..Len(log) :
          /\ Readable(log) \in Seq(Entries) /\ Len(Readable(log)) = n
          /\ n < Len(log) => log[n + 1] = Hole
    BY <2>1, ReadableIsPrefix
  <2>3. PICK i \in 1..stable : Whole(log, i)
    OBVIOUS
  <2>4. i <= n
    BY <2>1, <2>2, <2>3 DEF Whole
  <2>5. log' \in Seq(Entries) /\ stable' \in 1..Len(log')
    BY <1>2, <2>1, <2>2, <2>3, <2>4 DEF Restart
  <2>6. /\ Recovered(header, Readable(log)) \subseteq Trx
        /\ RecoveredTree(header, Readable(log)) \subseteq Trx
    BY <2>2, RestartTypes
  <2>7. /\ fate' \in [Trx -> {"none", "begin", "commit", "abort"}]
        /\ tree' \subseteq Trx /\ up' \in BOOLEAN
    BY <1>2, <2>6 DEF Restart
  <2> QED
    BY <1>2, <2>5, <2>7 DEF Restart, TypeOK, Entries, linkvars, batchvars, lazyvars, cpvars
<1>3. CASE UNCHANGED vars
  BY <1>3 DEF TypeOK, vars, trxvars, linkvars, batchvars, lazyvars, diskvars, cpvars
<1> QED
  BY <1>1, <1>2, <1>3, TrxTypes, ThreadTypes, CheckpointTypes DEF Next

-----------------------------------------------------------------------------
(***************************************************************************)
(* How a step changes the stream                                           *)
(***************************************************************************)

Linked(r) ==
  /\ Len(Stream)' = Len(Stream) + 1
  /\ \A j \in 1..Len(Stream) : Stream'[j] = Stream[j]
  /\ Stream'[Len(Stream) + 1] = r

\* Two streams with the same entries are the same.
LEMMA SameStream ==
  ASSUME TypeOK, TypeOK', Len(Stream') = Len(Stream),
         \A j \in 1..Len(Stream) : Stream'[j] = Stream[j]
  PROVE  Stream' = Stream
<1>1. Stream \in Seq(Entries) /\ Stream' \in Seq(Entries)
  BY StreamType, StreamTypeNext DEF StreamTyped
<1> HIDE DEF Stream
<1> QED
  BY <1>1

\* Link appends to the stream.
LEMMA StreamLinked ==
  ASSUME TypeOK, TypeOK', NEW r, NEW w, NEW f, Link(r, w, f),
         UNCHANGED <<log, thread, batch>>
  PROVE  Linked(r)
<1>1. /\ Len(log) \in Nat /\ Len(Unwritten) \in Nat /\ Len(queue) \in Nat
      /\ Len(Stream) = Len(log) + Len(Unwritten) + Len(queue)
      /\ Len(Stream)' = Len(log)' + Len(Unwritten)' + Len(queue)'
  BY StreamType, StreamTypeNext DEF StreamTyped
<1>2. Unwritten' = Unwritten /\ log' = log
  BY DEF Unwritten
<1>3. /\ Len(queue') = Len(queue) + 1 /\ queue'[Len(queue) + 1].rec = r
      /\ \A i \in 1..Len(queue) : queue'[i] = queue[i]
  <2>1. queue \in Queues /\ queue' = Append(queue, [rec |-> r, flush |-> f])
    BY DEF TypeOK, Queues, Link
  <2> DEFINE Q == [rec : Records, flush : BOOLEAN]
             q == [rec |-> r, flush |-> f]
  <2>2. queue \in Seq(Q) /\ queue' = Append(queue, q) /\ q.rec = r
    BY <2>1 DEF Queues
  <2> HIDE DEF Q, q
  <2> QED
    BY <2>2
<1>4. \A j \in 1..Len(Stream) : Stream'[j] = Stream[j]
  <2> SUFFICES ASSUME NEW j \in 1..(Len(log) + Len(Unwritten) + Len(queue))
               PROVE  Stream'[j] = Stream[j]
    BY <1>1
  <2>1. j \in 1..(Len(log)' + Len(Unwritten)' + Len(queue)')
    BY <1>1, <1>2, <1>3
  <2> QED
    BY <1>1, <1>2, <1>3, <2>1 DEF Stream
<1>5. Stream'[Len(Stream) + 1] = r
  BY <1>1, <1>2, <1>3 DEF Stream
<1>6. Len(Stream)' = Len(Stream) + 1
  BY <1>1, <1>2, <1>3
<1> QED
  BY <1>4, <1>5, <1>6 DEF Linked

\* The write thread does not change it.
LEMMA StreamKept ==
  ASSUME TypeOK, TypeOK', UNCHANGED <<log, queue, Unwritten>> \/ Take \/ WriteBatch
  PROVE  Stream' = Stream
<1>1. /\ Len(log) \in Nat /\ Len(Unwritten) \in Nat /\ Len(queue) \in Nat
      /\ Len(Stream) = Len(log) + Len(Unwritten) + Len(queue)
      /\ Len(Stream)' = Len(log)' + Len(Unwritten)' + Len(queue)'
  BY StreamType, StreamTypeNext DEF StreamTyped
<1>2. CASE UNCHANGED <<log, queue, Unwritten>>
  BY <1>2 DEF Stream
<1>3. CASE Take
  <2>1. /\ log' = log /\ Unwritten = << >> /\ queue' = << >> /\ Unwritten' = queue
    BY <1>3 DEF Take, Unwritten, diskvars
  <2>2. \A j \in 1..Len(Stream) : Stream'[j] = Stream[j]
    BY <1>1, <2>1 DEF Stream
  <2> QED
    BY <1>1, <2>1, <2>2, SameStream
<1>4. CASE WriteBatch
  <2>1. /\ Unwritten = batch /\ Unwritten' = << >> /\ queue' = queue
        /\ log' = log \o [i \in 1..Len(batch) |-> batch[i].rec]
    BY <1>4 DEF WriteBatch, Unwritten, linkvars
  <2>2. /\ Len(log') = Len(log) + Len(batch)
        /\ \A j \in 1..Len(log) : log'[j] = log[j]
        /\ \A j \in (Len(log) + 1)..Len(log') : log'[j] = batch[j - Len(log)].rec
    BY <2>1, BatchWritten
  <2>3. \A j \in 1..Len(Stream) : Stream'[j] = Stream[j]
    BY <1>1, <2>1, <2>2 DEF Stream
  <2> QED
    BY <1>1, <2>1, <2>2, <2>3, SameStream
<1> QED
  BY <1>2, <1>3, <1>4

\* While the server is down, and just after a restart, it is the log.
LEMMA StreamIsLog == TypeOK /\ queue = << >> /\ thread # "write" => Stream = log
<1> SUFFICES ASSUME TypeOK, queue = << >>, thread # "write"
             PROVE  Stream = log
  OBVIOUS
<1>1. /\ Len(log) \in Nat /\ log \in Seq(Entries) /\ Stream \in Seq(Entries)
      /\ Len(Stream) = Len(log) + Len(Unwritten) + Len(queue)
      /\ \A j \in 1..Len(log) : Stream[j] = log[j]
  BY StreamType DEF StreamTyped, TypeOK, Entries
<1>2. Len(Stream) = Len(log)
  BY <1>1 DEF Unwritten
<1> HIDE DEF Stream
<1> QED
  BY <1>1, <1>2

\* The same of the state after a step.
LEMMA StreamIsLogNext ==
  TypeOK' /\ (queue = << >>)' /\ (thread # "write")' => (Stream = log)'
BY StreamIsLog, PTL

-----------------------------------------------------------------------------
(***************************************************************************)
(* What a restart finds in a part of the stream that can be read           *)
(***************************************************************************)

\* The records of a kind that are behind the mark.
LEMMA OfAfterMark ==
  ASSUME NEW l \in Seq(Entries), NEW h, NEW t, NEW kind \in {"insert", "commit"}
  PROVE  t \in Of(kind, AfterMark(h, l)) <=> t \in Trx /\ Has(l, Len(l), kind, t, h)
<1> DEFINE M(j) == \E i \in 1..(j - 1) : l[i] = Mark(h)
<1>1. Len(l) \in Nat /\ \A j \in 1..Len(l) : l[j] \in Entries
  OBVIOUS
<1>2. AfterMark(h, l) = {l[j] : j \in {j \in 1..Len(l) : M(j)}}
  BY DEF AfterMark
<1>3. ASSUME t \in Of(kind, AfterMark(h, l))
      PROVE  t \in Trx /\ Has(l, Len(l), kind, t, h)
  <2>1. PICK j \in 1..Len(l) : M(j) /\ l[j].kind = kind /\ l[j].of = t
    BY <1>2, <1>3 DEF Of
  <2>2. t \in Trx /\ l[j] = Record(kind, t)
    BY <1>1, <2>1, RecordFacts
  <2> QED
    BY <2>1, <2>2 DEF Has, Behind
<1>4. ASSUME t \in Trx, Has(l, Len(l), kind, t, h)
      PROVE  t \in Of(kind, AfterMark(h, l))
  <2>1. PICK j \in 1..Len(l) : M(j) /\ l[j] = Record(kind, t)
    BY <1>4 DEF Has, Behind
  <2>2. l[j].kind = kind /\ l[j].of = t
    BY <2>1 DEF Record
  <2> QED
    BY <1>2, <2>1, <2>2 DEF Of
<1> QED
  BY <1>3, <1>4

\* l is such a part: the first n entries.
Prefix(l, n) ==
  /\ l \in Seq(Entries) /\ n \in 0..Len(Stream) /\ Len(l) = n
  /\ \A i \in 1..n : l[i] = Stream[i] /\ l[i] # Hole

\* It has what the stream has up to there.
LEMMA PrefixHas ==
  ASSUME NEW l, NEW n, Prefix(l, n), NEW t, NEW kind, NEW h
  PROVE  Has(l, Len(l), kind, t, h) <=> Has(Stream, n, kind, t, h)
<1>1. n \in Nat /\ Len(l) = n /\ \A i \in 1..n : l[i] = Stream[i]
  BY DEF Prefix
<1>2. \A k \in 1..n : Behind(l, k, h) <=> Behind(Stream, k, h)
  BY <1>1 DEF Behind
<1> QED
  BY <1>1, <1>2 DEF Has

\* What it finds committed, and which rows it inserts again.
LEMMA PrefixRecovered ==
  ASSUME TypeOK, NEW l, NEW n, Prefix(l, n)
  PROVE  /\ \A t : t \in Recovered(header, l)
                     <=> \/ t \in header.committed
                         \/ t \in Trx /\ Has(Stream, n, "commit", t, header)
         /\ \A t : t \in RowsRedone(header, l)
                     <=> /\ t \in Recovered(header, l)
                         /\ t \in Trx /\ Has(Stream, n, "insert", t, header)
<1>1. l \in Seq(Entries)
  BY DEF Prefix
<1> QED
  BY <1>1, OfAfterMark, PrefixHas DEF Recovered, RowsRedone, Redone

\* It finds every commit in that part, with its rows, with what it has seen, and
\* inserts no row twice.
LEMMA PrefixFacts ==
  ASSUME TypeOK, CoverInv(header), FateInv, NEW l, NEW n, Prefix(l, n)
  PROVE  /\ \A t \in Trx, j \in 1..n :
              Stream[j] = Record("commit", t) => t \in Recovered(header, l)
         /\ Recovered(header, l) \subseteq RecoveredTree(header, l)
         /\ \A t \in Recovered(header, l) :
              /\ t \in Trx /\ seen[t] \subseteq Recovered(header, l)
              /\ \/ fate[t] = "commit"
                 \/ fate[t] = "begin" /\ pc[t] \in {"logged", "gone"}
         /\ RowsRedone(header, l) \cap header.tree = {}
<1>1. n \in Nat /\ n <= Len(Stream) /\ Len(Stream) \in Nat
  BY StreamType DEF StreamTyped, Prefix
<1>2. \A j \in 1..n : j \in 1..Len(Stream) /\ Whole(Stream, j)
  BY <1>1 DEF Prefix, Whole
<1>3. ASSUME NEW j \in 1..n, NEW t, NEW k, Has(Stream, j, k, t, header)
      PROVE  Has(Stream, n, k, t, header)
  BY <1>1, <1>3 DEF Has
<1>4. header.committed \subseteq Trx /\ header.tree \subseteq Trx
  BY DEF TypeOK, Checkpoints
<1>5. ASSUME NEW t \in Trx, NEW j \in 1..n, Stream[j] = Record("commit", t)
      PROVE  t \in Recovered(header, l)
  <2>1. t \in header.committed \/ Behind(Stream, j, header)
    BY <1>2, <1>5 DEF CoverInv, CommitsCovered
  <2> QED
    BY <1>5, <2>1, PrefixRecovered DEF Has
<1>6. ASSUME NEW t \in Recovered(header, l)
      PROVE  /\ t \in Trx /\ t \in RecoveredTree(header, l)
             /\ seen[t] \subseteq Recovered(header, l)
             /\ \/ fate[t] = "commit"
                \/ fate[t] = "begin" /\ pc[t] \in {"logged", "gone"}
  <2>1. CASE t \in header.committed
    <3>1. t \in header.tree /\ t \in Committed /\ seen[t] \subseteq header.committed
      BY <2>1 DEF CoverInv, ImageInv
    <3> QED
      BY <1>4, <2>1, <3>1 DEF RecoveredTree, Recovered, Committed
  <2>2. CASE t \in Trx /\ Has(Stream, n, "commit", t, header)
    <3>1. PICK j \in 1..n : Stream[j] = Record("commit", t)
      BY <2>2 DEF Has
    <3>2. /\ t \in header.tree \/ Has(Stream, j, "insert", t, header)
          /\ \A u \in seen[t] :
               u \in header.committed \/ Has(Stream, j, "commit", u, header)
      BY <1>2, <2>2, <3>1 DEF CoverInv, CommitsCovered
    <3>3. t \in RecoveredTree(header, l)
      BY <1>3, <1>6, <2>2, <3>2, PrefixRecovered DEF RecoveredTree
    <3>4. seen[t] \subseteq Trx
      BY <2>2 DEF TypeOK
    <3>5. seen[t] \subseteq Recovered(header, l)
      BY <1>3, <3>2, <3>4, PrefixRecovered
    <3>6. \/ fate[t] = "commit"
          \/ fate[t] = "begin" /\ pc[t] \in {"logged", "gone"}
      BY <1>2, <2>2, <3>1 DEF FateInv
    <3> QED
      BY <2>2, <3>3, <3>5, <3>6
  <2> QED
    BY <1>6, <2>1, <2>2, PrefixRecovered
<1>7. ASSUME NEW t \in RowsRedone(header, l)
      PROVE  t \notin header.tree
  <2>1. t \in Trx /\ Has(Stream, n, "insert", t, header)
    BY <1>7, PrefixRecovered
  <2>2. PICK j \in 1..n : Stream[j] = Record("insert", t) /\ Behind(Stream, j, header)
    BY <2>1 DEF Has
  <2> QED
    BY <1>2, <2>1, <2>2 DEF CoverInv, InsertsNew
<1> QED
  BY <1>5, <1>6, <1>7

\* The flushed part of the log, as far as it can be read, is such a part.
LEMMA FlushedPrefix ==
  ASSUME TypeOK
  PROVE  \E n \in 0..stable :
           /\ Prefix(Readable(SubSeq(log, 1, stable)), n)
           /\ n < stable => log[n + 1] = Hole
<1>1. /\ log \in Seq(Entries) /\ stable \in 1..Len(log) /\ Len(log) \in Nat
      /\ \A j \in 1..Len(log) : Stream[j] = log[j]
      /\ Len(Stream) \in Nat /\ Len(log) <= Len(Stream)
  BY StreamType DEF StreamTyped, TypeOK, Entries
<1> DEFINE f == SubSeq(log, 1, stable)
<1>2. f \in Seq(Entries) /\ Len(f) = stable /\ \A i \in 1..stable : f[i] = log[i]
  BY <1>1, PrefixProperties
<1> HIDE DEF f
<1>3. PICK n \in 0..stable :
        /\ Readable(f) \in Seq(Entries) /\ Len(Readable(f)) = n
        /\ \A i \in 1..n : Readable(f)[i] = f[i] /\ f[i] # Hole
        /\ n < stable => f[n + 1] = Hole
  BY <1>2, ReadableIsPrefix
<1>4. Prefix(Readable(f), n)
  BY <1>1, <1>2, <1>3 DEF Prefix
<1>5. n < stable => log[n + 1] = Hole
  BY <1>1, <1>2, <1>3
<1> QED
  BY <1>4, <1>5 DEF f

\* So is the part of the log that dbe_rollfwd reads.
LEMMA LogPrefix ==
  ASSUME TypeOK
  PROVE  \E n \in 0..Len(log) :
           /\ Prefix(Readable(log), n) /\ Len(Readable(log)) = n
           /\ n < Len(log) => log[n + 1] = Hole
<1>1. /\ log \in Seq(Entries) /\ Len(log) \in Nat
      /\ \A j \in 1..Len(log) : Stream[j] = log[j]
      /\ Len(Stream) \in Nat /\ Len(log) <= Len(Stream)
  BY StreamType DEF StreamTyped, TypeOK, Entries
<1>2. PICK n \in 0..Len(log) :
        /\ Readable(log) \in Seq(Entries) /\ Len(Readable(log)) = n
        /\ \A i \in 1..n : Readable(log)[i] = log[i] /\ log[i] # Hole
        /\ n < Len(log) => log[n + 1] = Hole
  BY <1>1, ReadableIsPrefix
<1>3. Prefix(Readable(log), n)
  BY <1>1, <1>2 DEF Prefix
<1> QED
  BY <1>2, <1>3

\* And so is every log that the next restart may find.
LEMMA EndsArePrefixes ==
  ASSUME TypeOK, NEW l \in Ends
  PROVE  \E n \in 0..Len(Stream) : Prefix(l, n)
<1>1. PICK m \in 0..Len(log) : Prefix(Readable(log), m) /\ Len(Readable(log)) = m
  BY LogPrefix
<1>2. PICK n \in (IF up THEN stable ELSE m)..m : l = SubSeq(Readable(log), 1, n)
  BY <1>1 DEF Ends
<1>3. stable \in Nat /\ m \in Nat
  BY DEF TypeOK
<1>4. n \in 0..m
  BY <1>2, <1>3
<1>5. Readable(log) \in Seq(Entries)
  BY <1>1 DEF Prefix
<1>6. l \in Seq(Entries) /\ Len(l) = n /\ \A i \in 1..n : l[i] = Readable(log)[i]
  BY <1>1, <1>2, <1>4, <1>5, PrefixProperties
<1>7. m \in 0..Len(Stream) /\ \A i \in 1..m : Readable(log)[i] = Stream[i] /\ Readable(log)[i] # Hole
  BY <1>1 DEF Prefix
<1>8. n \in 0..Len(Stream) /\ Prefix(l, n)
  <2>1. Len(Stream) \in Nat /\ n \in 0..Len(Stream)
    BY <1>3, <1>4, <1>7, StreamType DEF StreamTyped
  <2>2. \A i \in 1..n : l[i] = Stream[i] /\ l[i] # Hole
    BY <1>3, <1>4, <1>6, <1>7
  <2> QED
    BY <1>6, <2>1, <2>2 DEF Prefix
<1> QED
  BY <1>8

-----------------------------------------------------------------------------
(***************************************************************************)
(* The stages of the transactions                                          *)
(***************************************************************************)

\* What was committed stays so while the server runs.
LEMMA CommittedGrows ==
  ASSUME TypeOK, StageInv, [Next]_vars, ~Restart
  PROVE  Committed \subseteq Committed'
<1> SUFFICES ASSUME NEW t \in Trx, fate[t] = "commit"
             PROVE  fate'[t] = "commit"
  BY DEF Committed
<1>0. fate \in [Trx -> {"none", "begin", "commit", "abort"}]
  BY DEF TypeOK
<1>1. ASSUME NEW u \in Trx, Begin(u) \/ EndTrx(u) \/ RollbackEnd(u)
      PROVE  fate'[t] = "commit"
  BY <1>0, <1>1 DEF StageInv, Running, Begin, EndTrx, RollbackEnd
<1>2. ASSUME UNCHANGED fate
      PROVE  fate'[t] = "commit"
  BY <1>2
<1>3. ASSUME NEW u \in Trx,
             \/ InsertTree(u) \/ InsertLog(u) \/ CommitBegin(u)
             \/ CommitLink(u) \/ Answer(u) \/ Rollback(u)
      PROVE  UNCHANGED fate
  BY <1>3 DEF InsertTree, InsertLog, CommitBegin, CommitLink, Answer, Rollback
<1>4. ASSUME \/ Take \/ Sleep \/ Awake \/ WriteBatch \/ FlushBatch \/ WakeFlushed
             \/ LazyTick \/ CheckpointStart \/ CheckpointMarked \/ CheckpointEnd
             \/ ProcessCrash \/ PowerFailure
      PROVE  UNCHANGED fate
  BY <1>4 DEF Take, Sleep, Awake, WriteBatch, FlushBatch, WakeFlushed, LazyTick,
              CheckpointStart, CheckpointMarked, CheckpointEnd, ProcessCrash,
              PowerFailure, Forget, trxvars
<1>5. UNCHANGED vars => UNCHANGED fate
  BY DEF vars, trxvars
<1> QED
  BY <1>1, <1>2, <1>3, <1>4, <1>5 DEF Next

\* The steps of the transactions keep the stages.
LEMMA TrxStages ==
  ASSUME TypeOK, StageInv, NEW t \in Trx, Committed \subseteq Committed',
         \/ Begin(t) \/ InsertTree(t) \/ InsertLog(t) \/ CommitBegin(t)
         \/ CommitLink(t) \/ EndTrx(t) \/ Answer(t) \/ Rollback(t) \/ RollbackEnd(t)
  PROVE  StageInv'
<1>0. /\ DOMAIN pc = Trx /\ DOMAIN fate = Trx /\ DOMAIN seen = Trx
      /\ \A u \in Trx : fate[u] \in {"none", "begin", "commit", "abort"}
  BY DEF TypeOK
<1>1. CASE Begin(t)
  <2>1. /\ up /\ up' /\ tree' = tree /\ pc[t] = "idle"
        /\ pc'[t] = "active" /\ fate'[t] = "begin" /\ seen'[t] = Committed
        /\ \A u \in Trx \ {t} : pc'[u] = pc[u] /\ fate'[u] = fate[u] /\ seen'[u] = seen[u]
    BY <1>0, <1>1 DEF Begin
  <2> QED
    BY <1>0, <2>1 DEF StageInv, Running, Rowed
<1>2. CASE InsertTree(t)
  <2>1. /\ up /\ up' /\ tree' = tree \cup {t} /\ fate' = fate /\ seen' = seen
        /\ pc[t] = "active" /\ pc'[t] = "inserting"
        /\ \A u \in Trx \ {t} : pc'[u] = pc[u]
    BY <1>0, <1>2 DEF InsertTree
  <2> QED
    BY <2>1 DEF StageInv, Running, Rowed
<1>3. CASE InsertLog(t)
  <2>1. /\ up /\ up' /\ tree' = tree /\ fate' = fate /\ seen' = seen
        /\ pc[t] = "inserting" /\ pc'[t] = "written"
        /\ \A u \in Trx \ {t} : pc'[u] = pc[u]
    BY <1>0, <1>3 DEF InsertLog
  <2> QED
    BY <2>1 DEF StageInv, Running, Rowed
<1>4. CASE CommitBegin(t)
  <2>1. /\ up /\ up' /\ tree' = tree /\ fate' = fate /\ seen' = seen
        /\ pc[t] = "written" /\ pc'[t] = "commit"
        /\ \A u \in Trx \ {t} : pc'[u] = pc[u]
    BY <1>0, <1>4 DEF CommitBegin
  <2> QED
    BY <2>1 DEF StageInv, Running, Rowed
<1>5. CASE CommitLink(t)
  <2>1. /\ up /\ up' /\ tree' = tree /\ fate' = fate /\ seen' = seen
        /\ pc[t] = "commit" /\ pc'[t] = "logged"
        /\ \A u \in Trx \ {t} : pc'[u] = pc[u]
    BY <1>0, <1>5 DEF CommitLink
  <2> QED
    BY <2>1 DEF StageInv, Running, Rowed
<1>6. CASE EndTrx(t)
  <2>1. /\ up /\ up' /\ tree' = tree /\ seen' = seen
        /\ pc[t] = "logged" /\ pc'[t] = "visible" /\ fate'[t] = "commit"
        /\ \A u \in Trx \ {t} : pc'[u] = pc[u] /\ fate'[u] = fate[u]
    BY <1>0, <1>6 DEF EndTrx
  <2> QED
    BY <2>1 DEF StageInv, Running, Rowed
<1>7. CASE Answer(t)
  <2>1. /\ up /\ up' /\ tree' = tree /\ fate' = fate /\ seen' = seen
        /\ pc[t] = "visible" /\ pc'[t] = "ended"
        /\ \A u \in Trx \ {t} : pc'[u] = pc[u]
    BY <1>0, <1>7 DEF Answer
  <2> QED
    BY <2>1 DEF StageInv, Running, Rowed
<1>8. CASE Rollback(t)
  <2>1. /\ up /\ up' /\ tree' = tree /\ fate' = fate /\ seen' = seen
        /\ pc[t] = "written" /\ pc'[t] = "aborting"
        /\ \A u \in Trx \ {t} : pc'[u] = pc[u]
    BY <1>0, <1>8 DEF Rollback
  <2> QED
    BY <2>1 DEF StageInv, Running, Rowed
<1>9. CASE RollbackEnd(t)
  <2>1. /\ up /\ up' /\ tree' = tree /\ seen' = seen
        /\ pc[t] = "aborting" /\ pc'[t] = "ended" /\ fate'[t] = "abort"
        /\ \A u \in Trx \ {t} : pc'[u] = pc[u] /\ fate'[u] = fate[u]
    BY <1>0, <1>9 DEF RollbackEnd
  <2> QED
    BY <2>1 DEF StageInv, Running, Rowed
<1> QED
  BY <1>1, <1>2, <1>3, <1>4, <1>5, <1>6, <1>7, <1>8, <1>9

\* So does every step; a restart sorts all transactions into the ended ones and
\* those that never were.
LEMMA StageStep ==
  ASSUME TypeOK, StageInv, PhaseInv, CoverInv(header), FateInv, [Next]_vars
  PROVE  StageInv'
<1>1. CASE Restart
  <2>1. PICK n \in 0..Len(log) : Prefix(Readable(log), n)
    BY LogPrefix
  <2> DEFINE R == Recovered(header, Readable(log))
  <2>2. /\ R \subseteq RecoveredTree(header, Readable(log))
        /\ \A t \in R : t \in Trx /\ seen[t] \subseteq R /\ fate[t] # "none"
    <3>1. \A t \in R : /\ t \in Trx /\ seen[t] \subseteq R
                       /\ fate[t] = "commit" \/ fate[t] = "begin"
      BY <2>1, PrefixFacts
    <3> QED
      BY <2>1, <3>1, PrefixFacts
  <2>3. /\ ~up /\ up' /\ pc' = pc /\ seen' = seen
        /\ tree' = RecoveredTree(header, Readable(log))
        /\ fate' = [t \in Trx |-> IF t \in R THEN "commit"
                                  ELSE IF pc[t] = "idle" THEN "none" ELSE "abort"]
    BY <1>1 DEF Restart
  <2>4. Committed' = R
    BY <2>2, <2>3 DEF Committed
  <2>5. \A t \in Trx : pc[t] = "idle" => t \notin R /\ t \notin tree'
    <3> SUFFICES ASSUME NEW t \in Trx, pc[t] = "idle"
                 PROVE  t \notin R /\ t \notin tree'
      OBVIOUS
    <3>1. t \notin R
      BY <2>2 DEF StageInv
    <3>2. t \notin header.tree
      BY DEF CoverInv, ImageInv
    <3> QED
      BY <2>3, <3>1, <3>2 DEF RecoveredTree, RowsRedone
  <2>6. \A t \in Trx : pc[t] \in {"idle", "ended", "gone"}
    BY <2>3 DEF StageInv
  <2> HIDE DEF R
  <2> QED
    BY <2>2, <2>3, <2>4, <2>5, <2>6 DEF StageInv, Running, Rowed
<1>2. CASE ProcessCrash \/ PowerFailure
  <2>1. /\ ~up' /\ fate' = fate /\ seen' = seen
        /\ pc' = [t \in Trx |-> IF pc[t] \in {"idle", "ended"} THEN pc[t] ELSE "gone"]
    BY <1>2 DEF ProcessCrash, PowerFailure, Forget
  <2>2. \A t \in Trx : pc[t] \notin {"idle", "ended"} => fate[t] # "none"
    BY DEF StageInv, Running, TypeOK
  <2> QED
    BY <2>1, <2>2 DEF StageInv, Running, Rowed
<1>3. CASE UNCHANGED <<trxvars, up>>
  BY <1>3 DEF StageInv, Committed, trxvars
<1>4. ASSUME \/ Take \/ Sleep \/ Awake \/ WriteBatch \/ FlushBatch \/ WakeFlushed
             \/ LazyTick \/ CheckpointStart \/ CheckpointMarked \/ CheckpointEnd
             \/ UNCHANGED vars
      PROVE  UNCHANGED <<trxvars, up>>
  BY <1>4 DEF Take, Sleep, Awake, WriteBatch, FlushBatch, WakeFlushed, LazyTick,
              CheckpointStart, CheckpointMarked, CheckpointEnd, vars
<1>5. CASE \E t \in Trx :
             \/ Begin(t) \/ InsertTree(t) \/ InsertLog(t) \/ CommitBegin(t)
             \/ CommitLink(t) \/ EndTrx(t) \/ Answer(t) \/ Rollback(t) \/ RollbackEnd(t)
  <2>1. ~Restart
    BY <1>5 DEF Begin, InsertTree, InsertLog, CommitBegin, CommitLink, EndTrx,
                Answer, Rollback, RollbackEnd, Restart
  <2> QED
    BY <1>5, <2>1, CommittedGrows, TrxStages
<1> QED
  BY <1>1, <1>2, <1>3, <1>4, <1>5 DEF Next

-----------------------------------------------------------------------------
(***************************************************************************)
(* The steps of a checkpoint, the waits and the write thread               *)
(***************************************************************************)

\* A checkpoint starts when no transaction is in the gate, and no transaction
\* enters the gate until its mark is flushed.
LEMMA PhaseStep ==
  ASSUME TypeOK, PhaseInv, ImageInv(header), [Next]_vars
  PROVE  PhaseInv'
<1>0. DOMAIN pc = Trx /\ header \in Checkpoints
  BY DEF TypeOK
<1>1. ASSUME NEW t \in Trx,
             \/ Begin(t) \/ InsertTree(t) \/ InsertLog(t) \/ CommitBegin(t)
             \/ CommitLink(t) \/ EndTrx(t) \/ Answer(t) \/ Rollback(t) \/ RollbackEnd(t)
      PROVE  PhaseInv'
  <2>1. up /\ up' = up /\ UNCHANGED <<cp, image, header, crashes>>
    BY <1>1 DEF Begin, InsertTree, InsertLog, CommitBegin, CommitLink, EndTrx, Answer,
                Rollback, RollbackEnd, cpvars
  <2>2. /\ \A u \in Trx \ {t} : pc'[u] = pc[u]
        /\ cp = "mark" /\ pc[t] \notin Rowed \ {"written"}
             => pc'[t] \notin Rowed \ {"written"}
    BY <1>0, <1>1 DEF Begin, InsertTree, InsertLog, CommitBegin, CommitLink, EndTrx, Answer,
                      Rollback, RollbackEnd, Rowed
  <2> QED
    BY <2>1, <2>2 DEF PhaseInv
<1>2. CASE Take \/ Sleep \/ Awake \/ WriteBatch \/ FlushBatch \/ WakeFlushed \/ LazyTick
  BY <1>2 DEF Take, Sleep, Awake, WriteBatch, FlushBatch, WakeFlushed, LazyTick,
              PhaseInv, cpvars, trxvars
<1>3. CASE CheckpointStart
  <2>1. /\ up /\ up' /\ cp' = "mark" /\ pc' = pc /\ header' = header
        /\ image'.num = header.num + 1 /\ image'.ts = crashes /\ crashes' = crashes
        /\ image'.committed = Committed
    BY <1>3 DEF CheckpointStart, trxvars
  <2>2. \A t \in Trx : pc[t] \notin Rowed \ {"written"}
    BY <1>3 DEF CheckpointStart, Quiet, InGate, Rowed
  <2> QED
    BY <2>1, <2>2 DEF PhaseInv, ImageInv
<1>4. CASE CheckpointMarked
  BY <1>4 DEF CheckpointMarked, PhaseInv, trxvars, linkvars, batchvars
<1>5. CASE CheckpointEnd
  BY <1>5 DEF CheckpointEnd, PhaseInv
<1>6. CASE ProcessCrash \/ PowerFailure
  BY <1>6 DEF ProcessCrash, PowerFailure, Forget, PhaseInv
<1>7. CASE Restart
  BY <1>7 DEF Restart, PhaseInv, cpvars
<1>8. CASE UNCHANGED vars
  BY <1>8 DEF PhaseInv, vars, trxvars, linkvars, batchvars, cpvars
<1> QED
  BY <1>1, <1>2, <1>3, <1>4, <1>5, <1>6, <1>7, <1>8 DEF Next

\* Link leaves an entry, and a message, for who waits.
LEMMA LinkWaits ==
  ASSUME TypeOK, TypeOK', WaitInv, NEW r, NEW w, NEW f \in BOOLEAN, Link(r, w, f),
         UNCHANGED <<thread, batch, batchwait>>
  PROVE  WaitInv'
<1>1. /\ Len(queue) \in Nat /\ Len(queue') = Len(queue) + 1 /\ queue' # << >>
      /\ \A i \in 1..Len(queue) : queue'[i] = queue[i]
      /\ queue'[Len(queue) + 1].flush = f
  <2> DEFINE Q == [rec : Records, flush : BOOLEAN]
             q == [rec |-> r, flush |-> f]
  <2>1. queue \in Seq(Q) /\ queue' = Append(queue, q) /\ q.flush = f
    BY DEF TypeOK, Link
  <2> HIDE DEF Q, q
  <2> QED
    BY <2>1
<1>3. flushwait' # {} => \E i \in 1..Len(queue') : queue'[i].flush
  <2>1. CASE f = TRUE
    <3>1. Len(queue) + 1 \in 1..Len(queue')
      BY <1>1
    <3>2. queue'[Len(queue) + 1].flush
      BY <1>1, <2>1
    <3> QED
      BY <3>1, <3>2
  <2>2. CASE f = FALSE
    <3>1. flushwait' = flushwait
      BY <2>2 DEF Link
    <3>2. \A i \in 1..Len(queue) : i \in 1..Len(queue') /\ queue'[i] = queue[i]
      BY <1>1
    <3> QED
      BY <3>1, <3>2 DEF WaitInv
  <2> QED
    BY <2>1, <2>2
<1>4. ~mes' => ~mes /\ flushwait' = flushwait /\ spacewait' = spacewait
  BY DEF Link
<1>5. WriterAwake'
  BY <1>4 DEF WaitInv, WriterAwake
<1> QED
  BY <1>1, <1>3, <1>5 DEF WaitInv, NeedsFlush

\* Every step leaves the write thread with a message, or with something to do,
\* while somebody waits.
LEMMA WaitStep ==
  ASSUME TypeOK, TypeOK', WaitInv, [Next]_vars
  PROVE  WaitInv'
<1>1. ASSUME NEW t \in Trx,
             InsertLog(t) \/ CommitLink(t) \/ Rollback(t)
      PROVE  WaitInv'
  BY <1>1, LinkWaits DEF InsertLog, CommitLink, Rollback, batchvars
<1>2. CASE CheckpointStart
  BY <1>2, LinkWaits DEF CheckpointStart, batchvars
<1>3. CASE Take
  <2>1. /\ thread' = "write" /\ batch' = queue /\ batchwait' = flushwait
        /\ flushwait' = {} /\ spacewait' = {}
    BY <1>3 DEF Take
  <2> QED
    BY <2>1 DEF WaitInv, WriterAwake, NeedsFlush
<1>4. CASE Sleep
  <2>1. /\ thread = "check" /\ queue = << >> /\ thread' = "sleep"
        /\ UNCHANGED <<linkvars, batch, batchwait>>
    BY <1>4 DEF Sleep
  <2>2. flushwait = {} /\ spacewait = {} /\ batchwait = {}
    BY <2>1 DEF WaitInv
  <2> QED
    BY <2>1, <2>2 DEF WaitInv, WriterAwake, linkvars
<1>5. CASE Awake
  BY <1>5 DEF Awake, WaitInv, WriterAwake
<1>6. CASE WriteBatch
  BY <1>6 DEF WriteBatch, WaitInv, WriterAwake, linkvars
<1>7. CASE FlushBatch
  BY <1>7 DEF FlushBatch, WaitInv, WriterAwake, linkvars
<1>8. CASE WakeFlushed
  BY <1>8 DEF WakeFlushed, WaitInv, WriterAwake, linkvars
<1>9. CASE LazyTick
  BY <1>9 DEF LazyTick, WaitInv, WriterAwake, NeedsFlush, batchvars
<1>10. CASE ProcessCrash \/ PowerFailure
  BY <1>10 DEF ProcessCrash, PowerFailure, Forget, WaitInv, WriterAwake
<1>11. CASE UNCHANGED <<linkvars, batchvars>>
  BY <1>11 DEF WaitInv, WriterAwake, NeedsFlush, linkvars, batchvars
<1>12. ASSUME \/ \E t \in Trx : \/ Begin(t) \/ InsertTree(t) \/ CommitBegin(t)
                               \/ EndTrx(t) \/ Answer(t) \/ RollbackEnd(t)
              \/ CheckpointMarked \/ CheckpointEnd \/ Restart \/ UNCHANGED vars
       PROVE  UNCHANGED <<linkvars, batchvars>>
  BY <1>12 DEF Begin, InsertTree, CommitBegin, EndTrx, Answer, RollbackEnd,
               CheckpointMarked, CheckpointEnd, Restart, vars
<1> QED
  BY <1>1, <1>2, <1>3, <1>4, <1>5, <1>6, <1>7, <1>8, <1>9, <1>10, <1>11, <1>12 DEF Next

-----------------------------------------------------------------------------
(***************************************************************************)
(* What a running server does to the stream and to the log                 *)
(***************************************************************************)

\* The steps but for the crashes and the restart.
Works ==
  \/ \E t \in Trx : \/ Begin(t) \/ InsertTree(t) \/ InsertLog(t)
                    \/ CommitBegin(t) \/ CommitLink(t) \/ EndTrx(t) \/ Answer(t)
                    \/ Rollback(t) \/ RollbackEnd(t)
  \/ Take \/ Sleep \/ Awake \/ WriteBatch \/ FlushBatch \/ WakeFlushed
  \/ LazyTick
  \/ CheckpointStart \/ CheckpointMarked \/ CheckpointEnd
  \/ UNCHANGED vars

\* The steps that link a record, and the record.
Links(r) ==
  \/ \E t \in Trx : \/ InsertLog(t) /\ r = Record("insert", t)
                    \/ CommitLink(t) /\ r = Record("commit", t)
                    \/ Rollback(t) /\ r = Record("abort", t)
  \/ CheckpointStart /\ r = Mark(image')

\* They add it to the stream.
LEMMA LinkStep ==
  ASSUME TypeOK, TypeOK', NEW r, Links(r)
  PROVE  Linked(r) /\ r \in Records
<1>1. ASSUME NEW t \in Trx, InsertLog(t), r = Record("insert", t)
      PROVE  Linked(r) /\ r \in Records
  BY <1>1, StreamLinked, RecordTypes DEF InsertLog, diskvars, batchvars
<1>2. ASSUME NEW t \in Trx, CommitLink(t), r = Record("commit", t)
      PROVE  Linked(r) /\ r \in Records
  BY <1>2, StreamLinked, RecordTypes DEF CommitLink, diskvars, batchvars
<1>3. ASSUME NEW t \in Trx, Rollback(t), r = Record("abort", t)
      PROVE  Linked(r) /\ r \in Records
  BY <1>3, StreamLinked, RecordTypes DEF Rollback, diskvars, batchvars
<1>4. CASE CheckpointStart /\ r = Mark(image')
  <2>1. Linked(r)
    BY <1>4, StreamLinked DEF CheckpointStart, diskvars, batchvars
  <2>2. image' \in Checkpoints
    BY DEF TypeOK
  <2> QED
    BY <1>4, <2>1, <2>2, RecordTypes
<1> QED
  BY <1>1, <1>2, <1>3, <1>4 DEF Links

\* The others leave it as it is.
LEMMA WorkStream ==
  ASSUME TypeOK, TypeOK', Works
  PROVE  Stream' = Stream \/ \E r : Links(r)
<1>1. CASE \E t \in Trx : InsertLog(t) \/ CommitLink(t) \/ Rollback(t)
  BY <1>1 DEF Links
<1>2. CASE CheckpointStart
  BY <1>2 DEF Links
<1>3. ASSUME \/ \E t \in Trx : \/ Begin(t) \/ InsertTree(t) \/ CommitBegin(t)
                               \/ EndTrx(t) \/ Answer(t) \/ RollbackEnd(t)
             \/ CheckpointMarked \/ CheckpointEnd \/ UNCHANGED vars
      PROVE  UNCHANGED <<log, queue, Unwritten>>
  BY <1>3 DEF Begin, InsertTree, CommitBegin, EndTrx, Answer, RollbackEnd, CheckpointMarked,
              CheckpointEnd, vars, diskvars, linkvars, batchvars, Unwritten
<1>4. ASSUME Sleep \/ Awake \/ FlushBatch \/ WakeFlushed \/ LazyTick
      PROVE  UNCHANGED <<log, queue, Unwritten>>
  BY <1>4 DEF Sleep, Awake, FlushBatch, WakeFlushed, LazyTick,
              diskvars, linkvars, batchvars, Unwritten
<1> QED
  BY <1>1, <1>2, <1>3, <1>4, StreamKept DEF Works

\* So what is in the stream stays where it is.
LEMMA StreamGrows ==
  ASSUME TypeOK, TypeOK', Works
  PROVE  /\ Len(Stream) \in Nat /\ Len(Stream') \in Nat /\ Len(Stream) <= Len(Stream')
         /\ \A j \in 1..Len(Stream) : Stream'[j] = Stream[j]
<1>1. Len(Stream) \in Nat
  BY StreamType DEF StreamTyped
<1>2. CASE Stream' = Stream
  BY <1>1, <1>2
<1>3. ASSUME NEW r, Links(r)
      PROVE  Len(Stream') = Len(Stream) + 1 /\ \A j \in 1..Len(Stream) : Stream'[j] = Stream[j]
  BY <1>3, LinkStep DEF Linked
<1> QED
  BY <1>1, <1>2, <1>3, WorkStream

\* And so does what is in the log; more of it is flushed.
LEMMA LogGrows ==
  ASSUME TypeOK, TypeOK', Works
  PROVE  /\ up' = up /\ crashes' = crashes
         /\ stable <= stable' /\ stable' <= Len(log') /\ Len(log) <= Len(log')
         /\ stable' \in Nat /\ Len(log') \in Nat
         /\ \A j \in 1..Len(log) : log'[j] = log[j]
<1>0. /\ stable \in Nat /\ stable <= Len(log) /\ Len(log) \in Nat
      /\ stable' \in Nat /\ stable' <= Len(log') /\ Len(log') \in Nat
  BY DEF TypeOK
<1>1. ASSUME NEW t \in Trx,
             \/ Begin(t) \/ InsertTree(t) \/ InsertLog(t) \/ CommitBegin(t)
             \/ CommitLink(t) \/ EndTrx(t) \/ Answer(t) \/ Rollback(t) \/ RollbackEnd(t)
      PROVE  UNCHANGED <<up, crashes, log, stable>>
  BY <1>1 DEF Begin, InsertTree, InsertLog, CommitBegin, CommitLink, EndTrx, Answer,
              Rollback, RollbackEnd, diskvars
<1>2. ASSUME \/ Take \/ Sleep \/ Awake \/ LazyTick \/ CheckpointStart
             \/ CheckpointMarked \/ CheckpointEnd \/ UNCHANGED vars
      PROVE  UNCHANGED <<up, crashes, log, stable>>
  BY <1>2 DEF Take, Sleep, Awake, LazyTick, CheckpointStart, CheckpointMarked,
              CheckpointEnd, vars, diskvars
<1>3. CASE UNCHANGED <<up, crashes, log, stable>>
  BY <1>0, <1>3
<1>4. CASE WriteBatch
  BY <1>0, <1>4, BatchWritten DEF WriteBatch
<1>5. CASE FlushBatch \/ WakeFlushed
  BY <1>0, <1>5 DEF FlushBatch, WakeFlushed
<1> QED
  BY <1>1, <1>2, <1>3, <1>4, <1>5 DEF Works

\* A crash leaves some entries of the log as they were, those that are flushed
\* among them, and nothing else of the stream.
LEMMA StreamCrashed ==
  ASSUME TypeOK, TypeOK', ProcessCrash \/ PowerFailure
  PROVE  /\ Stream' = log' /\ Len(Stream) \in Nat /\ Len(Stream') \in Nat
         /\ Len(Stream') <= Len(Stream)
         /\ \A j \in 1..Len(Stream') : Stream'[j] # Hole => Stream'[j] = Stream[j]
<1>1. queue' = << >> /\ thread' # "write"
  BY DEF ProcessCrash, PowerFailure, Forget
<1>2. Stream' = log'
  BY <1>1, StreamIsLogNext
<1> QED
  BY <1>2, CrashLog, StreamType DEF StreamTyped

\* A restart keeps the readable part of the log.
LEMMA StreamRestarted ==
  ASSUME TypeOK, TypeOK', PhaseInv, Restart
  PROVE  /\ Stream = log /\ Stream' = log' /\ log' = Readable(log)
         /\ Len(Stream) \in Nat /\ Len(Stream') \in 0..Len(Stream)
         /\ \A j \in 1..Len(Stream') : Stream'[j] = Stream[j] /\ Stream'[j] # Hole
         /\ Len(Stream') < Len(Stream) => Stream[Len(Stream') + 1] = Hole
<1>1. queue = << >> /\ thread = "check"
  BY DEF PhaseInv, Restart
<1>2. Stream = log
  BY <1>1, StreamIsLog
<1>3. queue' = << >> /\ thread' # "write" /\ log' = Readable(log)
  BY <1>1 DEF Restart, linkvars, batchvars
<1>4. Stream' = log'
  BY <1>3, StreamIsLogNext
<1>5. log \in Seq(Entries) /\ Len(log) \in Nat
  BY DEF TypeOK, Entries
<1>6. PICK n \in 0..Len(log) :
        /\ Len(Readable(log)) = n
        /\ \A i \in 1..n : Readable(log)[i] = log[i] /\ log[i] # Hole
        /\ n < Len(log) => log[n + 1] = Hole
  BY <1>5, ReadableIsPrefix
<1> QED
  BY <1>2, <1>3, <1>4, <1>5, <1>6

-----------------------------------------------------------------------------
(***************************************************************************)
(* Waits for a flush, and the marks                                        *)
(***************************************************************************)

\* Who waits for an entry of the stream to be flushed goes on waiting until it
\* is: the write thread takes it, writes it and flushes it.
LEMMA SafeKept ==
  ASSUME TypeOK, TypeOK', WaitInv, Works,
         NEW w, NEW j \in 1..Len(Stream), Safe(w, j)
  PROVE  Safe(w, j)'
<1>0. /\ Len(log) \in Nat /\ Len(Unwritten) \in Nat /\ Len(queue) \in Nat
      /\ Len(Stream) = Len(log) + Len(Unwritten) + Len(queue)
      /\ stable \in Nat /\ stable' \in Nat /\ stable <= Len(log)
      /\ stable <= stable' /\ Len(log)' \in Nat /\ Len(log) <= Len(log')
  BY StreamType, LogInStream, LogGrows DEF StreamTyped
<1>1. ASSUME /\ flushwait \subseteq flushwait' /\ UNCHANGED <<thread, batchwait>>
             /\ thread \in {"flush", "write"} => batch' = batch /\ log' = log
      PROVE  Safe(w, j)'
  BY <1>0, <1>1 DEF Safe
<1>2. ASSUME NEW r, NEW v, NEW f, Link(r, v, f)
      PROVE  flushwait \subseteq flushwait'
  BY <1>2 DEF Link
<1>3. ASSUME \E t \in Trx : InsertLog(t) \/ CommitLink(t) \/ Rollback(t)
      PROVE  flushwait \subseteq flushwait' /\ UNCHANGED <<thread, batch, batchwait, log>>
  BY <1>2, <1>3 DEF InsertLog, CommitLink, Rollback, batchvars, diskvars
<1>4. ASSUME CheckpointStart
      PROVE  flushwait \subseteq flushwait' /\ UNCHANGED <<thread, batch, batchwait, log>>
  BY <1>2, <1>4 DEF CheckpointStart, batchvars, diskvars
<1>5. ASSUME \/ \E t \in Trx : \/ Begin(t) \/ InsertTree(t) \/ CommitBegin(t)
                               \/ EndTrx(t) \/ Answer(t) \/ RollbackEnd(t)
             \/ CheckpointMarked \/ CheckpointEnd \/ LazyTick \/ UNCHANGED vars
      PROVE  UNCHANGED <<flushwait, thread, batch, batchwait, log>>
  BY <1>5 DEF Begin, InsertTree, CommitBegin, EndTrx, Answer, RollbackEnd, LazyTick,
              CheckpointMarked, CheckpointEnd, vars, linkvars, batchvars, diskvars
<1>6. CASE Take
  <2>1. /\ thread = "check" /\ thread' = "write" /\ batch' = queue
        /\ batchwait' = flushwait /\ log' = log
    BY <1>6 DEF Take, diskvars
  <2>2. Unwritten = << >>
    BY <2>1 DEF Unwritten
  <2> QED
    BY <1>0, <2>1, <2>2 DEF Safe
<1>7. CASE Sleep \/ Awake
  BY <1>0, <1>7 DEF Sleep, Awake, Safe, linkvars
<1>8. CASE WriteBatch
  <2>1. /\ thread = "write" /\ thread' = IF NeedsFlush THEN "flush" ELSE "wake"
        /\ UNCHANGED <<flushwait, batchwait>>
    BY <1>8 DEF WriteBatch, linkvars
  <2>2. Len(log') = Len(log) + Len(batch)
    BY <1>8, BatchWritten DEF WriteBatch
  <2>3. w \in batchwait => thread' = "flush"
    BY <2>1 DEF WaitInv
  <2> QED
    BY <1>0, <2>1, <2>2, <2>3 DEF Safe
<1>9. CASE FlushBatch
  BY <1>0, <1>9 DEF FlushBatch, Safe, linkvars
<1>10. CASE WakeFlushed
  BY <1>0, <1>10 DEF WakeFlushed, Safe, linkvars
<1> QED
  BY <1>1, <1>3, <1>4, <1>5, <1>6, <1>7, <1>8, <1>9, <1>10 DEF Works


\* How a step changes the checkpoints, while the server runs.
LEMMA CheckpointStep ==
  ASSUME Works
  PROVE  \/ UNCHANGED cpvars
         \/ CheckpointStart /\ header' = header /\ cp' = "mark"
         \/ /\ CheckpointMarked /\ cp = "mark" /\ cp' = "save"
            /\ UNCHANGED <<image, header>>
         \/ CheckpointEnd /\ cp = "save" /\ cp' = "idle" /\ header' = image /\ image' = image
<1>1. ASSUME NEW t \in Trx,
             \/ Begin(t) \/ InsertTree(t) \/ InsertLog(t) \/ CommitBegin(t)
             \/ CommitLink(t) \/ EndTrx(t) \/ Answer(t) \/ Rollback(t) \/ RollbackEnd(t)
      PROVE  UNCHANGED cpvars
  BY <1>1 DEF Begin, InsertTree, InsertLog, CommitBegin, CommitLink, EndTrx, Answer,
              Rollback, RollbackEnd
<1>2. ASSUME \/ Take \/ Sleep \/ Awake \/ WriteBatch \/ FlushBatch \/ WakeFlushed
             \/ LazyTick \/ UNCHANGED vars
      PROVE  UNCHANGED cpvars
  BY <1>2 DEF Take, Sleep, Awake, WriteBatch, FlushBatch, WakeFlushed, LazyTick, vars
<1>3. CASE CheckpointStart
  BY <1>3 DEF CheckpointStart
<1>4. CASE CheckpointMarked
  BY <1>4 DEF CheckpointMarked
<1>5. CASE CheckpointEnd
  BY <1>5 DEF CheckpointEnd
<1> QED
  BY <1>1, <1>2, <1>3, <1>4, <1>5 DEF Works

\* A running server keeps the marks where they are, and the mark of a checkpoint
\* is flushed before the header tells of the checkpoint.
LEMMA MarksKept ==
  ASSUME TypeOK, TypeOK', PhaseInv, WaitInv, MarkInv, Works
  PROVE  /\ \E i \in 1..stable' : log'[i] = Mark(header') /\ Whole(log', i)
         /\ cp' = "mark" =>
              \E j \in 1..Len(Stream') : Stream'[j] = Mark(image') /\ Safe(Checkpointer, j)'
         /\ cp' = "save" => \E i \in 1..stable' : log'[i] = Mark(image')
<1>0. /\ stable \in Nat /\ stable <= Len(log) /\ Len(log) \in Nat /\ stable <= stable'
      /\ stable' \in Nat /\ \A j \in 1..Len(log) : log'[j] = log[j]
      /\ Len(Stream) \in Nat /\ Len(log) <= Len(Stream)
      /\ \A j \in 1..Len(log) : Stream[j] = log[j]
  BY LogInStream, LogGrows
<1>1. ASSUME NEW i \in 1..stable
      PROVE  i \in 1..stable' /\ log'[i] = log[i] /\ (Whole(log, i) => Whole(log', i))
  BY <1>0 DEF Whole
<1>2. ASSUME NEW j \in 1..Len(Stream), Safe(Checkpointer, j)
      PROVE  j \in 1..Len(Stream') /\ Stream'[j] = Stream[j] /\ Safe(Checkpointer, j)'
  BY <1>2, StreamGrows, SafeKept
<1>3. PICK h \in 1..stable : log[h] = Mark(header) /\ Whole(log, h)
  BY DEF MarkInv
<1>4. CASE UNCHANGED cpvars
  <2>1. header' = header /\ image' = image /\ cp' = cp
    BY <1>4 DEF cpvars
  <2>2. \E i \in 1..stable' : log'[i] = Mark(header') /\ Whole(log', i)
    BY <1>1, <1>3, <2>1
  <2>3. ASSUME cp = "mark"
        PROVE  \E j \in 1..Len(Stream') : Stream'[j] = Mark(image') /\ Safe(Checkpointer, j)'
    <3>1. PICK j \in 1..Len(Stream) : Stream[j] = Mark(image) /\ Safe(Checkpointer, j)
      BY <2>3 DEF MarkInv
    <3>2. j \in 1..Len(Stream') /\ Stream'[j] = Mark(image') /\ Safe(Checkpointer, j)'
      BY <1>2, <2>1, <3>1
    <3> QED
      BY <3>2
  <2>4. ASSUME cp = "save"
        PROVE  \E i \in 1..stable' : log'[i] = Mark(image')
    BY <1>1, <2>1, <2>4 DEF MarkInv
  <2> QED
    BY <2>1, <2>2, <2>3, <2>4
<1>5. CASE CheckpointStart /\ header' = header /\ cp' = "mark"
  <2>1. \E i \in 1..stable' : log'[i] = Mark(header') /\ Whole(log', i)
    BY <1>1, <1>3, <1>5
  <2>2. Linked(Mark(image'))
    BY <1>5, LinkStep DEF Links
  <2> PICK n \in Nat : n = Len(Stream) + 1
    BY <1>0
  <2>3. Safe(Checkpointer, n)'
    BY <1>5 DEF CheckpointStart, Link, Safe
  <2>4. n \in 1..Len(Stream') /\ Stream'[n] = Mark(image')
    BY <1>0, <2>2 DEF Linked
  <2> QED
    BY <1>5, <2>1, <2>3, <2>4
<1>6. CASE CheckpointMarked /\ cp = "mark" /\ cp' = "save" /\ UNCHANGED <<image, header>>
  <2>1. \E i \in 1..stable' : log'[i] = Mark(header') /\ Whole(log', i)
    BY <1>1, <1>3, <1>6
  <2>2. PICK j \in 1..Len(Stream) : Stream[j] = Mark(image) /\ Safe(Checkpointer, j)
    BY <1>6 DEF MarkInv
  <2>3. ~Waits(Checkpointer)
    BY <1>6 DEF CheckpointMarked
  <2>4. j <= stable
    BY <2>2, <2>3 DEF Safe, Waits
  <2>5. j \in 1..stable /\ log[j] = Mark(image)
    BY <1>0, <2>2, <2>4
  <2>6. j \in 1..stable' /\ log'[j] = Mark(image')
    BY <1>1, <1>6, <2>5
  <2> QED
    BY <1>6, <2>1, <2>6
<1>7. CASE CheckpointEnd /\ cp = "save" /\ cp' = "idle" /\ header' = image /\ image' = image
  <2>1. PICK i \in 1..stable : log[i] = Mark(image)
    BY <1>7 DEF MarkInv
  <2>2. up
    BY <1>7 DEF PhaseInv
  <2>3. Whole(log, i)
    BY <1>0, <2>2 DEF MarkInv, Whole
  <2>4. i \in 1..stable' /\ log'[i] = Mark(header') /\ Whole(log', i)
    BY <1>1, <1>7, <2>1, <2>3
  <2> QED
    BY <1>7, <2>4
<1> QED
  BY <1>4, <1>5, <1>6, <1>7, CheckpointStep

\* No mark has the number and the time of the next checkpoint: a crash is a new
\* time.
LEMMA MarksOld ==
  ASSUME TypeOK, TypeOK', PhaseInv, MarkInv, Works
  PROVE  /\ up' => Whole(Stream', Len(Stream'))
         /\ header'.ts <= crashes'
         /\ \A j \in 1..Len(Stream') :
              Stream'[j].kind = "mark" =>
                \/ Stream'[j].ts < crashes'
                \/ Stream'[j].ts = crashes' /\ Stream'[j].of <= image'.num
<1>0. /\ header \in Checkpoints /\ image \in Checkpoints /\ crashes \in Nat
      /\ header.num \in Nat /\ image.num \in Nat
      /\ up' = up /\ crashes' = crashes /\ Len(Stream) \in Nat
  BY NumberTypes, LogGrows, StreamGrows
<1>1. image'.num \in Nat /\ image.num <= image'.num /\ header'.ts <= crashes'
  <2>1. CASE UNCHANGED <<image, header>>
    BY <1>0, <2>1 DEF MarkInv
  <2>2. CASE CheckpointStart /\ header' = header
    <3>1. image = header /\ image'.num = header.num + 1
      BY <2>2 DEF PhaseInv, CheckpointStart
    <3> QED
      BY <1>0, <2>2, <3>1 DEF MarkInv
  <2>3. CASE cp = "save" /\ header' = image /\ image' = image
    BY <1>0, <2>3 DEF PhaseInv
  <2> QED
    BY <2>1, <2>2, <2>3, CheckpointStep DEF cpvars
<1>2. \A j \in 1..Len(Stream) :
        Stream[j].kind = "mark" =>
          \/ Stream[j].ts < crashes'
          \/ Stream[j].ts = crashes' /\ Stream[j].of <= image'.num
  <2> SUFFICES ASSUME NEW j \in 1..Len(Stream), Stream[j].kind = "mark",
                      ~(Stream[j].ts < crashes)
               PROVE  Stream[j].ts = crashes /\ Stream[j].of <= image'.num
    BY <1>0
  <2>1. Stream[j].ts = crashes /\ Stream[j].of <= image.num
    BY DEF MarkInv
  <2>2. Stream[j].of \in Nat
    <3>1. Stream[j] \in Entries
      BY LogInStream
    <3> QED
      BY <3>1 DEF Entries, Records, Hole
  <2> QED
    BY <1>0, <1>1, <2>1, <2>2
<1>3. CASE Stream' = Stream
  BY <1>0, <1>1, <1>2, <1>3 DEF MarkInv
<1>4. ASSUME NEW r, Links(r)
      PROVE  /\ up' => Whole(Stream', Len(Stream'))
             /\ \A j \in 1..Len(Stream') :
                  Stream'[j].kind = "mark" =>
                    \/ Stream'[j].ts < crashes'
                    \/ Stream'[j].ts = crashes' /\ Stream'[j].of <= image'.num
  <2>1. Linked(r) /\ r # Hole
    BY <1>4, LinkStep, RecordTypes
  <2>2. up' => Whole(Stream', Len(Stream'))
    BY <1>0, <2>1 DEF MarkInv, Whole, Linked
  <2>3. r.kind = "mark" => r.ts = crashes' /\ r.of <= image'.num
    <3>1. CASE CheckpointStart /\ r = Mark(image')
      BY <1>0, <1>1, <3>1 DEF Mark, CheckpointStart
    <3>2. ASSUME NEW t, NEW k, k # "mark", r = Record(k, t)
          PROVE  r.kind # "mark"
      BY <3>2 DEF Record
    <3> QED
      BY <1>4, <3>1, <3>2 DEF Links
  <2> QED
    BY <1>0, <1>2, <2>1, <2>2, <2>3 DEF Linked
<1> QED
  BY <1>1, <1>3, <1>4, WorkStream

\* The same of all steps.
LEMMA MarkStep ==
  ASSUME TypeOK, TypeOK', PhaseInv, WaitInv, MarkInv, [Next]_vars
  PROVE  MarkInv'
<1>0. /\ stable \in Nat /\ stable <= Len(log) /\ Len(log) \in Nat /\ crashes \in Nat
      /\ \A j \in 1..Len(Stream) : Stream[j] \in Entries
      /\ Len(Stream) \in Nat /\ Len(log) <= Len(Stream)
      /\ \A j \in 1..Len(log) : Stream[j] = log[j]
  BY LogInStream, NumberTypes
<1>1. PICK h \in 1..stable : log[h] = Mark(header) /\ Whole(log, h)
  BY DEF MarkInv
<1>2. CASE Works
  BY <1>2, MarksKept, MarksOld DEF MarkInv
<1>3. CASE ProcessCrash \/ PowerFailure
  <2>1. /\ ~up' /\ cp' = "idle" /\ header' = header /\ crashes' = crashes + 1
    BY <1>3 DEF ProcessCrash, PowerFailure, Forget
  <2>2. /\ stable <= stable' /\ stable' \in Nat /\ \A j \in 1..stable : log'[j] = log[j]
    BY <1>3, CrashLog DEF TypeOK
  <2>3. h \in 1..stable' /\ log'[h] = Mark(header') /\ Whole(log', h)
    BY <1>0, <1>1, <2>1, <2>2 DEF Whole
  <2>4. \A j \in 1..Len(Stream') : Stream'[j].kind = "mark" => Stream'[j].ts < crashes'
    <3> SUFFICES ASSUME NEW j \in 1..Len(Stream'), Stream'[j].kind = "mark"
                 PROVE  Stream'[j].ts < crashes'
      OBVIOUS
    <3>1. Stream'[j] # Hole
      BY DEF Hole
    <3>2. j \in 1..Len(Stream) /\ Stream'[j] = Stream[j]
      BY <1>3, <3>1, StreamCrashed
    <3>3. Stream[j].ts \in Nat /\ Stream[j].ts <= crashes
      BY <1>0, <3>2 DEF MarkInv, Entries, Records, Hole
    <3> QED
      BY <1>0, <2>1, <3>2, <3>3
  <2>5. header'.ts <= crashes'
    BY <2>1, NumberTypes DEF MarkInv
  <2> QED
    BY <2>1, <2>3, <2>4, <2>5 DEF MarkInv
<1>4. CASE Restart
  <2>1. UNCHANGED <<cp, image, header, crashes>> /\ cp = "idle"
    BY <1>4 DEF Restart, PhaseInv, cpvars
  <2>2. /\ Stream' = log' /\ Stream = log /\ Len(Stream') \in 0..Len(Stream)
        /\ \A j \in 1..Len(Stream') : Stream'[j] = Stream[j] /\ Stream'[j] # Hole
        /\ Len(Stream') < Len(Stream) => Stream[Len(Stream') + 1] = Hole
    BY <1>4, StreamRestarted
  <2>3. Whole(Stream', Len(Stream'))
    BY <2>2 DEF Whole
  <2>4. h <= Len(Stream')
    BY <1>0, <1>1, <2>2 DEF Whole
  <2>5. h \in 1..stable'
    BY <1>0, <1>4, <2>2, <2>4 DEF Restart
  <2>6. log'[h] = Mark(header') /\ Whole(log', h)
    BY <1>1, <2>1, <2>2, <2>4 DEF Whole
  <2>7. \A j \in 1..Len(Stream') :
          Stream'[j].kind = "mark" =>
            \/ Stream'[j].ts < crashes'
            \/ Stream'[j].ts = crashes' /\ Stream'[j].of <= image'.num
    BY <2>1, <2>2 DEF MarkInv
  <2> QED
    BY <2>1, <2>3, <2>5, <2>6, <2>7 DEF MarkInv
<1> QED
  BY <1>2, <1>3, <1>4 DEF Next, Works

-----------------------------------------------------------------------------
(***************************************************************************)
(* What a checkpoint covers of the stream                                  *)
(***************************************************************************)

\* Where the stream begins as before, it has the same records behind the same
\* marks.
LEMMA SameBeginning ==
  ASSUME NEW j \in Nat, \A i \in 1..j : Stream'[i] = Stream[i], NEW c
  PROVE  /\ Whole(Stream', j) <=> Whole(Stream, j)
         /\ \A k \in 1..(j + 1) : Behind(Stream', k, c) <=> Behind(Stream, k, c)
         /\ \A kind, t : Has(Stream', j, kind, t, c) <=> Has(Stream, j, kind, t, c)
<1>1. Whole(Stream', j) <=> Whole(Stream, j)
  BY DEF Whole
<1>2. \A k \in 1..(j + 1) : Behind(Stream', k, c) <=> Behind(Stream, k, c)
  BY DEF Behind
<1>3. \A kind, t : Has(Stream', j, kind, t, c) <=> Has(Stream, j, kind, t, c)
  BY <1>2 DEF Has
<1> QED
  BY <1>1, <1>2, <1>3

\* A longer part has all that a shorter one has.
LEMMA HasMore ==
  ASSUME NEW l, NEW j \in Nat, NEW n \in Nat, j <= n, NEW kind, NEW t, NEW c,
         Has(l, j, kind, t, c)
  PROVE  Has(l, n, kind, t, c)
BY DEF Has

\* The thread of a transaction goes from stage to stage; what it has seen at its
\* begin does not change.
LEMMA WorkStages ==
  ASSUME TypeOK, Works, NEW t \in Trx
  PROVE  /\ \/ pc'[t] = pc[t]
            \/ Begin(t) /\ pc[t] = "idle" /\ pc'[t] = "active"
            \/ InsertTree(t) /\ pc[t] = "active" /\ pc'[t] = "inserting"
            \/ InsertLog(t) /\ pc[t] = "inserting" /\ pc'[t] = "written"
            \/ CommitBegin(t) /\ pc[t] = "written" /\ pc'[t] = "commit"
            \/ CommitLink(t) /\ pc[t] = "commit" /\ pc'[t] = "logged"
            \/ EndTrx(t) /\ pc[t] = "logged" /\ pc'[t] = "visible"
            \/ Answer(t) /\ pc[t] = "visible" /\ pc'[t] = "ended"
            \/ Rollback(t) /\ pc[t] = "written" /\ pc'[t] = "aborting"
            \/ RollbackEnd(t) /\ pc[t] = "aborting" /\ pc'[t] = "ended"
         /\ \/ fate'[t] = fate[t]
            \/ pc[t] = "idle" /\ pc'[t] = "active" /\ fate'[t] = "begin"
            \/ pc[t] = "logged" /\ pc'[t] = "visible" /\ fate'[t] = "commit"
            \/ pc[t] = "aborting" /\ pc'[t] = "ended" /\ fate'[t] = "abort"
         /\ \/ seen'[t] = seen[t]
            \/ pc[t] = "idle" /\ pc'[t] = "active"
         /\ t \in told' => t \in told \/ Answer(t)
<1>0. DOMAIN pc = Trx /\ DOMAIN fate = Trx /\ DOMAIN seen = Trx
  BY DEF TypeOK
<1>1. CASE UNCHANGED trxvars
  BY <1>1 DEF trxvars
<1>2. ASSUME \/ Take \/ Sleep \/ Awake \/ WriteBatch \/ FlushBatch \/ WakeFlushed
             \/ LazyTick \/ CheckpointStart \/ CheckpointMarked \/ CheckpointEnd
             \/ UNCHANGED vars
      PROVE  UNCHANGED trxvars
  BY <1>2 DEF Take, Sleep, Awake, WriteBatch, FlushBatch, WakeFlushed, LazyTick,
              CheckpointStart, CheckpointMarked, CheckpointEnd, vars
<1>3. ASSUME NEW u \in Trx, u # t,
             \/ Begin(u) \/ InsertTree(u) \/ InsertLog(u) \/ CommitBegin(u)
             \/ CommitLink(u) \/ EndTrx(u) \/ Answer(u) \/ Rollback(u) \/ RollbackEnd(u)
      PROVE  /\ pc'[t] = pc[t] /\ fate'[t] = fate[t] /\ seen'[t] = seen[t]
             /\ t \in told' => t \in told
  BY <1>0, <1>3 DEF Begin, InsertTree, InsertLog, CommitBegin, CommitLink, EndTrx, Answer,
                    Rollback, RollbackEnd
<1>4. CASE Begin(t)
  BY <1>0, <1>4 DEF Begin
<1>5. CASE InsertTree(t) \/ InsertLog(t) \/ CommitBegin(t) \/ CommitLink(t) \/ Rollback(t)
  BY <1>0, <1>5 DEF InsertTree, InsertLog, CommitBegin, CommitLink, Rollback
<1>6. CASE EndTrx(t)
  BY <1>0, <1>6 DEF EndTrx
<1>7. CASE Answer(t)
  BY <1>0, <1>7 DEF Answer
<1>8. CASE RollbackEnd(t)
  BY <1>0, <1>8 DEF RollbackEnd
<1> QED
  BY <1>1, <1>2, <1>3, <1>4, <1>5, <1>6, <1>7, <1>8 DEF Works

\* The image of a checkpoint stays closed.
LEMMA ImageKept ==
  ASSUME TypeOK, TypeOK', StageInv, NEW c, ImageInv(c), Works
  PROVE  ImageInv(c)'
<1>1. Committed \subseteq Committed'
  <2>1. ~Restart
    BY LogGrows DEF Restart
  <2> QED
    BY <2>1, CommittedGrows DEF Works, Next
<1>2. c.committed \subseteq c.tree /\ c.committed \subseteq Committed'
  BY <1>1 DEF ImageInv
<1>3. ASSUME NEW t \in c.committed
      PROVE  seen'[t] \subseteq c.committed
  <2>1. t \in Trx /\ fate[t] = "commit"
    BY DEF ImageInv, Committed
  <2>2. pc[t] # "idle"
    BY <2>1 DEF StageInv
  <2>3. seen'[t] = seen[t]
    BY <2>1, <2>2, WorkStages
  <2> QED
    BY <2>3 DEF ImageInv
<1>4. ASSUME NEW t \in Trx, pc'[t] \in {"idle", "active", "inserting"}
      PROVE  t \notin c.tree
  <2>1. pc[t] \in {"idle", "active", "inserting"}
    BY <1>4, WorkStages
  <2> QED
    BY <2>1 DEF ImageInv
<1> QED
  BY <1>2, <1>3, <1>4 DEF ImageInv

\* The checkpoint has its mark on the way.
Marked(c) == \E i \in 1..Len(Stream) : Stream[i] = Mark(c)

\* A commit record follows the row, and the commits its transaction has seen.
LEMMA CommitsKept ==
  ASSUME TypeOK, TypeOK', StageInv, FateInv, NEW c, Marked(c), ImageInv(c),
         CommitsCovered(c), StreamReaches(c), Works
  PROVE  CommitsCovered(c)'
<1>1. /\ Len(Stream) \in Nat /\ Len(Stream') \in Nat
      /\ \A j \in 1..Len(Stream) : Stream'[j] = Stream[j]
  BY StreamGrows
<1> SUFFICES ASSUME NEW j \in 1..Len(Stream'), NEW t \in Trx,
                    Whole(Stream', j), Stream'[j] = Record("commit", t)
             PROVE  /\ t \in c.committed \/ Behind(Stream', j, c)
                    /\ t \in c.tree \/ Has(Stream', j, "insert", t, c)
                    /\ \A u \in seen'[t] :
                         u \in c.committed \/ Has(Stream', j, "commit", u, c)
  BY DEF CommitsCovered
<1>2. CASE j <= Len(Stream)
  <2>1. j \in 1..Len(Stream) /\ j \in Nat /\ \A i \in 1..j : Stream'[i] = Stream[i]
    BY <1>1, <1>2
  <2>2. Whole(Stream, j) /\ Stream[j] = Record("commit", t)
    BY <2>1, SameBeginning
  <2>3. /\ t \in c.committed \/ Behind(Stream, j, c)
        /\ t \in c.tree \/ Has(Stream, j, "insert", t, c)
        /\ \A u \in seen[t] : u \in c.committed \/ Has(Stream, j, "commit", u, c)
    BY <2>1, <2>2 DEF CommitsCovered
  <2>4. fate[t] \in {"commit", "begin"}
    BY <2>1, <2>2 DEF FateInv
  <2>5. seen'[t] = seen[t]
    BY <2>4, WorkStages DEF StageInv
  <2>6. Behind(Stream, j, c) => Behind(Stream', j, c)
    BY <2>1, SameBeginning
  <2>7. \A k, u : Has(Stream, j, k, u, c) => Has(Stream', j, k, u, c)
    BY <2>1, SameBeginning
  <2> QED
    BY <2>3, <2>5, <2>6, <2>7
<1>3. CASE j > Len(Stream)
  <2>1. PICK r : Links(r) /\ Linked(r)
    BY <1>1, <1>3, WorkStream, LinkStep
  <2>2. j = Len(Stream) + 1 /\ r = Record("commit", t)
    BY <1>1, <1>3, <2>1 DEF Linked
  <2>3. CommitLink(t)
    BY <2>1, <2>2, RecordFacts DEF Links
  <2>4. up /\ pc[t] = "commit" /\ seen'[t] = seen[t] /\ fate[t] = "begin"
    BY <2>3 DEF CommitLink, StageInv, Running
  <2>5. \A n \in 1..Len(Stream) : n \in 1..(j - 1)
    BY <1>1, <2>2
  <2>6. Behind(Stream', j, c)
    BY <1>1, <2>5 DEF Marked, Behind
  <2>7. ASSUME NEW k, NEW u, Has(Stream, Len(Stream), k, u, c)
        PROVE  Has(Stream', j, k, u, c)
    BY <1>1, <2>2, <2>7, SameBeginning, HasMore
  <2>8. t \in c.tree \/ Has(Stream', j, "insert", t, c)
    BY <2>4, <2>7 DEF StreamReaches
  <2>9. seen[t] \subseteq Committed
    BY <2>4 DEF StageInv
  <2>10. \A u \in seen[t] : u \in c.committed \/ Has(Stream', j, "commit", u, c)
    BY <2>4, <2>7, <2>9 DEF StreamReaches, Committed
  <2> QED
    BY <2>4, <2>6, <2>8, <2>10
<1> QED
  BY <1>1, <1>2, <1>3

\* A row goes to the log after it went to the index, and not to the image.
LEMMA InsertsKept ==
  ASSUME TypeOK, TypeOK', NEW c, ImageInv(c), InsertsNew(c), Works
  PROVE  InsertsNew(c)'
<1>1. /\ Len(Stream) \in Nat /\ Len(Stream') \in Nat
      /\ \A j \in 1..Len(Stream) : Stream'[j] = Stream[j]
  BY StreamGrows
<1> SUFFICES ASSUME NEW j \in 1..Len(Stream'), NEW t \in Trx, Whole(Stream', j),
                    Stream'[j] = Record("insert", t), Behind(Stream', j, c)
             PROVE  t \notin c.tree
  BY DEF InsertsNew
<1>2. CASE j <= Len(Stream)
  <2>1. j \in 1..Len(Stream) /\ j \in Nat /\ \A i \in 1..j : Stream'[i] = Stream[i]
    BY <1>1, <1>2
  <2>2. Whole(Stream, j) /\ Stream[j] = Record("insert", t) /\ Behind(Stream, j, c)
    BY <2>1, SameBeginning
  <2> QED
    BY <2>1, <2>2 DEF InsertsNew
<1>3. CASE j > Len(Stream)
  <2>1. PICK r : Links(r) /\ Linked(r)
    BY <1>1, <1>3, WorkStream, LinkStep
  <2>2. r = Record("insert", t)
    BY <1>1, <1>3, <2>1 DEF Linked
  <2>3. InsertLog(t)
    BY <2>1, <2>2, RecordFacts DEF Links
  <2> QED
    BY <2>3 DEF InsertLog, ImageInv
<1> QED
  BY <1>1, <1>2, <1>3

\* What the running server does next is on its way, too.
LEMMA ReachKept ==
  ASSUME TypeOK, TypeOK', StageInv, NEW c, Marked(c), StreamReaches(c), Works
  PROVE  StreamReaches(c)'
<1>1. /\ Len(Stream) \in Nat /\ Len(Stream') \in Nat /\ Len(Stream) <= Len(Stream')
      /\ \A j \in 1..Len(Stream) : Stream'[j] = Stream[j]
  BY StreamGrows
<1>2. ASSUME NEW k, NEW u, Has(Stream, Len(Stream), k, u, c)
      PROVE  Has(Stream', Len(Stream'), k, u, c)
  BY <1>1, <1>2, SameBeginning, HasMore
<1>3. ASSUME NEW k, NEW u, Links(Record(k, u))
      PROVE  Has(Stream', Len(Stream'), k, u, c)
  <2>1. Linked(Record(k, u))
    BY <1>3, LinkStep
  <2> DEFINE n == Len(Stream')
  <2>2. n \in Nat /\ n = Len(Stream) + 1 /\ Stream'[n] = Record(k, u)
    BY <1>1, <2>1 DEF Linked
  <2>3. \A i \in 1..Len(Stream) : i \in 1..(n - 1)
    BY <1>1, <2>2
  <2>4. Behind(Stream', n, c)
    BY <1>1, <2>3 DEF Behind, Marked
  <2> QED
    BY <2>2, <2>4 DEF Has
<1>4. ASSUME up', NEW t \in Trx, fate'[t] = "commit" \/ pc'[t] = "logged"
      PROVE  t \in c.committed \/ Has(Stream', Len(Stream'), "commit", t, c)
  <2>1. up
    BY <1>4, LogGrows
  <2>2. CASE fate[t] = "commit" \/ pc[t] = "logged"
    BY <1>2, <2>1, <2>2 DEF StreamReaches
  <2>3. CASE ~(fate[t] = "commit" \/ pc[t] = "logged")
    <3>1. CommitLink(t)
      BY <1>4, <2>3, WorkStages
    <3>2. Links(Record("commit", t))
      BY <3>1 DEF Links
    <3> QED
      BY <1>3, <3>2
  <2> QED
    BY <2>2, <2>3
<1>5. ASSUME up', NEW t \in Trx, pc'[t] \in {"written", "commit"}
      PROVE  t \in c.tree \/ Has(Stream', Len(Stream'), "insert", t, c)
  <2>1. up
    BY <1>5, LogGrows
  <2>2. CASE pc[t] \in {"written", "commit"}
    BY <1>2, <2>1, <2>2 DEF StreamReaches
  <2>3. CASE pc[t] \notin {"written", "commit"}
    <3>1. InsertLog(t)
      BY <1>5, <2>3, WorkStages
    <3>2. Links(Record("insert", t))
      BY <3>1 DEF Links
    <3> QED
      BY <1>3, <3>2
  <2> QED
    BY <2>2, <2>3
<1> QED
  BY <1>4, <1>5 DEF StreamReaches

\* The checkpoint that starts covers all that has left the gate, and nothing is
\* behind its mark.
LEMMA ImageTaken ==
  ASSUME TypeOK, TypeOK', StageInv, PhaseInv, MarkInv, FateInv, CheckpointStart,
         NEW c, c = image'
  PROVE  CoverInv(c)'
<1>1. /\ up /\ cp = "idle" /\ UNCHANGED <<pc, fate, seen>>
      /\ c.tree = tree /\ c.committed = Committed /\ Committed' = Committed
      /\ c.num = header.num + 1 /\ c.ts = crashes
      /\ \A t \in Trx : pc[t] \notin {"inserting", "commit", "logged", "visible", "aborting"}
  BY DEF CheckpointStart, Quiet, InGate, trxvars, Committed
<1>2. Linked(Mark(c))
  BY LinkStep DEF Links
<1>3. /\ Len(Stream) \in Nat /\ Len(Stream') = Len(Stream) + 1
      /\ Stream'[Len(Stream) + 1] = Mark(c)
      /\ \A j \in 1..Len(Stream) : Stream'[j] = Stream[j]
  BY <1>2, StreamType DEF Linked, StreamTyped
<1>4. \A j \in 1..Len(Stream) : Stream[j] # Mark(c)
  <2> SUFFICES ASSUME NEW j \in 1..Len(Stream), Stream[j] = Mark(c)
               PROVE  FALSE
    OBVIOUS
  <2>1. Stream[j].kind = "mark" /\ Stream[j].of = c.num /\ Stream[j].ts = c.ts
    BY DEF Mark
  <2>2. header \in Checkpoints /\ crashes \in Nat
    BY DEF TypeOK
  <2>3. header.num \in Nat
    BY <2>2 DEF Checkpoints
  <2>4. c.num <= image.num /\ image = header
    BY <1>1, <2>1, <2>2 DEF MarkInv, PhaseInv
  <2> QED
    BY <1>1, <2>3, <2>4
<1>5. ImageInv(c)'
  <2>1. Committed \subseteq tree /\ \A t \in Committed : t \in Trx /\ seen[t] \subseteq Committed
    BY <1>1 DEF StageInv, Committed
  <2>2. \A t \in Trx : pc[t] \in {"idle", "active", "inserting"} => t \notin tree
    BY <1>1 DEF StageInv
  <2> QED
    BY <1>1, <2>1, <2>2 DEF ImageInv
<1>6. CommitsCovered(c)'
  <2> SUFFICES ASSUME NEW j \in 1..Len(Stream'), NEW t \in Trx,
                      Whole(Stream', j), Stream'[j] = Record("commit", t)
               PROVE  t \in c.committed /\ t \in c.tree /\ seen'[t] \subseteq c.committed
    BY DEF CommitsCovered
  <2>1. j \in 1..Len(Stream) /\ j \in Nat
    BY <1>3, RecordFacts
  <2>2. Whole(Stream, j) /\ Stream[j] = Record("commit", t)
    BY <1>3, <2>1, SameBeginning
  <2>3. fate[t] = "commit"
    BY <1>1, <2>1, <2>2 DEF FateInv, StageInv
  <2> QED
    BY <1>1, <2>3 DEF StageInv, Committed
<1>7. InsertsNew(c)'
  <2> SUFFICES ASSUME NEW j \in 1..Len(Stream'), Behind(Stream', j, c)
               PROVE  FALSE
    BY DEF InsertsNew
  <2> QED
    BY <1>3, <1>4 DEF Behind
<1>8. StreamReaches(c)'
  <2>1. \A t \in Trx : /\ fate[t] = "commit" => t \in c.committed
                       /\ pc[t] = "written" => t \in c.tree
    BY <1>1 DEF StageInv, Rowed, Committed
  <2> QED
    BY <1>1, <2>1 DEF StreamReaches
<1> QED
  BY <1>5, <1>6, <1>7, <1>8 DEF CoverInv

\* What is lost of the stream, and what a restart cuts off, is not missed.
LEMMA CoverPart ==
  ASSUME NEW c, UNCHANGED seen, Len(Stream) \in Nat, Len(Stream') \in 0..Len(Stream),
         \A j \in 1..Len(Stream') : Stream'[j] # Hole => Stream'[j] = Stream[j],
         CommitsCovered(c), InsertsNew(c)
  PROVE  CommitsCovered(c)' /\ InsertsNew(c)'
<1>1. ASSUME NEW j \in 1..Len(Stream'), Whole(Stream', j)
      PROVE  /\ j \in Nat /\ j \in 1..Len(Stream) /\ Whole(Stream, j)
             /\ \A i \in 1..j : Stream'[i] = Stream[i]
  BY <1>1 DEF Whole
<1>2. ASSUME NEW j \in 1..Len(Stream'), NEW t \in Trx,
             Whole(Stream', j), Stream'[j] = Record("commit", t)
      PROVE  /\ t \in c.committed \/ Behind(Stream', j, c)
             /\ t \in c.tree \/ Has(Stream', j, "insert", t, c)
             /\ \A u \in seen'[t] :
                  u \in c.committed \/ Has(Stream', j, "commit", u, c)
  <2>1. /\ t \in c.committed \/ Behind(Stream, j, c)
        /\ t \in c.tree \/ Has(Stream, j, "insert", t, c)
        /\ \A u \in seen[t] : u \in c.committed \/ Has(Stream, j, "commit", u, c)
    BY <1>1, <1>2 DEF CommitsCovered
  <2>2. Behind(Stream', j, c) <=> Behind(Stream, j, c)
    BY <1>1, <1>2, SameBeginning
  <2>3. \A k, u : Has(Stream', j, k, u, c) <=> Has(Stream, j, k, u, c)
    BY <1>1, <1>2, SameBeginning
  <2> QED
    BY <2>1, <2>2, <2>3
<1>3. ASSUME NEW j \in 1..Len(Stream'), NEW t \in Trx, Whole(Stream', j),
             Stream'[j] = Record("insert", t), Behind(Stream', j, c)
      PROVE  t \notin c.tree
  <2>1. Behind(Stream, j, c)
    BY <1>1, <1>3, SameBeginning
  <2> QED
    BY <1>1, <1>3, <2>1 DEF InsertsNew
<1> QED
  BY <1>2, <1>3 DEF CommitsCovered, InsertsNew

\* The checkpoint of the header, and the one that is created, cover what they
\* must after every step.
LEMMA CoverStep ==
  ASSUME DurableInv, TypeOK', [Next]_vars
  PROVE  CoverInv(header)' /\ CoverInv(image)'
<1> USE DEF DurableInv
<1>0. PICK h, m : h = header /\ m = image
  OBVIOUS
<1>1. CoverInv(h) /\ CoverInv(m)
  BY <1>0
<1>2. Marked(h) /\ Marked(m)
  <2>1. /\ \A i \in 1..stable : i \in 1..Len(Stream) /\ Stream[i] = log[i]
    BY LogInStream
  <2>2. Marked(h)
    BY <1>0, <2>1 DEF MarkInv, Marked
  <2>3. cp \in {"mark", "save"} => Marked(m)
    BY <1>0, <2>1 DEF MarkInv, Marked
  <2>4. cp = "idle" => Marked(m)
    BY <1>0, <2>2 DEF PhaseInv
  <2> QED
    BY <2>2, <2>3, <2>4 DEF TypeOK
<1>3. ASSUME Works, NEW c, Marked(c), CoverInv(c)
      PROVE  CoverInv(c)'
  BY <1>3, ImageKept, CommitsKept, InsertsKept, ReachKept DEF CoverInv
<1>4. CASE Works
  <2>1. CoverInv(h)' /\ CoverInv(m)'
    BY <1>1, <1>2, <1>3, <1>4
  <2>2. CASE CheckpointStart
    <3>1. header' = h
      BY <1>0, <2>2 DEF CheckpointStart
    <3>2. PICK c : c = image'
      OBVIOUS
    <3>3. CoverInv(c)'
      BY <2>2, <3>2, ImageTaken
    <3> QED
      BY <2>1, <3>1, <3>2, <3>3
  <2>3. CASE (header' = h \/ header' = m) /\ image' = m
    BY <2>1, <2>3
  <2> QED
    BY <1>0, <1>4, <2>2, <2>3, CheckpointStep DEF cpvars
<1>5. CASE ProcessCrash \/ PowerFailure
  <2>1. /\ header' = h /\ image' = h /\ ~up' /\ UNCHANGED <<fate, seen>>
        /\ pc' = [t \in Trx |-> IF pc[t] \in {"idle", "ended"} THEN pc[t] ELSE "gone"]
    BY <1>0, <1>5 DEF ProcessCrash, PowerFailure, Forget
  <2>2. CommitsCovered(h)' /\ InsertsNew(h)'
    BY <1>1, <1>5, <2>1, StreamCrashed, CoverPart DEF CoverInv
  <2>3. ImageInv(h)'
    BY <1>1, <2>1 DEF CoverInv, ImageInv, Committed
  <2>4. StreamReaches(h)'
    BY <2>1 DEF StreamReaches
  <2> QED
    BY <2>1, <2>2, <2>3, <2>4 DEF CoverInv
<1>6. CASE Restart
  <2>1. /\ header' = h /\ image' = h /\ ~up /\ UNCHANGED <<pc, seen>>
    BY <1>0, <1>6 DEF Restart, cpvars, PhaseInv
  <2>2. CommitsCovered(h)' /\ InsertsNew(h)'
    BY <1>1, <1>6, <2>1, StreamRestarted, CoverPart DEF CoverInv
  <2>3. PICK n \in 0..Len(log) : Prefix(Readable(log), n) /\ Len(Readable(log)) = n
    BY LogPrefix
  <2>4. Committed' = Recovered(h, Readable(log))
    <3>1. Recovered(h, Readable(log)) \subseteq Trx
      BY <1>0, <2>3, PrefixFacts
    <3>2. fate' = [t \in Trx |-> IF t \in Recovered(h, Readable(log)) THEN "commit"
                                 ELSE IF pc[t] = "idle" THEN "none" ELSE "abort"]
      BY <1>0, <1>6 DEF Restart
    <3> QED
      BY <3>1, <3>2 DEF Committed
  <2>5. ImageInv(h)'
    BY <1>1, <2>1, <2>4 DEF CoverInv, ImageInv, Recovered
  <2>6. /\ Len(Stream') = n /\ n \in Nat
        /\ \A j \in 1..n : Stream'[j] = Stream[j]
    BY <1>6, <2>3, StreamRestarted
  <2>7. \A t \in Trx : fate'[t] = "commit" => t \in h.committed \/ Has(Stream, n, "commit", t, h)
    BY <1>0, <2>3, <2>4, PrefixRecovered DEF Committed
  <2>8. \A t : Has(Stream, n, "commit", t, h) => Has(Stream', n, "commit", t, h)
    BY <2>6, SameBeginning
  <2>9. \A t \in Trx : pc[t] \in {"idle", "ended", "gone"}
    BY <2>1 DEF StageInv
  <2>10. StreamReaches(h)'
    BY <2>1, <2>6, <2>7, <2>8, <2>9 DEF StreamReaches
  <2> QED
    BY <2>1, <2>2, <2>5, <2>10 DEF CoverInv
<1> QED
  BY <1>4, <1>5, <1>6 DEF Next, Works

-----------------------------------------------------------------------------
(***************************************************************************)
(* Who has its commit in the log, and what is flushed                      *)
(***************************************************************************)

\* A commit record is linked once its transaction can no longer be rolled back.
LEMMA FateStep ==
  ASSUME DurableInv, TypeOK', [Next]_vars
  PROVE  FateInv'
<1> USE DEF DurableInv
<1> DEFINE F(t) == fate[t] = "commit" \/ (fate[t] = "begin" /\ pc[t] \in {"logged", "gone"})
<1> SUFFICES ASSUME NEW j \in 1..Len(Stream'), NEW t \in Trx,
                    Whole(Stream', j), Stream'[j] = Record("commit", t)
             PROVE  F(t)'
  BY DEF FateInv
<1>1. CASE Works
  <2>1. /\ Len(Stream) \in Nat /\ Len(Stream') \in Nat
        /\ \A i \in 1..Len(Stream) : Stream'[i] = Stream[i]
    BY <1>1, StreamGrows
  <2>2. CASE j <= Len(Stream)
    <3>1. j \in 1..Len(Stream) /\ Whole(Stream, j) /\ Stream[j] = Record("commit", t)
      BY <2>1, <2>2 DEF Whole
    <3>2. F(t)
      BY <3>1 DEF FateInv
    <3>3. CASE EndTrx(t)
      BY <3>3 DEF EndTrx, TypeOK
    <3>4. CASE ~EndTrx(t)
      BY <1>1, <3>2, <3>4, WorkStages DEF StageInv, Running
    <3> QED
      BY <3>3, <3>4
  <2>3. CASE j > Len(Stream)
    <3>1. PICK r : Links(r) /\ Linked(r)
      BY <1>1, <2>1, <2>3, WorkStream, LinkStep
    <3>2. r = Record("commit", t)
      BY <2>1, <2>3, <3>1 DEF Linked
    <3>3. CommitLink(t)
      BY <3>1, <3>2, RecordFacts DEF Links
    <3> QED
      BY <3>3 DEF CommitLink, StageInv, Running, TypeOK
  <2> QED
    BY <2>1, <2>2, <2>3
<1>2. CASE ProcessCrash \/ PowerFailure
  <2>1. j \in 1..Len(Stream) /\ Whole(Stream, j) /\ Stream[j] = Record("commit", t)
    BY <1>2, StreamCrashed DEF Whole
  <2>2. F(t)
    BY <2>1 DEF FateInv
  <2>3. /\ fate' = fate
        /\ pc' = [u \in Trx |-> IF pc[u] \in {"idle", "ended"} THEN pc[u] ELSE "gone"]
    BY <1>2 DEF ProcessCrash, PowerFailure, Forget
  <2> QED
    BY <2>2, <2>3
<1>3. CASE Restart
  <2>1. PICK n \in 0..Len(log) : Prefix(Readable(log), n) /\ Len(Readable(log)) = n
    BY LogPrefix
  <2>2. j \in 1..n /\ Stream[j] = Record("commit", t)
    BY <1>3, <2>1, StreamRestarted
  <2>3. t \in Recovered(header, Readable(log))
    BY <2>1, <2>2, PrefixFacts
  <2> QED
    BY <1>3, <2>3 DEF Restart
<1> QED
  BY <1>1, <1>2, <1>3 DEF Next, Works

\* What survives any crash: the commits of the checkpoint, and those behind its
\* mark in the flushed log, before the first hole.
FlushedHas(t) ==
  \E k \in 1..stable :
    Whole(log, k) /\ log[k] = Record("commit", t) /\ Behind(log, k, header)

\* Durable is just that.
LEMMA DurableIs ==
  TypeOK => \A t : t \in Durable <=> t \in header.committed \/ (t \in Trx /\ FlushedHas(t))
<1> SUFFICES ASSUME TypeOK, NEW t
             PROVE  t \in Durable <=> t \in header.committed \/ (t \in Trx /\ FlushedHas(t))
  OBVIOUS
<1>1. PICK n \in 0..stable :
        /\ Prefix(Readable(SubSeq(log, 1, stable)), n)
        /\ n < stable => log[n + 1] = Hole
  BY FlushedPrefix
<1>2. t \in Durable <=> t \in header.committed \/ (t \in Trx /\ Has(Stream, n, "commit", t, header))
  BY <1>1, PrefixRecovered DEF Durable, Survives
<1>3. /\ stable \in Nat /\ stable <= Len(log) /\ Len(log) \in Nat
      /\ \A j \in 1..Len(log) : Stream[j] = log[j]
  BY LogInStream
<1>4. \A i \in 1..n : log[i] # Hole
  BY <1>1, <1>3 DEF Prefix
<1>5. \A k \in 1..stable : Whole(log, k) <=> k <= n
  BY <1>1, <1>3, <1>4 DEF Whole
<1>6. \A k \in 1..n : /\ k \in 1..stable /\ Stream[k] = log[k]
                      /\ Behind(Stream, k, header) <=> Behind(log, k, header)
  BY <1>3 DEF Behind
<1>7. Has(Stream, n, "commit", t, header) => FlushedHas(t)
  BY <1>3, <1>5, <1>6 DEF Has, FlushedHas
<1>8. FlushedHas(t) => Has(Stream, n, "commit", t, header)
  BY <1>3, <1>5, <1>6 DEF Has, FlushedHas
<1> QED
  BY <1>2, <1>7, <1>8

\* The same of the state after a step.
LEMMA DurableIsNext ==
  TypeOK' => (\A t : t \in Durable <=> t \in header.committed \/ (t \in Trx /\ FlushedHas(t)))'
BY DurableIs, PTL

\* The flushed part of the log, before its first hole, is never touched.
LEMMA FlushedKept ==
  ASSUME TypeOK, TypeOK', [Next]_vars, NEW k \in 1..stable, Whole(log, k)
  PROVE  /\ k \in 1..stable' /\ Whole(log', k)
         /\ \A i \in 1..k : log'[i] = log[i]
<1>0. /\ stable \in Nat /\ stable <= Len(log) /\ Len(log) \in Nat /\ log \in Seq(Entries)
      /\ stable' \in Nat
  BY DEF TypeOK, Entries
<1>1. CASE Works
  <2>1. stable <= stable' /\ \A j \in 1..Len(log) : log'[j] = log[j]
    BY <1>1, LogGrows
  <2> QED
    BY <1>0, <2>1 DEF Whole
<1>2. CASE ProcessCrash \/ PowerFailure
  <2>1. stable <= stable' /\ \A j \in 1..stable : log'[j] = log[j]
    BY <1>2, CrashLog
  <2> QED
    BY <1>0, <2>1 DEF Whole
<1>3. CASE Restart
  <2>1. PICK n \in 0..Len(log) :
          /\ Len(Readable(log)) = n
          /\ \A i \in 1..n : Readable(log)[i] = log[i] /\ log[i] # Hole
          /\ n < Len(log) => log[n + 1] = Hole
    BY <1>0, ReadableIsPrefix
  <2>2. k <= n
    BY <1>0, <2>1 DEF Whole
  <2>3. log' = Readable(log) /\ stable' = IF stable < Len(log') THEN stable ELSE Len(log')
    BY <1>3 DEF Restart
  <2> QED
    BY <1>0, <2>1, <2>2, <2>3 DEF Whole
<1> QED
  BY <1>1, <1>2, <1>3 DEF Next, Works

\* A restart finds what it would have found before: all that the checkpoint
\* before has, or has behind its mark, is in the new one or behind the new mark.
LEMMA DurableStep ==
  ASSUME DurableInv, TypeOK', [Next]_vars
  PROVE  Durable \subseteq Durable'
<1> USE DEF DurableInv
<1> PICK h : h = header
  OBVIOUS
<1> SUFFICES ASSUME NEW t \in Durable
             PROVE  t \in header'.committed \/ (t \in Trx /\ FlushedHas(t)')
  BY DurableIsNext
<1>1. t \in h.committed \/ (t \in Trx /\ FlushedHas(t))
  BY DurableIs
<1>2. CASE header' = h
  <2>1. ASSUME FlushedHas(t)
        PROVE  FlushedHas(t)'
    <3>1. PICK k \in 1..stable : Whole(log, k) /\ log[k] = Record("commit", t) /\ Behind(log, k, h)
      BY <2>1 DEF FlushedHas
    <3>2. /\ k \in 1..stable' /\ Whole(log', k)
          /\ \A i \in 1..k : log'[i] = log[i]
      BY <3>1, FlushedKept
    <3>3. Behind(log', k, h) /\ log'[k] = Record("commit", t)
      BY <3>1, <3>2 DEF Behind
    <3> QED
      BY <1>2, <3>2, <3>3 DEF FlushedHas
  <2> QED
    BY <1>1, <1>2, <2>1
<1>3. CASE CheckpointEnd
  <2>1. header' = image /\ UNCHANGED <<log, stable>> /\ cp = "save"
    BY <1>3 DEF CheckpointEnd, diskvars
  <2>2. PICK m : m = image
    OBVIOUS
  <2>3. CASE t \in h.committed
    BY <2>1, <2>3 DEF PhaseInv
  <2>4. CASE t \in Trx /\ FlushedHas(t)
    <3>1. PICK k \in 1..stable : Whole(log, k) /\ log[k] = Record("commit", t)
      BY <2>4 DEF FlushedHas
    <3>2. /\ k \in Nat /\ k \in 1..Len(Stream) /\ \A i \in 1..k : Stream[i] = log[i]
      BY LogInStream
    <3>3. Whole(Stream, k) /\ Stream[k] = Record("commit", t)
      BY <3>1, <3>2 DEF Whole
    <3>4. t \in image.committed \/ Behind(Stream, k, image)
      BY <2>4, <3>2, <3>3 DEF CoverInv, CommitsCovered
    <3>5. Behind(Stream, k, image) => Behind(log, k, image)
      BY <3>2 DEF Behind
    <3>6. Behind(log, k, image) => FlushedHas(t)'
      BY <2>1, <3>1 DEF FlushedHas, Whole, Behind
    <3> QED
      BY <2>1, <2>4, <3>4, <3>5, <3>6
  <2> QED
    BY <1>1, <2>3, <2>4
<1>4. CASE Works /\ ~CheckpointEnd
  BY <1>2, <1>4, CheckpointStep DEF cpvars
<1>5. CASE ProcessCrash \/ PowerFailure \/ Restart
  <2>1. header' = h
    BY <1>5 DEF ProcessCrash, PowerFailure, Forget, Restart, cpvars
  <2> QED
    BY <1>2, <2>1
<1> QED
  BY <1>3, <1>4, <1>5 DEF Next, Works

\* A strict commit is answered when nobody waits for its record any more, that is,
\* when the record is flushed.
LEMMA AnswerStep ==
  ASSUME DurableInv, TypeOK', [Next]_vars
  PROVE  AnswerInv'
<1> USE DEF DurableInv
<1> DEFINE OnItsWay(t) == \E j \in 1..Len(Stream) : Stream[j] = Record("commit", t) /\ Safe(t, j)
<1>1. ASSUME NEW t \in Trx \ Relaxed, pc'[t] \in {"logged", "visible"}
      PROVE  OnItsWay(t)'
  <2>1. Works
    <3>1. CASE ProcessCrash \/ PowerFailure
      BY <1>1, <3>1 DEF ProcessCrash, PowerFailure, Forget
    <3>2. CASE Restart
      BY <1>1, <3>2 DEF Restart, StageInv
    <3> QED
      BY <3>1, <3>2 DEF Next, Works
  <2>2. /\ Len(Stream) \in Nat /\ Len(Stream') \in Nat /\ Len(Stream) <= Len(Stream')
        /\ \A j \in 1..Len(Stream) : Stream'[j] = Stream[j]
    BY <2>1, StreamGrows
  <2>3. CASE pc[t] \in {"logged", "visible"}
    <3>1. PICK j \in 1..Len(Stream) : Stream[j] = Record("commit", t) /\ Safe(t, j)
      BY <2>3 DEF AnswerInv
    <3>2. Safe(t, j)'
      BY <2>1, <3>1, SafeKept
    <3> QED
      BY <2>2, <3>1, <3>2
  <2>4. CASE pc[t] \notin {"logged", "visible"}
    <3>1. CommitLink(t)
      BY <1>1, <2>1, <2>4, WorkStages
    <3>2. Linked(Record("commit", t))
      BY <3>1, LinkStep DEF Links
    <3>3. PICK n \in Nat : n = Len(Stream) + 1
      BY <2>2
    <3>4. n \in 1..Len(Stream') /\ Stream'[n] = Record("commit", t)
      BY <2>2, <3>2, <3>3 DEF Linked
    <3>5. Safe(t, n)'
      BY <3>1 DEF CommitLink, Link, Safe
    <3> QED
      BY <3>4, <3>5
  <2> QED
    BY <2>3, <2>4
<1>2. Durable \subseteq Durable'
  BY DurableStep
<1>3. ASSUME NEW t \in Trx \ Relaxed, Answer(t)
      PROVE  t \in Durable
  <2>1. up /\ pc[t] = "visible" /\ ~Waits(t)
    BY <1>3 DEF Answer
  <2>2. PICK j \in 1..Len(Stream) : Stream[j] = Record("commit", t) /\ Safe(t, j)
    BY <2>1 DEF AnswerInv
  <2>3. j <= stable
    BY <2>1, <2>2 DEF Safe, Waits
  <2>4. PICK n \in 0..stable :
          /\ Prefix(Readable(SubSeq(log, 1, stable)), n)
          /\ n < stable => log[n + 1] = Hole
    BY FlushedPrefix
  <2>5. /\ stable \in Nat /\ stable <= Len(log) /\ Len(log) \in Nat
        /\ Len(Stream) \in Nat /\ Len(log) <= Len(Stream)
        /\ \A i \in 1..Len(log) : Stream[i] = log[i]
    BY LogInStream
  <2>6. n = stable
    BY <2>1, <2>4, <2>5 DEF MarkInv, Whole
  <2>7. j \in 1..n
    BY <2>3, <2>5, <2>6
  <2> QED
    BY <2>2, <2>4, <2>7, PrefixFacts DEF Durable, Survives
<1>4. AnsweredDurable'
  <2> SUFFICES ASSUME NEW t \in told', t \notin Relaxed
               PROVE  t \in Durable'
    BY DEF AnsweredDurable
  <2>1. t \in Trx
    BY DEF TypeOK
  <2>2. t \in told \/ Answer(t)
    <3>1. CASE ProcessCrash \/ PowerFailure \/ Restart
      BY <3>1 DEF ProcessCrash, PowerFailure, Forget, Restart
    <3>2. CASE Works
      BY <2>1, <3>2, WorkStages
    <3> QED
      BY <3>1, <3>2 DEF Next, Works
  <2>3. t \in Durable
    BY <1>3, <2>1, <2>2 DEF AnswerInv, AnsweredDurable
  <2> QED
    BY <1>2, <2>3
<1> QED
  BY <1>1, <1>4 DEF AnswerInv

-----------------------------------------------------------------------------
(***************************************************************************)
(* The theorems                                                            *)
(***************************************************************************)

\* The invariant holds of a database in use, just after its first checkpoint.
LEMMA DurableInit == Init => DurableInv
<1> SUFFICES ASSUME Init PROVE DurableInv
  OBVIOUS
<1>1. TypeOK
  BY TypeInit
<1>2. /\ queue = << >> /\ thread = "check" /\ log = <<Mark(Empty)>> /\ stable = 1
      /\ header = Empty /\ image = Empty /\ cp = "idle" /\ crashes = 0 /\ up
      /\ batch = << >> /\ flushwait = {} /\ spacewait = {} /\ batchwait = {}
      /\ \A t \in Trx : pc[t] = "idle" /\ fate[t] = "none" /\ seen[t] = {}
      /\ tree = {} /\ told = {}
  BY DEF Init
<1>3. /\ Stream = log /\ Len(log) = 1 /\ log[1] = Mark(Empty)
      /\ Empty.num = 0 /\ Empty.ts = 0 /\ Empty.tree = {} /\ Empty.committed = {}
  BY <1>1, <1>2, StreamIsLog DEF Empty
<1>4. \A j \in 1..Len(Stream) : Stream[j] = Mark(Empty)
  BY <1>3
<1>5. \A t : \A j \in 1..Len(Stream), k \in {"insert", "commit"} : Stream[j] # Record(k, t)
  BY <1>4, RecordFacts
<1>6. StageInv /\ PhaseInv
  BY <1>2 DEF StageInv, PhaseInv, Running, Rowed
<1>7. WaitInv
  BY <1>2 DEF WaitInv, WriterAwake
<1>8. MarkInv
  <2>1. Whole(Stream, Len(Stream))
    BY <1>4, RecordFacts DEF Whole
  <2>2. 1 \in 1..stable /\ log[1] = Mark(header) /\ Whole(log, 1)
    BY <1>2, <1>3, <2>1
  <2>3. \A j \in 1..Len(Stream) : Stream[j].ts = crashes /\ Stream[j].of <= image.num
    BY <1>2, <1>3, <1>4 DEF Mark
  <2> QED
    BY <1>2, <1>3, <2>1, <2>2, <2>3 DEF MarkInv
<1>9. CoverInv(Empty)
  <2>1. ImageInv(Empty)
    BY <1>3 DEF ImageInv
  <2>2. CommitsCovered(Empty) /\ InsertsNew(Empty)
    BY <1>5 DEF CommitsCovered, InsertsNew
  <2>3. StreamReaches(Empty)
    BY <1>2 DEF StreamReaches
  <2> QED
    BY <2>1, <2>2, <2>3 DEF CoverInv
<1>10. FateInv
  BY <1>5 DEF FateInv
<1>11. AnswerInv
  BY <1>2 DEF AnswerInv, AnsweredDurable
<1> QED
  BY <1>1, <1>2, <1>6, <1>7, <1>8, <1>9, <1>10, <1>11 DEF DurableInv

\* Every step keeps it.
LEMMA DurableNext ==
  ASSUME DurableInv, [Next]_vars
  PROVE  DurableInv'
<1>1. TypeOK'
  BY TypeStep DEF DurableInv, MarkInv
<1>2. StageInv' /\ PhaseInv' /\ WaitInv' /\ MarkInv'
  BY <1>1, StageStep, PhaseStep, WaitStep, MarkStep DEF DurableInv, CoverInv
<1>3. CoverInv(header)' /\ CoverInv(image)' /\ FateInv' /\ AnswerInv'
  BY <1>1, CoverStep, FateStep, AnswerStep
<1> QED
  BY <1>1, <1>2, <1>3 DEF DurableInv

\* The invariant that the theorems below rest on: where each transaction and the
\* checkpoint are, who waits for what, and what the log, with all that is on its
\* way to it, has behind the marks of the two checkpoints.
THEOREM DurableInvariant == Spec => []DurableInv
<1>1. DurableInv /\ [Next]_vars => DurableInv'
  BY DurableNext
<1> QED
  BY <1>1, DurableInit, PTL DEF Spec

\* The types; what is flushed is part of the file.
THEOREM TypesCorrect == Spec => []TypeOK
<1>1. DurableInv => TypeOK
  BY DEF DurableInv
<1> QED
  BY <1>1, DurableInvariant, PTL

\* A strict commit that was answered, after dbe_log_waitflushmes has returned, is
\* found by every restart, whatever checkpoint the header has by then.
THEOREM AnswersDurable == Spec => []AnsweredDurable
<1>1. DurableInv => AnsweredDurable
  BY DEF DurableInv, AnswerInv
<1> QED
  BY <1>1, DurableInvariant, PTL

\* The mark of the checkpoint in the header is in the flushed log, where
\* dbe_rollfwd_scancommitmarks finds it.
THEOREM MarksFlushed == Spec => []MarkFlushed
<1>1. DurableInv => MarkFlushed
  BY DEF DurableInv, MarkInv, MarkFlushed
<1> QED
  BY <1>1, DurableInvariant, PTL

\* What a restart finds in any of the logs that it may meet: transactions with
\* their rows and with what they have seen, none of them rolled back, and no row
\* of the image to insert again.
LEMMA RestartFinds ==
  ASSUME DurableInv, NEW l \in Ends
  PROVE  /\ Recovered(header, l) \subseteq RecoveredTree(header, l)
         /\ RowsRedone(header, l) \cap header.tree = {}
         /\ \A t \in Recovered(header, l) :
              seen[t] \subseteq Recovered(header, l) /\ fate[t] # "abort"
<1>1. PICK n \in 0..Len(Stream) : Prefix(l, n)
  BY EndsArePrefixes DEF DurableInv
<1>2. TypeOK /\ CoverInv(header) /\ FateInv
  BY DEF DurableInv
<1>3. \A t \in Recovered(header, l) :
        seen[t] \subseteq Recovered(header, l) /\ fate[t] \in {"commit", "begin"}
  BY <1>1, <1>2, PrefixFacts
<1> QED
  BY <1>1, <1>2, <1>3, PrefixFacts

\* A restart finds every row of every transaction it finds committed: none is
\* between index and log when a checkpoint takes the image (the exclusive gate of
\* db_createcp_start).
THEOREM RowsRecovered == Spec => []RowsComplete
<1>1. DurableInv => RowsComplete
  BY RestartFinds DEF RowsComplete
<1> QED
  BY <1>1, DurableInvariant, PTL

\* With a transaction a restart finds every commit that it could see at its
\* begin: dbe_gtrs_endtrx shows a commit after its record is in the queue.
THEOREM SeenIsRecovered == Spec => []SeenRecovered
<1>1. DurableInv => SeenRecovered
  BY RestartFinds DEF SeenRecovered, Recoveries
<1> QED
  BY <1>1, DurableInvariant, PTL

\* No restart finds committed what was rolled back, or what a restart before has
\* dropped (dbe_trxbuf_cleanuncommitted).
THEOREM AbortedNotRecovered == Spec => []AbortedStays
<1>1. DurableInv => AbortedStays
  BY RestartFinds DEF AbortedStays, Recoveries
<1> QED
  BY <1>1, DurableInvariant, PTL

\* The roll-forward inserts no row of the image again: the mark is told by its
\* number and its time (dbe4rfwd.c:1411).
THEOREM RowsRedoneOnce == Spec => []RedoOnce
<1>1. DurableInv => RedoOnce
  BY RestartFinds DEF RedoOnce
<1> QED
  BY <1>1, DurableInvariant, PTL

\* The write thread never sleeps without a message while a transaction or the
\* checkpoint waits (logf_writequeue_flushthr): the message it throws away in
\* SsMesReset was for records it looks at next.
THEOREM WriterStaysAwake == Spec => []WriterAwake
<1>1. DurableInv => WriterAwake
  BY DEF DurableInv, WaitInv
<1> QED
  BY <1>1, DurableInvariant, PTL

\* No step takes away a commit that would survive a crash, neither a crash nor the
\* checkpoint that replaces the one before (dbe_db_createcp_end).
THEOREM NothingForgotten == Spec => DurableGrows
<1>1. DurableInv /\ DurableInv' /\ [Next]_vars
        => [Durable \subseteq Survives(header', log', stable')]_vars
  <2>1. ASSUME DurableInv, DurableInv', [Next]_vars
        PROVE  Durable \subseteq Durable'
    BY <2>1, DurableStep DEF DurableInv
  <2> QED
    BY <2>1 DEF Durable
<1> QED
  BY <1>1, DurableInvariant, PTL DEF Spec, DurableGrows
=============================================================================
