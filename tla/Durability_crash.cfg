SPECIFICATION FairSpec
CONSTANTS
  t1 = t1
  t2 = t2
  Trx = {t1, t2}
  Relaxed = {t2}
  Checkpointer = Checkpointer
  QueueMax = 3
  FlushLimit = 2
  MaxCheckpoints = 1
  MaxCrashes = 1
INVARIANTS
  TypeOK
  AnsweredDurable
  MarkFlushed
  RowsComplete
  SeenRecovered
  AbortedStays
  RedoOnce
  WriterAwake
PROPERTIES
  DurableGrows
  GateLeft
CHECK_DEADLOCK FALSE
