\* What a relaxed commit is promised: no crash and no checkpoint, one relaxed
\* transaction whose two records are below the limit that sends a message.
SPECIFICATION LazySpec
CONSTANTS
  t1 = t1
  Trx = {t1}
  Relaxed = {t1}
  Checkpointer = Checkpointer
  QueueMax = 4
  FlushLimit = 3
  MaxCheckpoints = 0
  MaxCrashes = 0
PROPERTY
  RelaxedWritten
CHECK_DEADLOCK FALSE
