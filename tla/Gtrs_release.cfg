SPECIFICATION Spec
CONSTANTS
  Trx = {t1, t2, t3}
  NewTrxWaitReadLevel = TRUE
  RelaxedReadLevel = TRUE
  EarlyVld = TRUE
  Failures = FALSE
  Releases = TRUE
INVARIANTS MergeBelowReaders ReadLevelsSorted StorageOnlyComplete MergeWritesKept TypeOK SnapshotClosed NumbersUnique ValidatesSorted
PROPERTIES ImplementsSnapshot SnapshotStable
SYMMETRY Symmetry
CHECK_DEADLOCK FALSE
