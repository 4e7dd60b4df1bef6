SPECIFICATION FairSpec
CONSTANTS
  Trx = {t1, t2}
  NewTrxWaitReadLevel = TRUE
  RelaxedReadLevel = FALSE
  EarlyVld = FALSE
  Failures = TRUE
  Releases = FALSE
PROPERTIES CommitBecomesVisible WaitReadLevelEnds
CHECK_DEADLOCK FALSE
