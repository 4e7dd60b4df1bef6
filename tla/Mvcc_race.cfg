SPECIFICATION Spec
CONSTANTS
  Trx = {t1, t2}
  Writers = {t1}
  Readers = {t2}
  Rows = {1, 2, 3}
  Stored = {3}
  BonsaiLeaf <- MCBonsaiLeaf
  StorageLeaf <- MCStorageLeaf
  Leaves = 2
  MaxId = 2
  MaxWrites = 1
  MaxMerges = 1
  EarlyErrors = FALSE
  InitRace = TRUE
INVARIANTS
  SearchesMarked
CHECK_DEADLOCK FALSE
