SPECIFICATION Spec
CONSTANTS
  t1 = t1
  t2 = t2
  n1 = n1
  n2 = n2
  Tran = {t1, t2}
  Name = {n1, n2}
  Modes = {6}
  Classes = {3, 4}
  MaxCount = 2
  MaxQueue = 4
  Conversions = FALSE
  Timeouts = TRUE
  FailOnTimeout = TRUE
  None = None
INVARIANTS
  ClaimCovered
  NoOrphans
