SPECIFICATION Spec
CONSTANTS
  t1 = t1
  t2 = t2
  t3 = t3
  n1 = n1
  Tran = {t1, t2, t3}
  Name = {n1}
  Modes = {3, 5, 6}
  Classes = {3}
  MaxCount = 3
  MaxQueue = 5
  Conversions = TRUE
  Timeouts = FALSE
  FailOnTimeout = FALSE
  None = None
INVARIANTS
  ClaimsCompatible
  ClaimCovered
  NoStuckWaiter
SYMMETRY Symmetry
CHECK_DEADLOCK FALSE
