SPECIFICATION Spec
CONSTANTS
  t1 = t1
  t2 = t2
  n1 = n1
  Tran = {t1, t2}
  Name = {n1}
  Modes = {3, 6}
  Classes = {3}
  MaxCount = 2
  MaxQueue = 4
  Conversions = TRUE
  Timeouts = FALSE
  FailOnTimeout = FALSE
  None = None
PROPERTIES
  UnlockAllUnlocks
CHECK_DEADLOCK FALSE
