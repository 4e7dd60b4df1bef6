SPECIFICATION FairSpec
CONSTANTS
  t1 = t1
  t2 = t2
  t3 = t3
  n1 = n1
  Tran = {t1, t2, t3}
  Name = {n1}
  Modes = {3, 6}
  Classes = {3}
  MaxCount = 2
  MaxQueue = 4
  Conversions = FALSE
  Timeouts = TRUE
  FailOnTimeout = TRUE
  None = None
INVARIANTS
  TypeOK
  ClaimsCompatible
  GrantedModeExact
  NoStuckWaiter
  NoOvertaking
PROPERTIES WaitEnds
