SPECIFICATION FairSpec
CONSTANTS
  Builds = {TRUE, FALSE}
  Incoming <- All
  MaxIn = 2
  MaxReq = 2
  MaxResend = 2
  MaxDis = 3
INVARIANTS NoOrphan RetryBound
PROPERTY Quiesces
CHECK_DEADLOCK FALSE
