SPECIFICATION FairSpec
CONSTANTS
  R = 2
  Full = 2
  EofKinds <- AnyEof
  MaxRec = 6
  MaxFail = 2
  MaxCrash = 1
INVARIANTS NothingPassedOver OpenHandles
PROPERTIES InOrder Drains
CHECK_DEADLOCK FALSE
