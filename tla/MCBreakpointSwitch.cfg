SPECIFICATION Spec
CONSTANTS
  R = 2
  Full = 1
  EofKinds <- PastEof
  MaxRec = 5
  MaxFail = 1
  MaxCrash = 0
INVARIANT SavedKept
CHECK_DEADLOCK FALSE
