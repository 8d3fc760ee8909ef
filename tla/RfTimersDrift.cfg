SPECIFICATION DriftSpec
CONSTANTS
  TimerNum = 2
  MaxValue = 4
  NoHandleMod = 4
  MaxAge = 6
INVARIANTS NeverEarly LagBounded
