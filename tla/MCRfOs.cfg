SPECIFICATION FairSpec
CONSTANTS
  TimerNum = 2
  MaxValue = 1
  NoHandleMod = 2
  QMax = 3
  HandlerOps = 1
  Posters = {p1}
  RfTask = rf
  NoTask = none
INVARIANTS TypeOK ListExclusive OneRxReady NoBadDestination
PROPERTIES FifoSpec EveryMessageServed EveryTimeoutDispatched
