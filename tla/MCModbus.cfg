SPECIFICATION FairSpec
CONSTANTS
  Commands <- AllOrders
  Chunks = 2
  Retries = 2
  NoAnswers = 3
  Errors = 3
  MaxFaults = 2
  MaxCommands = 1
  MaxSets = 1
INVARIANTS  EndAfterWrites
PROPERTIES ResetAfterSilence Answered Gathers
CHECK_DEADLOCK FALSE
