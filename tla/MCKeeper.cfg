SPECIFICATION MCSpec
CONSTANTS
  LOG_POOL_SIZE = 2
  MaxStuck = 2
  Table = 3
  Period <- Periods
  PollTime = 4
  Deadline = 15
INVARIANTS FedInTime
PROPERTIES Recovers LogsGoOn
CHECK_DEADLOCK FALSE
