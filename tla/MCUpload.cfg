SPECIFICATION FairSpec
CONSTANTS
  Tasks = {1, 2}
  Devices <- Table
  Commands = {"collect", "config", "update", "router"}
  TX_RECORDS = 1
  MaxSamples = 2
  MaxFaults = 1
  MaxCommands = 1
INVARIANTS Accounted
PROPERTIES WholeOrRaced InOrder Reconnected Drained
CHECK_DEADLOCK FALSE
