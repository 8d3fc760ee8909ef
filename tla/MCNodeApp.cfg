SPECIFICATION FairSpec
CONSTANTS
  RegTable <- Table
  WorkModes = {"normal", "DIHAVST4"}
  Users = {shell}
  Commands <- Scripts
  Targets <- Nodes
  MaxCommands = 1
  MaxLag = 2
  MaxAir = 1
INVARIANTS PollingAlive
PROPERTIES ReportedDone EverySubnetPolled
CHECK_DEADLOCK FALSE
