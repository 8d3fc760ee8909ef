SPECIFICATION Spec
CONSTANTS
  V1 = V1
  V2 = V2
  a = a
  b = b
  Versions = {V1, V2}
  Contents = {a, b}
  UploadOrders <- Orders
  ShellOrders <- ShellCommands
  MaxOrders = 2
  MaxCuts = 2
SYMMETRY Symmetry
INVARIANTS Sound AskedFor Installed
CHECK_DEADLOCK FALSE
