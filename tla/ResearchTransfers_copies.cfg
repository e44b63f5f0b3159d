\* One transfer of an artifact of two files, two machines that may serve it.
SPECIFICATION Spec
CONSTANTS
  Transfers <- OneTransfer
  Machines <- MCMachines
  Custom <- MCCustom
  Source = "bot"
  Dashboard = "desk"
  Export = "export"
  NoMachine = "any"
  Total = 2
  Reports <- MCReports
  MaxCommands = 3
  MaxFaults = 1
CHECK_DEADLOCK FALSE
INVARIANTS
  RootIsWhole
  CompletedIsBacked
PROPERTIES
  TransferSettles
