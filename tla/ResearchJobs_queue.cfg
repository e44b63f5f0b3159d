\* One backtest or export job, two workers.
SPECIFICATION Spec
CONSTANTS
  Jobs <- OneJob
  Workers <- MCWorkers
  Plans <- MCPlans
  MaxAttempts = 2
  MaxCommands = 2
  MaxFaults = 2
  MaxEvents = 3
CHECK_DEADLOCK FALSE
INVARIANTS
  WedgeTakesTwoCommands
  ExportIsWhole
PROPERTIES
  LedgerRefined
  JobSettles
