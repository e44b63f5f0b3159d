SPECIFICATION Spec

CONSTANTS
    Tokens <- MCTokens
    Batches <- SinglesAndSpreads
    QueueCapacity = 1
    MaxIntents = 3
    MaxSessions = 3
    MaxFaults = 1
    MaxSessionOrders = 2
    MaxSessionFills = 1
    DryRun <- RehearseFirst
    ReconcileEnabled = TRUE
    PromptGate = FALSE

CHECK_DEADLOCK FALSE
INVARIANTS
  DurableBeforeVenue
  NoRestartPastVenue
  OrderCapPerRunDb
  FeedbackAccountsForBatch
  NoSilentFill
