SPECIFICATION FairSpec

CONSTANTS
    Tokens <- MCTokens
    Batches <- Singles
    QueueCapacity = 1
    MaxIntents = 2
    MaxSessions = 1
    MaxFaults = 0
    MaxSessionOrders = 0
    MaxSessionFills = 0
    DryRun <- NoRehearsal
    ReconcileEnabled = TRUE
    PromptGate = FALSE

CHECK_DEADLOCK FALSE

INVARIANTS
    PhantomNeverHides
PROPERTIES
    PendingFillIsSettled
