SPECIFICATION FairSpec

CONSTANTS
    Actions = {"arm"}
    MaxCommands = 1
    MaxPermits = 1
    MaxFeedback = 1
    MaxFaults = 1
    FailureKinds = {"preflight"}
    RemoteStates = {"healthy"}
    Threshold = 2
    FeedOutages = {TRUE, FALSE}

CHECK_DEADLOCK FALSE

PROPERTIES
    MergeKeepsTerminal
    CriticalStopsTrading
