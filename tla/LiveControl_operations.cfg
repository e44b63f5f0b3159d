SPECIFICATION FairSpec

CONSTANTS
    Actions <- CommandActions
    MaxCommands = 2
    MaxPermits = 0
    MaxFeedback = 0
    MaxFaults = 1
    FailureKinds = {"preflight"}
    RemoteStates = {"healthy", "terminal", "down"}
    Threshold = 2
    FeedOutages = {FALSE}

CHECK_DEADLOCK FALSE

INVARIANTS
    StateIsRecorded
    CommandsInOrder

PROPERTIES
    KillSwitchAnswered
    TerminalGateHalts
