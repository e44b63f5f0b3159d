SPECIFICATION Spec
CONSTANTS
    Scale = 4
    MaxPosition = 4
    Ceiling = 8
    Fraction <- FullFractions
    Sleeves = {"spread_capture"}
    Windows <- TwoWindows
    Quotes <- TwoQuotes
    Par = 6
    Fee = 1
    Limit <- EqualLimits
    Sizes = {2}
    Latency = 1
    Lag = 1
    MaxStale = 1
    MinBet = 1
    MaxOpen = 2
    MaxLosses = 2
    Pause = 1
    Delays = {1, 4}
    Configs <- TwoConfigs
    Balance = 10
    Horizon = 5
    MaxGap = 2
    MaxGroups = 4
    MaxSignals = 4
INVARIANTS
  ReserveIsExposure
  ForeignQuoteOnlyAtBoundary
  OutcomesAreCounted
  ResultCoversClosedMarkets
