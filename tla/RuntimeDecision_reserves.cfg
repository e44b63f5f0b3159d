SPECIFICATION Spec

CONSTANTS
    Scale = 4
    MaxPosition = 2
    Ceiling = 3
    Fraction <- MCFraction
    Sleeves = {"latency_arb"}
    Strategies = {"latency_arb", "spread_capture"}
    NumMarkets = 2
    MaxOrders = 3
    QueueCapacity = 1
    Directions = {"up"}
    SingleCosts = {2}
    Fee = 1
    SeedCosts = {0, 1}
    Configs <- MCConfigs

CHECK_DEADLOCK FALSE
INVARIANTS
  BucketsAgree
  ReservesCoverExposure
  NothingLeaks
  CommittedWithinCeiling
  NoDoubleExposure
