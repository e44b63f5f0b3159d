\* Two feed rows, or one trade id on a run database that may have been used; every flush
\* and every write of an event may fail, for good or not.
SPECIFICATION MCSpec
CONSTANTS
  FeedCap = 1
  EvidenceCap = 1
  BatchSize = 2
  BlockRows = 2
  Trades = {t1}
  Modes = {TRUE, FALSE}
  MaxRows = 2
CHECK_DEADLOCK FALSE
INVARIANTS
  LossIsVisible
  LedgerGapIsVisible
PROPERTIES
  CaptureLossStopsTrading
