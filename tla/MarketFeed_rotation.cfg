\* Two windows; the second one is still open at the last tick.
SPECIFICATION Spec
CONSTANTS
  LastWindow = 2
  Span = 2
  Pause = 2
  MaxFailures = 1
  FeedCap = 1
  ResubCap = 2
  Horizon = 3
CHECK_DEADLOCK FALSE
INVARIANTS
  WindowInOnePlace
  HealthFollowsFeed
PROPERTIES
  WindowArrives
  BookFollowsWindow
