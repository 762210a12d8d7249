SPECIFICATION HSpec
CONSTANTS
  N = 1
  PassPeriod = 2
  SafeTimeout = 3
  AutoTagging = TRUE
  Refreshing = FALSE
  NodeMonitors = {1}
  OtherNodes = FALSE
  PollPeriod = 2
  SeenTimeout = 2
INVARIANTS
  TrueBeatMeansHealthy
CHECK_DEADLOCK FALSE
