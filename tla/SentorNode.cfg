SPECIFICATION HSpec
CONSTANTS
  N = 2
  PassPeriod = 2
  SafeTimeout = 3
  AutoTagging = TRUE
  Refreshing = TRUE
  NodeMonitors = {2}
  OtherNodes = FALSE
  PollPeriod = 2
  SeenTimeout = 2
INVARIANTS
  SentorTypeOK
  TrueBeatIsRecent
  
PROPERTIES
  
  HealthIsReported
CHECK_DEADLOCK FALSE
