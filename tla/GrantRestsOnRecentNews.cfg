SPECIFICATION WaitSpec
CONSTANTS
  UpdateTimeout = 1
  RequiredState = "active"
  RequireAutonomous = TRUE
  FirstMode = "none"
  Period = 1
  Delay = 0
  Depth = 2
  Timeout = 1
PROPERTIES
  GrantRestsOnRecentNews
