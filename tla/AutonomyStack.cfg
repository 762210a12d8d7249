SPECIFICATION HSpec
CONSTANTS
  UpdateTimeout = 2
  RequiredState = "active"
  RequireAutonomous = TRUE
  FirstMode = "none"
  Period = 1
  Delay = 1
  Depth = 2
INVARIANTS
  TypeOK
  AllowedIsRecent
  StopsWithinDelay
PROPERTIES
  CalmRobotIsAllowed
