SPECIFICATION Spec
CONSTANTS
  UpdateTimeout = 2
  RequiredState = "active"
  RequireAutonomous = TRUE
  FirstMode = "manual"
  Timeout = 2
PROPERTIES
  WaitReturns
