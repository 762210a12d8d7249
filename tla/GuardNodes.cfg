SPECIFICATION HSpec
CONSTANTS
  Managed <- ManagedSeq
  Flaky = {"a"}
  ServiceWait = 1
  Depth = 2
  UpdateTimeout = 1
  RequiredState = "active"
  RequireAutonomous = TRUE
  FirstMode = "manual"
INVARIANTS
  TypeOK
  GuardedOnlyInTime
PROPERTIES
  NodesFollowInTheEnd
