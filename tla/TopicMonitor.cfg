SPECIFICATION HSpec
CONSTANTS
  Lambdas = {small}
  Signal = "published"
  SafetyCritical = {small, "published"}
  AutonomyCritical = {"published"}
  Passes = {guard}
  MaxGap = 1
  Window = 2
  Throttle = 2
  CheckPeriod = 1
INVARIANTS
  TypeOK
  AliveIsRecent
PROPERTIES
  BadContentIsSeen
  SteadyTopicLives
