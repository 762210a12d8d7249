SPECIFICATION HSpec
CONSTANTS
  N = 2
  PassPeriod = 2
  SafeTimeout = 3
  AutoTagging = TRUE
INVARIANTS
  TypeOK
  SafeAfterCleanTimeout
  EventsTellTheBeat
PROPERTIES
  TrueBeatMissesNoDeath
  FailureIsReported
  RecoveryIsReported
