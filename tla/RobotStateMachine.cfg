SPECIFICATION HSpec
CONSTANTS
  DeadmanTimeout = 1
  CritTimeout = 1
  NoncritTimeout = 2
  Grace = 3
  StartupDelay = 2
INVARIANTS
  TypeOK
  NoResumeThroughDisabled
  LostBeatStopsRobot
  ManualActiveIsAttended
PROPERTIES
  FullGraceBeforeResume
  ImplementsInterface
  SilentCriticalDisables
  ArmedResumeHappens
