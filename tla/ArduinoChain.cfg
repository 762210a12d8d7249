SPECIFICATION HSpec
CONSTANTS
  FailureLimit = 2
  ArduinoTimeout = 1
  CheckPeriod = 2
  MarkTimeout = 2
  NoncritVerdicts = {FALSE}
  DeadmanTimeout = 0
  HeartbeatTimeout = 1
  Grace = 1
  StartupDelay = 1
INVARIANTS
  ChainTypeOK
PROPERTIES
  ChainIsWatchdog
  DeadLinkDisables
