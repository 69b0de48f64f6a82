SPECIFICATION Spec
CONSTANTS
  Second = 1
  Resolution = 2
  MaxDuration = 50000
  Saturates = FALSE
  MaxHistoryCapacity = 3
  MaxProcessesTopN = 100
  ZoneLists <- MCZoneLists
  Preferred <- MCPreferred
  DetectRetryInterval = 2
  MaxChanges = 1
  LastChange = 2
  Inputs <- MCInputs
  VcgencmdTimeout = 1
  StatfsTimeout = 1
  Mounts = 2
  AptTimeout = 2
  Patience = 1
  MaxTime = 21
INVARIANTS
  NotMistakenForStalled
  ReadingsComplete
  UsableConfig
CHECK_DEADLOCK FALSE
