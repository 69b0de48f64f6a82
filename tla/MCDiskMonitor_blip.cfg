\* Can a read that fails or hangs clear an alert?
SPECIFICATION DiskSpec
CONSTANTS
  ScalarOrder <- MCNoScalars
  Mounts = {"sda"}
  Values <- MCValues
  Warn <- MCLimits
  Crit <- MCLimits
  For = 0
  Steps <- MCSteps
  MaxEvents = 1
  MaxTime = 3
  Interval = 1
  Timeout = 1
  Cooldown = 3
  Capacity = 2
PROPERTIES
  ClearedOnlyIfGone
CHECK_DEADLOCK FALSE
