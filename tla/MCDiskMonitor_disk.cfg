\* Two filesystems that come, go, fail and hang, up to the events of their alerts.
SPECIFICATION DiskSpec
CONSTANTS
  ScalarOrder <- MCNoScalars
  Mounts = {"sda", "sdb"}
  Values <- MCValues
  Warn <- MCLimits
  Crit <- MCLimits
  For = 1
  Steps <- MCSteps
  MaxEvents = 3
  MaxTime = 5
  Interval = 1
  Timeout = 1
  Cooldown = 2
  Capacity = 2
INVARIANTS
  ParkedBounded
  CooldownIsBounded
  SeriesCoverWindow
  EventChain
PROPERTIES
  ImplementsLevels
CHECK_DEADLOCK FALSE
