\* Two sources that work, wrap, vanish, are replaced and renamed between reads
\* that may fail.
SPECIFICATION Spec
CONSTANTS
  Names = {1, 2}
  Excluded = {2}
  Width = 3
  Cores = 2
  TopN = 1
  Steps = {1}
  MaxTime = 2
  MaxWork = 3
PROPERTIES
  NeverOverstated
  SteadyExact
  OwnUsage
CHECK_DEADLOCK FALSE
