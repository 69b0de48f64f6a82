\* Crashes, power failures and restarts at every step of the history file, on a disk
\* on which a write may never end.
SPECIFICATION StuckDiskSpec
CONSTANTS
  Capacity = 2
  Window = 2
  Downtimes = {0, 2}
  MaxTime = 4
  MaxBoots = 3
  MaxStrays = 1
INVARIANTS
  TypeOK
  FileComplete
  PersistedSurvives
  CleanShutdownComplete
  TempsBounded
PROPERTIES
  FileNeverRegresses
  ShutdownEnds
  TicksGoOn
CHECK_DEADLOCK FALSE
