\* Does a clean shutdown lose anything?
SPECIFICATION Spec
CONSTANTS
  Capacity = 3
  Window = 0
  Downtimes = {0}
  MaxTime = 3
  MaxBoots = 1
  MaxStrays = 0
INVARIANTS
  ShutdownLosesLittle
CHECK_DEADLOCK FALSE
