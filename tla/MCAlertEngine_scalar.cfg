\* One metric, a long run: the debounce windows of both thresholds.
SPECIFICATION Spec
CONSTANTS
  ScalarOrder <- MCOneScalar
  Mounts = {}
  Values <- MCThreeValues
  Warn <- MCWarn
  Crit <- MCCrit
  For = 3
  Steps <- MCSteps
  MaxEvents = 1
  MaxTime = 8
INVARIANTS
  TypeOK
  PromptEscalation
  PromptRecovery
PROPERTIES
  NoSpuriousTransition
CHECK_DEADLOCK FALSE
