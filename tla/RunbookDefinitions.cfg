SPECIFICATION Spec
CONSTANTS
  MaxDrifts = 1
  MaxPorts = 10
INVARIANTS
  SkippedWasThere
  RollbackSeesDrift
  CleanRunSucceeds
  HumanConfirms
CHECK_DEADLOCK FALSE
