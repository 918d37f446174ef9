SPECIFICATION Spec
CONSTANTS
  Routers = {r1}
  MaxAttempts = 2
  Faults = {{}}
INVARIANTS
  PinnedForBoth
CHECK_DEADLOCK FALSE
