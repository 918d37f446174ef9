SPECIFICATION Spec
CONSTANTS
  MaxPlans = 3
  MaxSteps = 2
  MaxUndos = 2
INVARIANTS
  Accounted
  UndoRestores
PROPERTIES
  HistoryKeeps
CHECK_DEADLOCK FALSE
