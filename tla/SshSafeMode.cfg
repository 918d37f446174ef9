SPECIFICATION Spec
CONSTANTS
  MaxCalls = 2
  MaxDecisions = 2
  CancelAgent = TRUE
  CancelOp = FALSE
INVARIANTS
  CommitIsKept
  NoUnprotectedCommand
  BeliefMatchesRouter
PROPERTIES
  ImplementsContract
CHECK_DEADLOCK FALSE
