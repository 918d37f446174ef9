SPECIFICATION FairSpec
CONSTANTS
  MaxCalls = 2
  MaxDecisions = 1
  CancelAgent = FALSE
  CancelOp = TRUE
INVARIANTS
  TypeOK
  OwnOutputOnly
  KeptOnlyByCommit
PROPERTIES
  CallsReturn
  SafeModeSettles
CHECK_DEADLOCK FALSE
