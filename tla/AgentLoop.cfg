SPECIFICATION FairSpec
CONSTANTS
  Rounds = 1
  HighRiskRounds = 2
  MaxLines = 2
INVARIANTS
  ChangesGuarded
PROPERTIES
  RunEnds
CHECK_DEADLOCK FALSE
