SPECIFICATION Spec
CONSTANTS
  MaxAsks = 3
  MaxChanges = 2
  MaxWork = 4
  MaxChats = 2
  MaxHistory = 3
  DiskFails = TRUE
INVARIANTS
  ConversationsApart
  NothingForgotten
  ModelKnowsTheChat
PROPERTIES
  SavedTurnsKept
CHECK_DEADLOCK FALSE
