SPECIFICATION FairSpec
CONSTANTS
  MaxPlans = 1
  MaxEntries = 2
INVARIANTS
  ExecutorMatchesSession
PROPERTIES
  LeavesClosed
  InputComesBack
