SPECIFICATION FairSpec
CONSTANTS
  MaxEntries = 2
  Unreliable = TRUE
INVARIANTS
  TypeOK
  UnlockedIsProtected
  BackupHasPassword
  OnlyConfirmedHost
  FailedEntryForgets
PROPERTIES
  EntryEnds
  SafeModeComesFree
CHECK_DEADLOCK FALSE
