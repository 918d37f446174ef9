SPECIFICATION Spec
CONSTANTS
  MaxPlans = 2
  MaxEntries = 1
INVARIANTS
  TypeOK
  AppliedOnlyIfApproved
