SPECIFICATION Spec
CONSTANTS
  Routers = {r1, r2}
  MaxAttempts = 2
  Faults = {{}, {"kill", "disk"}, {"overlap", "single"}}
INVARIANTS
  TypeOK
  PinConfirmed
  CredentialsKept
  FailureRestores
  RegisteredIsComplete
PROPERTIES
  ConnectComesBack
CHECK_DEADLOCK FALSE
