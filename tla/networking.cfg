SPECIFICATION Spec
CONSTANTS
  Client <- MCClient
  MaxEvents = 4
  MaxFaults = 3
INVARIANTS
  TypeOK
  SetupComplete
  Isolated
  ResetComplete
