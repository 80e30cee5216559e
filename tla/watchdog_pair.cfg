SPECIFICATION Spec
CONSTANTS
  Node <- MCPair
  Order <- MCPairOrder
  ProcessOnly <- MCMavros
  Software = {}
  Threshold = 3
  Cooldown = 5
  Poll = 1
  TermWait = 1
  KillWait = 1
  Delay <- MCPairDelay
  ServiceDelay = 2
  StartTime = 1
  Jumps = {}
  MaxFaults = 1
INVARIANTS
  TypeOK
  KillJustified
  NoOrphans
PROPERTIES
  ChildGetsTime
CHECK_DEADLOCK FALSE
