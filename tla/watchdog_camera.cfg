SPECIFICATION FairSpec
CONSTANTS
  Node <- MCCamera
  Order <- MCCameraOrder
  ProcessOnly = {}
  Software = {}
  Threshold = 3
  Cooldown = 5
  Poll = 1
  TermWait = 1
  KillWait = 1
  Delay <- MCCameraDelay
  ServiceDelay = 2
  StartTime = 1
  Jumps <- MCJumps
  MaxFaults = 3
INVARIANTS
  NoDuplicates
PROPERTIES
  Recovers
  Stops
CHECK_DEADLOCK FALSE
