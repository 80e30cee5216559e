SPECIFICATION Spec
CONSTANTS
  Node <- MCCamera
  Order <- MCCameraOrder
  ProcessOnly = {}
  Software = {}
  Threshold = 3
  Cooldown = 5
  Poll = 1
  TermWait = 1
  KillWait = 1
  Delay <- MCCameraDelay
  ServiceDelay = 2
  StartTime = 1
  Jumps = {}
  MaxFaults = 2
PROPERTIES
  CooldownKept
CHECK_DEADLOCK FALSE
