SPECIFICATION Spec
CONSTANTS
  One = 4
  DeadBand = 1
  MinAxes = 5
  MaxSpeed = 1
  MaxYawRate = 1
  JoyTimeout = 1
  LB = 4
  RB = 5
  ExpButtons = 11
  ExpAxes = 8
  None = None
  NaN = NaN
  MaxGap = 1
  MaxDelay = 1
  QueueDepth = 2
  Presses <- MCPresses
  Sticks <- MCSticks
  Pads <- MCPads
INVARIANTS
  TypeOK
  EndToEndDeadMan
  EndToEndStick
VIEW MCView
