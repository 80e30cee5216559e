SPECIFICATION Spec
CONSTANTS
  Linear <- MCLinear
  Angular <- MCAngular
  MaxSpeed = 2
  MaxYawRate = 1
  Unit = 1
  NaN = NaN
  RawCommands <- MCRawCommands
  Frames <- MCFrames
  LB = 4
  RB = 5
  ExpButtons = 11
  ExpAxes = 8
  None = None
  JoyTimeout = 2
  Period = 1
  MaxGap = 2
INVARIANTS
  AutoNotStale
