SPECIFICATION Spec
CONSTANTS
  Buttons = {"lb", "rb"}
  Axes = {"left_x", "right_y", "dpad_x"}
  LB = "lb"
  RB = "rb"
  Sticks = {"left_x", "right_y"}
  Default <- MCDefault
  Files <- MCFiles
  Own <- MCOwn
  Missing = Missing
  Broken = Broken
  Absent = Absent
  Frames <- MCFrames
INVARIANTS
  TypeOK
  PartialSurvived
  ShapeGuard
