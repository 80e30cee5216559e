SPECIFICATION Spec
CONSTANTS
  Shapes <- MCShapes
  Flip = TRUE
  Models <- MCModels
  Counts <- MCCounts
  NaN = NaN
  Threshold = 1
  Limits = {0, 2}
  Depth = 1
  MaxDelay = 1
  ImageTimeout = 1
  Period = 1
  MaxGap = 2
  None = None
INVARIANTS
  TypeOK
  OkHonest
  ErrorShown
  Upright
PROPERTIES
  DetectionsRight
  EndsForCause
