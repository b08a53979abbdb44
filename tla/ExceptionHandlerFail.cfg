\* What becomes of an instruction whose fragment cannot be made.
SPECIFICATION Spec
CONSTANTS
  CodeSize = 7
  SysCall = {0, 5}
  LongGs = {1, 6}
  ShortGs = {2}
  GsLoad = {3}
  Leave = {4}
  MaxDepth = 3
  MaxAreas = 1
PROPERTIES
  NothingSkipped
CHECK_DEADLOCK FALSE
