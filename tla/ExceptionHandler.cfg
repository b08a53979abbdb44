\* Two signal handlers inside each other; the thread area is set once.  The
\* exception handler may end the process: no deadlock check.
SPECIFICATION Spec
CONSTANTS
  CodeSize = 7
  SysCall = {0, 5}
  LongGs = {1, 6}
  ShortGs = {2}
  GsLoad = {3}
  Leave = {4}
  MaxDepth = 3
  MaxAreas = 1
INVARIANTS
  TypeOK
  EmulatorGoesOn
  AccessesThreadArea
PROPERTIES
  ReturnsToNext
CHECK_DEADLOCK FALSE
