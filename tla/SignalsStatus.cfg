SPECIFICATION Spec
CONSTANTS
  Process = {p1, p2}
  First = p1
  LinuxSignal = {9, 12, 16, 17}
  Number <- MCNumber
  LinuxKill = 9
  LinuxChild = 17
  LinuxIgnored = {17}
  Sets <- MCSets
  Actions <- MCActions
  MaxCalls = 3
  Starts <- MCStarts
  MaxArrivals = 1
  Outside = {12}
INVARIANT StatusesCompatible
CHECK_DEADLOCK FALSE
