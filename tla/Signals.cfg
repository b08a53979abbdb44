SPECIFICATION FairSpec
CONSTANTS
  Process = {p1, p2}
  First = p1
  LinuxSignal = {9, 12, 16, 17}
  Number <- MCNumber
  LinuxKill = 9
  LinuxChild = 17
  LinuxIgnored = {17}
  Sets <- MCSets
  Actions <- MCActions
  MaxCalls = 3
  Starts <- MCStarts
  MaxArrivals = 1
  Outside = {12}
INVARIANTS
  TypeOK
  LockBalanced
PROPERTIES
  ActsAsLinux
  SentIsTaken
  CallsEnd
CHECK_DEADLOCK FALSE
