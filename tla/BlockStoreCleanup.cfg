\* Files are mapped, and Interix refuses one of the mappings.
\* The emulator may end: no deadlock check.
SPECIFICATION Spec
CONSTANTS
  BlockPages = 2
  BlockCount = 2
  FileLen = 3
  Length = {1, 2, 3}
  Offset = {0, 1, 2}
  MaxFailures = 1
  ForceLoad = FALSE
  TailSharing = FALSE
  PastEof = FALSE
  Zero = Zero
  Dirty = Dirty
  NoPage = NoPage
  Unmapped = Unmapped
  Beyond = Beyond
INVARIANTS
  AssertionsHold
CHECK_DEADLOCK FALSE
