\* Files are mapped over blocks the program uses other pages of.
\* The emulator may end: no deadlock check.
SPECIFICATION Spec
CONSTANTS
  BlockPages = 2
  BlockCount = 2
  FileLen = 3
  Length = {1, 2, 3}
  Offset = {0, 1, 2}
  MaxFailures = 0
  ForceLoad = FALSE
  TailSharing = TRUE
  PastEof = FALSE
  Zero = Zero
  Dirty = Dirty
  NoPage = NoPage
  Unmapped = Unmapped
  Beyond = Beyond
INVARIANTS
  ProgramMemoryPresent
CHECK_DEADLOCK FALSE
