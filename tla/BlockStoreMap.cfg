\* Files are mapped; the program keeps to whole blocks where it maps them,
\* and any one call may fail.  The emulator may then stop: no deadlock check.
SPECIFICATION Spec
CONSTANTS
  BlockPages = 2
  BlockCount = 2
  FileLen = 4
  Length = {1, 3, 4}
  Offset = {0, 2}
  MaxFailures = 1
  ForceLoad = FALSE
  TailSharing = FALSE
  PastEof = FALSE
  Zero = Zero
  Dirty = Dirty
  NoPage = NoPage
  Unmapped = Unmapped
  Beyond = Beyond
INVARIANTS
  DefinedUnlessFailed
PROPERTIES
  LinuxUnlessDangling
CHECK_DEADLOCK FALSE
