\* With --forceload, any one call may fail.  An msync of pages never mapped may
\* end the emulator: no deadlock check.
SPECIFICATION Spec
CONSTANTS
  BlockPages = 2
  BlockCount = 2
  FileLen = 3
  Length = {1, 3}
  Offset = {1}
  MaxFailures = 1
  ForceLoad = TRUE
  TailSharing = TRUE
  PastEof = TRUE
  Zero = Zero
  Dirty = Dirty
  NoPage = NoPage
  Unmapped = Unmapped
  Beyond = Beyond
INVARIANTS
  TypeOK
  StaysDefined
  BitsExact
  MemoryInBlocks
PROPERTIES
  EmptiedIsFreed
  ImplementsLinux
CHECK_DEADLOCK FALSE
