\* Two descriptors, one of them the loader's, two directories, one handler
\* inside a call.  A failed exec ends the process: no deadlock check.
SPECIFICATION Spec
CONSTANTS
  FdCount = 2
  MaxDepth = 2
  File = File
  Dir = {D, E}
  Closed = Closed
  NULL = NULL
INVARIANTS
  TypeOK
  NodeNeverWrong
  MapExact
CHECK_DEADLOCK FALSE
