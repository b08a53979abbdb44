\* Four directories, two files, two symbolic links on two disks; three calls in
\* a behaviour, one of them perhaps from a signal handler.  The bound on calls
\* ends every behaviour: no deadlock check.
SPECIFICATION ExecSpec
CONSTANTS
  Top = Top
  D = D
  E = E
  Q = Q
  G = G
  F = F
  L = L
  M = M
  None = None
  Dirs = {Top, D, E, Q}
  Files = {F, G}
  Links = {L, M}
  Names <- MCNames
  LinkPath <- MCLinkPath
  MaxLinks = 5
  StartTrees <- MCTrees
  StartRoots <- MCRoots
  StartOptions <- MCOptions
  Ops <- MCOps
  HandlerOps <- MCHandlerOps
  Paths <- MCPaths
  ExecPaths <- MCExecPaths
  PairPaths <- MCPairPaths
  MaxCalls = 3
  MaxDepth = 2
INVARIANTS ExecTypeOK FakeRootKept
PROPERTIES CallsAsLinux PlacesAsLinux ExecArrives
CHECK_DEADLOCK FALSE
