\* One exec is enough.  The bound on calls ends every behaviour.
SPECIFICATION ExecSpec
CONSTANTS
  Top = Top
  D = D
  E = E
  Q = Q
  G = G
  F = F
  L = L
  M = M
  None = None
  Dirs = {Top, D, E, Q}
  Files = {F, G}
  Links = {L, M}
  Names <- MCNames
  LinkPath <- MCLinkPath
  MaxLinks = 5
  StartTrees <- MCTrees
  StartRoots <- MCRoots
  StartOptions <- MCOptions
  Ops <- MCOps
  HandlerOps <- MCHandlerOps
  Paths <- MCPaths
  ExecPaths <- MCExecPaths
  PairPaths <- MCPairPaths
  MaxCalls = 1
  MaxDepth = 1
INVARIANTS ForceLoadKept
CHECK_DEADLOCK FALSE
