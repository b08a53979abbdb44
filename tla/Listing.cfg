\* A directory in which two names come and go, and one that stays as it is; one
\* descriptor, of either; a handler inside a call.  A buffer of one holds a only.
SPECIFICATION FairSpec
CONSTANTS
  Dir = {D, E}
  Fixed = {E}
  Name = {a, b}
  Size <- MCSize
  Rooms = {1, 2}
  Descriptor = {f1}
  a = a
  b = b
  Closed = Closed
  MaxDepth = 2
INVARIANTS
  TypeOK
  ListsExactly
  PositionInRange
PROPERTIES
  CallsReturn
  ListingEnds
