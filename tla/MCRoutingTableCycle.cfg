SPECIFICATION Spec
CONSTANTS
  Node = {1, 2, 3}
  Root = 1
  NoNode = NoNode
  NoTable = NoTable
  Candidates <- TriangleParents
  QueueSize = 1
  MaxChanges = 2
  MaxTreeNodes = 3
  MaxChildren = 2
  SerialBuf = 20
INVARIANT SearchReturns
