SPECIFICATION Spec
CONSTANTS
  Node = {1, 2, 3}
  Root = 1
  NoNode = NoNode
  NoTable = NoTable
  Candidates <- ChainParents
  QueueSize = 2
  MaxChanges = 1
  MaxTreeNodes = 4
  MaxChildren = 3
  SerialBuf = 20
  Origen = 2
  Destino = 3
  CounterSize = 4
  PoolSize = 2
  MaxInFlight = 2
  TableQuota = 1
  MaxPackets = 2
INVARIANT TypeOK
 
INVARIANT OnePlace
INVARIANT NeverStranded
 
 
