SPECIFICATION FairSpec
CONSTANTS
  Node = {1, 2, 3}
  Root = 1
  NoNode = NoNode
  NoTable = NoTable
  Candidates <- ChainParents
  QueueSize = 2
  MaxChanges = 1
  MaxTreeNodes = 2
  MaxChildren = 2
  SerialBuf = 20
  Origen = 2
  Destino = 3
  CounterSize = 2
  PoolSize = 1
  MaxInFlight = 1
  TableQuota = 1
  MaxPackets = 1
PROPERTY TransitEnds
 
