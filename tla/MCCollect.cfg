SPECIFICATION FairSpec
CONSTANTS
  r = r
  a = a
  b = b
  Node = {r, a, b}
  Root = r
  NoNode = NoNode
  NoBeacon = NoBeacon
  Rssi <- TriangleRssi
  NoRoute <- NoRoute6
  MaxNeighbors = 2
  MaxFaults = 2
  Source = {b}
INVARIANT TypeOK
INVARIANT NoDeadEnd
PROPERTY Arrives
