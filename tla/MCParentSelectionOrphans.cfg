SPECIFICATION FairSpec
CONSTANTS
  r = r
  a = a
  b = b
  c = c
  Node = {r, a, b}
  Root = r
  NoNode = NoNode
  NoBeacon = NoBeacon
  Rssi <- TriangleRssi
  NoRoute <- NoRoute6
  MaxNeighbors = 2
  TrickleMin = 1
  TrickleMax = 1
  MaxFaults = 1
PROPERTY OrphansGiveUp
