SPECIFICATION Spec
CONSTANTS
  r = r
  a = a
  b = b
  c = c
  Node = {r, a, b, c}
  Root = r
  NoNode = NoNode
  NoBeacon = NoBeacon
  Rssi <- CrowdRssi
  NoRoute <- NoRoute4
  MaxNeighbors = 2
  TrickleMin = 2
  TrickleMax = 3
  MaxFaults = 2
INVARIANT TypeOK
INVARIANT NeighborsUnique
INVARIANT ParentIsRegistered
INVARIANT RouteIffParent
INVARIANT ParentIsBest
