SPECIFICATION Spec
CONSTANTS
  MaxTreeNodes = 3
  MaxChildren = 2
  SerialBuf = 15
  Id = {1, 2, 17, 8}
INVARIANT TreeOK
INVARIANT SearchIsReachability
INVARIANT TextWithinBuffer
 
 
