\* Three motes in reach of each other, or two; both programs.
SPECIFICATION FairSpec
CONSTANTS
  Node = {1, 2, 3}
  Root = 1
  NoAnswer = NoAnswer
  CheckInterval = 9
  MinDelay = 2
  MaxDelay = 3
  MaxFlight = 1
  MaxQueue = 2
  ByteSize = 2
INVARIANT TypeOK
INVARIANT OneNumber
INVARIANT NumberTellsSender
INVARIANT NoStorm
INVARIANT SilenceEnds
PROPERTY StartsOverLate
PROPERTY GameGoesOn
