\* Time in units of about two and a half seconds.
SPECIFICATION Spec
CONSTANTS
  NoCall = NoCall
  ClockSize = 7
  RetryInterval = 3
  MaxConnect = 3
  KeepAlive = 2
  FirstInterval = 2
  MinInterval = 2
  MaxInterval = 4
  MaxInbox = 2
INVARIANT TypeOK
INVARIANT RetriedInTime
INVARIANT Fresh
PROPERTY AttemptsApart
