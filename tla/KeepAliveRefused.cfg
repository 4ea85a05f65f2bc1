CONSTANTS
  PingAfter = 2
  RxTimeout = 3
  PingTimeout = 4
  AckTimeout = 1
  Room = 2
  CanRefuse = TRUE
  MaxQueue = 2
SPECIFICATION FairSpec
PROPERTY HalfOpenEnds
