CONSTANTS
  PingAfter = 3
  RxTimeout = 4
  PingTimeout = 6
  AckTimeout = 2
  Room = 3
  CanRefuse = FALSE
  MaxQueue = 2
SPECIFICATION FairSpec
INVARIANTS
  TypeOK
  PingInTime
PROPERTY HalfOpenEnds
