CONSTANTS
  PingAfter = 3
  RxTimeout = 4
  PingTimeout = 6
  AckTimeout = 2
  Room = 5
  CanRefuse = FALSE
  MaxQueue = 2
SPECIFICATION Spec
INVARIANT UnansweredPingCloses
