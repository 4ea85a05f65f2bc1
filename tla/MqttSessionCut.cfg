CONSTANTS
  Numerals <- MCNumerals
  Overlong <- MCOverlong
  Times <- MCTimes
  Commands <- LightOnOff
  Reported = {"status", "light"}
  Size <- LongStatus
  LengthLooksLikeQos <- Switches
  Qos = {0}
  Room = 3
  MaxCommands = 3
  MaxConnects = 2
  MaxRetries = 0
  MaxRefusals = 0
SPECIFICATION Spec
INVARIANT StreamWellFormed
CHECK_DEADLOCK FALSE
