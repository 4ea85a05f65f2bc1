CONSTANTS
  Numerals <- MCNumerals
  Overlong <- MCOverlong
  Times <- MCTimes
  Commands <- LightOnOff
  Reported = {"light"}
  Size <- One
  LengthLooksLikeQos <- Switches
  Qos = {0, 1, 2}
  Room = 3
  MaxCommands = 2
  MaxConnects = 3
  MaxRetries = 1
  MaxRefusals = 1
SPECIFICATION FairSpec
INVARIANTS
  TypeOK
  Mirror
  ConfirmationComes
PROPERTIES
  CommandsDelivered
  QueueDrains
CHECK_DEADLOCK FALSE
