CONSTANTS
  Base = 4
  LengthRange = 1024
  MaxTopicLength = 2
  Replies <- MCReplies
  ReturnCodes = {0, 5}
  MaxPackets = 3
  MaxConnects = 2
  Violations = TRUE
SPECIFICATION Spec
INVARIANTS
  TypeOK
  LengthFits
  HandledInOrder
  AllHandled
  PacketPresent
  PacketFreed
CHECK_DEADLOCK FALSE
