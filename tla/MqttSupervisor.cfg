CONSTANTS
  Failures <- NoFailures
  MaxEvents = 6
SPECIFICATION FairSpec
INVARIANTS
  TypeOK
  NoOrphan
  NoStrayTimer
  OneConnection
  StateMatchesSocket
  ConnectingHasAttempt
PROPERTIES
  KeepsLink
  Reconnects
