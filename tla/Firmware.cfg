CONSTANTS
  Home = "home"
  Mistyped <- MCMistyped
  NoSsid = ""
  MaxEvents = 3
  Wrap = 7
  ReadRate = 3
  ReadDelay = 1
  MaxGap = 2
  MaxMeddling = 2
SPECIFICATION FairSpec
INVARIANTS
  TypeOK
  EnvironmentTold
  NeverWaitsAgain
  LoopIsStation
  MqttKnowsLink
PROPERTIES
  ReadsSpaced
  KeepsCredentials
  KeepsReading
  ReachesLoop
