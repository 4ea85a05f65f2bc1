CONSTANTS
  Numerals <- MCNumerals
  Overlong <- MCOverlong
  Times <- MCTimes
  Messages <- AllHandlers
  Split <- Cut
SPECIFICATION Spec
INVARIANTS
  TypeOK
  TopicsTellData
  FrameTellsSettings
  FrameTellsDial
  SettingsInRange
PROPERTY OneSettingPerFragment
