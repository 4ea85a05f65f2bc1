CONSTANTS
  Numerals <- MCNumerals
  Overlong <- MCOverlong
  Times <- MCTimes
  Messages <- AllHandlers
  Split <- Cut
SPECIFICATION Spec
INVARIANT FrameTellsHalfOfDay
