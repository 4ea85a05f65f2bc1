CONSTANTS
  Numerals <- MCNumerals
  Overlong <- MCOverlong
  Times <- MCTimes
  Messages <- Temperatures
  Split <- Cut
SPECIFICATION Spec
INVARIANT MessageIsOneCommand
