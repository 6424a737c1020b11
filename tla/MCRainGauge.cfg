SPECIFICATION Spec
CONSTANTS
  GaugeMod = 4097
  Starts <- MCStarts
  Falls <- MCFalls
  MaxFall = 14000
  MaxFaults = 2
INVARIANTS RainNeverLost RainExact
CHECK_DEADLOCK FALSE
