SPECIFICATION Spec
CONSTANTS
  GaugeMod = 65536
  Starts <- MCFreeTecStarts
  Falls <- MCFreeTecFalls
  MaxFall = 65540
  MaxFaults = 0
INVARIANT RainFromLastMeasurement
CHECK_DEADLOCK FALSE
