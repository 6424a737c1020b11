SPECIFICATION Spec
CONSTANTS
  DayOf <- OverMidnight
  MaxRunning = 2
  MaxFaults = 0
INVARIANT CompressedOnce
CHECK_DEADLOCK FALSE
