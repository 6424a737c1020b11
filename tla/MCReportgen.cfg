SPECIFICATION Spec
CONSTANTS
  DayOf <- WithGap
  MaxRunning = 2
  MaxFaults = 1
INVARIANT PagesComplete
PROPERTY ImplementsDirectory
CHECK_DEADLOCK FALSE
