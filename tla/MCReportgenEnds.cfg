SPECIFICATION FairSpec
CONSTANTS
  DayOf <- OverMidnight
  MaxRunning = 2
  MaxFaults = 1
PROPERTIES GeneratorsEnd
CHECK_DEADLOCK FALSE
