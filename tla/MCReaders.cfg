SPECIFICATION FairSpec
CONSTANTS
  Keys <- MCKeys
  Pace = 3
  Timeout = 2
  MaxShift = 2
  MaxAddresses = 2
  MaxChildren = 2
INVARIANTS NoSocketLeft SurvivesStation OwnSensor
PROPERTIES Paced StationServed
CHECK_DEADLOCK FALSE
