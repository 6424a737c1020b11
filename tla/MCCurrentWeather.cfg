CONSTANTS
  Types = {"kombi", "normal", "freetec", "ws980"}
  Samples <- MCSamples
  Displays <- MCDisplays
  DaySlots = 2
  MaxTime = 3
  MaxBack = 1
  MaxFaults = 1
SPECIFICATION WeatherSpec
INVARIANTS UploadCoherent ShownCoherent PublishedAsMeasured WindNamed UploadedPrecisely ScreenLegible
CHECK_DEADLOCK FALSE
