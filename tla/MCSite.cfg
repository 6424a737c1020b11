SPECIFICATION FairSiteSpec
CONSTANTS
  NoRow = NoRow
  MaxDay = 5
  MonthOf <- MCMonthOf
  DomOf <- MCDomOf
  YearOf <- MCYearOf
  TableYears <- MCTableYears
  West = FALSE
  Measured = {"wind", "rain", "pressure"}
  Temperature <- MCTemperature
  Pressure <- MCPressure
  HasRain = TRUE
  MaxRows = 2
  MaxFaults = 1
INVARIANTS SiteTypeOK SettledDays FaultsCostOneDay DeadLinksCostFaults DaysLinked   MonthTables
PROPERTY DayChangeRetried
CHECK_DEADLOCK FALSE
