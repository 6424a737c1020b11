SPECIFICATION ToolSpec
CONSTANTS
  NoRow = NoRow
  MaxDay = 3
  MonthOf <- MCMonthOf
  DomOf <- MCDomOf
  YearOf <- MCYearOf
  TableYears <- MCTableYears
  West = FALSE
  Measured = {}
  Temperature <- MCTemperature
  Pressure <- MCPressure
  TerminalWidths = {29, 80}
  HasRain = FALSE
  MaxRows = 2
  MaxFaults = 1
  MaxRuns = 2
  MaxFailures = 1
INVARIANTS RegeneratedAll SettledAgain LinkedUnlessTorn 
CHECK_DEADLOCK FALSE
