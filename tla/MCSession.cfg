SPECIFICATION FairSessionSpec
CONSTANTS
  MaxData = 2
  MaxDbErrors = 1
  MaxStarts = 3
  MaxKills = 1
  MaxEdits = 1
  MaxMisfires = 1
  Layouts <- MCLayouts
INVARIANTS PidIsDisplay OrphansCostKills TablesOrCut UnopenedOnce ToldByMisfire SameConfiguration
PROPERTIES QuitEndsDisplay WokenDisplayShows
CHECK_DEADLOCK FALSE
