SPECIFICATION FairSpec
CONSTANTS
  MaxData = 3
  MaxDbErrors = 1
PROPERTIES NotificationShown
CHECK_DEADLOCK FALSE
