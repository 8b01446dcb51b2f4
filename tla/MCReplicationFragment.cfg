SPECIFICATION FairSpec
CONSTANTS
  MaxRecords = 2
  MaxDrops = 0
  MaxCrashes = 1
  MaxRestarts = 0
  MaxFaults = 0
  Tears = FALSE
CHECK_DEADLOCK FALSE
PROPERTY FragmentDiscarded
