SPECIFICATION Spec
CONSTANTS
  MaxRecords = 2
  MaxDrops = 0
  MaxCrashes = 0
  MaxRestarts = 0
  MaxFaults = 1
  Tears = FALSE
CHECK_DEADLOCK FALSE
INVARIANT BeginsWithSession
