SPECIFICATION FairSpec
CONSTANTS
  MaxRecords = 4
  MaxDrops = 2
  MaxCrashes = 1
  MaxRestarts = 1
  MaxFaults = 0
  Tears = FALSE
CHECK_DEADLOCK FALSE
PROPERTIES ImplementsCanonicalLog EverythingStored
