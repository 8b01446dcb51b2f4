SPECIFICATION Spec
CONSTANTS
  MaxRecords = 4
  MaxDrops = 2
  MaxCrashes = 1
  MaxRestarts = 1
  MaxFaults = 1
  Tears = TRUE
CHECK_DEADLOCK FALSE
INVARIANTS TypeOK NothingRejected ChainUnbroken
