\* A pipe of two chunks, a preview of two, and a limit of five.
SPECIFICATION Spec
CONSTANTS
  Capacity = 2
  Preview = 2
  Limit = 5
INVARIANTS
  NothingLeftRunning
  SuccessIsWhole
PROPERTY CommandReturns
CHECK_DEADLOCK FALSE
