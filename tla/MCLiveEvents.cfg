\* A turn of one message, and one client, of any kind.
SPECIFICATION Spec
CONSTANTS
  Kinds = {"viewer", "monitor", "prompt"}
  LastMessage = 1
  Thoughts = 2
  Chunks = 3
  TailSize = 2
  MaxWire = 2
  MaxFaults = 3
INVARIANTS
  TypeOK
  NoEventSkipped
  TextTrue
PROPERTY CatchesUp
CHECK_DEADLOCK FALSE
