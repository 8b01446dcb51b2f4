\* A prompt, a manual and an automatic compaction, two stops of the process.
SPECIFICATION Spec
CONSTANTS
  Prompts = {p1}
  Manuals = {m1}
  Autos = {a1}
  None = None
  MaxStops = 2
SYMMETRY Symmetry
INVARIANTS
  TypeOK
  NoTurnLost
  SettledOnce
  CancellationHolds
  QueueExecutes
  OneExecution
  CompactionReported
PROPERTIES
  ExecutedOnce
  CompactionPaced
  ImplementsLifecycle
CHECK_DEADLOCK FALSE
