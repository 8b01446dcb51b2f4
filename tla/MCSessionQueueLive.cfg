\* Two prompts and one stop.  No symmetry: it is unsound for
\* liveness.
SPECIFICATION FairSpec
CONSTANTS
  Prompts = {p1, p2}
  Manuals = {}
  Autos = {}
  None = None
  MaxStops = 1
PROPERTIES
  FirstComeFirstServed
  CancelTakesEffect
  ShutdownCompletes
  EveryTurnEnds
CHECK_DEADLOCK FALSE
