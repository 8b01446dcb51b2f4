\* Two prompts and two calls, two compactions or prunes, and one fault, with two accounts.
SPECIFICATION Spec
CONSTANTS
  Accounts = {a1, a2}
  NoAccount = none
  MaxRetries = 1
  ProtectedTurns = 1
  MaxTurns = 2
  MaxCalls = 2
  MaxChanges = 2
  MaxFaults = 1
INVARIANTS
  RequestAnswered
  ReplayAgrees
  OneAccount
SYMMETRY Symmetry
CHECK_DEADLOCK FALSE
