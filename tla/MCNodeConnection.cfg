\* One prompt and one recovery; three connections, two tokens and one fault.
SPECIFICATION Spec
CONSTANTS
  TheSession = s1
  Sessions <- OneSession
  Prompts = {p1}
  Recoveries = {r1}
  Target <- ForTheSession
  MaxConnections = 3
  MaxTokens = 2
  MaxFaults = 1
INVARIANTS
  TypeOK
  RevocationHolds
  AnswerIsDurable
PROPERTIES
  EveryCallSettles
  NodeServed
  StaleSettled
CHECK_DEADLOCK FALSE
