\* One remote node and the origin of an archive beside the local one, one root, five operations.
CONSTANTS
  Nodes = {local, remote, origin}
  Local = local
  Origin = origin
  Roots = {r1}
  Sessions = {s1, guest}
  Guest = guest
  None = none
  MaxIds = 2
  MaxOperations = 5
SPECIFICATION Spec
INVARIANT AssignedNodeServes
CHECK_DEADLOCK FALSE
