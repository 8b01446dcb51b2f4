\* A remote node and the origin of an archive beside the local one, two roots, five operations.
CONSTANTS
  Nodes = {local, remote, origin}
  Local = local
  Origin = origin
  Roots = {r1, r2}
  Sessions = {s1, s2, guest}
  Guest = guest
  None = none
  MaxIds = 3
  MaxOperations = 5
SPECIFICATION DisagreeingSpec
SYMMETRY Symmetry
INVARIANTS
  TypeOK
  BindingsAgree
  InterruptedFound
PROPERTIES
  AssignmentKept
  NoStrayLog
CHECK_DEADLOCK FALSE
