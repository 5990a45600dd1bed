CONSTANTS
  n1 = n1
  n2 = n2
  n3 = n3
  None = None
  Node = {n1, n2, n3}
  Starts <- CrossingAndJoining
  MaxLinks = 4
SPECIFICATION FairSpec
INVARIANTS TypeOK KnownOnce
PROPERTY MeshCompletes
CHECK_DEADLOCK FALSE
