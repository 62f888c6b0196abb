CONSTANTS
  Names = {n1}
  Twins = {}
  Requests = {r1}
  NoName = NoName
  MaxId = 1
  MaxRestarts = 1
SPECIFICATION Spec
INVARIANT OwnCluster
CHECK_DEADLOCK FALSE
