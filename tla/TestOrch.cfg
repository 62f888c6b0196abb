\* One object of each kind, two runs of any scenarios, one session whose tools
\* work on the same objects.
CONSTANTS
  Callers = {c1}
  Pods = {pod}
  Deployments = {deployment}
  Nodes = {node}
  Counts = {zero, few}
  Zero = zero
  Rests = {x, y}
  Absent = Absent
  Runs = {r1, r2}
  NoRun = NoRun
SPECIFICATION Spec
INVARIANTS
  TypeOK
  OwnObject
  NothingLeft
PROPERTIES
  ImplementsToolContract
  RunsEnd
