\* One cluster and two workers, so that a worker is replaced, or removed and
\* its cluster registered again, while it still runs; the cluster's problems
\* change twice.
CONSTANTS
  Clusters = {c1}
  MaxWorkers = 2
  MaxVersion = 3
SPECIFICATION Spec
\* With every cluster removed and every worker gone nothing is left to do.
CHECK_DEADLOCK FALSE
INVARIANTS
  TypeOK
  OneWorker
PROPERTIES
  NoOlderResult
  WorkersStop
  ProblemsReported
