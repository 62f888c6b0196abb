\* Two requests at a time and two rows over the run: two clusters of one name
\* one after the other, or of two names with one Secret; one restart at any
\* point.
CONSTANTS
  Names = {n1, n2}
  Twins = {n1, n2}
  Requests = {r1, r2}
  NoName = NoName
  MaxId = 2
  MaxRestarts = 1
SPECIFICATION Spec
INVARIANTS
  TypeOK
  NoStrayWorker
  FailureIsUndone
  SecretKept
PROPERTIES
  Deletable
  ImplementsClusterLife
\* With every cluster deleted and no id left nothing more can happen.
CHECK_DEADLOCK FALSE
