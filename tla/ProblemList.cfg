\* One cluster that falls sick once, two workers and three requests: a worker is
\* replaced while a request reads, a second request overtakes the first, and a
\* cluster that was shown disappears and comes back.
CONSTANTS
  Clusters = {c1}
  MaxWorkers = 2
  MaxVersion = 2
  MaxFetches = 3
SPECIFICATION ListSpec
\* With every bound reached nothing is left to do.
CHECK_DEADLOCK FALSE
INVARIANT ListTypeOK
PROPERTIES
  NeverBack
  ImplementsDisplay
