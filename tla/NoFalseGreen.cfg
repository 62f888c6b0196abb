\* One cluster that falls sick, one worker, one request.
CONSTANTS
  Clusters = {c1}
  MaxWorkers = 1
  MaxVersion = 2
  MaxFetches = 1
SPECIFICATION ListSpec
CHECK_DEADLOCK FALSE
INVARIANT NoFalseGreen
