\* One object of each kind; two changes and three steps of the clock fall
\* anywhere between the seven calls of a poll, their answers and the moments the
\* watcher looks at them.
CONSTANTS
  States <- MCStates
  AtFirst <- Healthy
  PendingThreshold = 1
  WarnBefore = 2
  Day = 2
  MaxTime = 3
  MaxChanges = 2
SPECIFICATION Spec
INVARIANTS
  TypeOK
  PollTruthful
  OwnWords
  ExpiryText
PROPERTY TimeHealsNothing
