SPECIFICATION FairSpec
CONSTANTS
  w1 = w1
  w2 = w2
  MaxJobs = 1
  MaxTime = 8
  Workers = {w1, w2}
  Dialect = "sqlite"
  BatchShapes <- NoBatches
  Priorities = {0}
  AttemptLimits = {2}
  Delays = {0}
  Visibilities = {1}
  BaseBackoff = 1
  MaxBackoff = 2
  PruneAge = 0
  MaxClaims = 2
  OperatorVerbs = {"retry", "prune", "discard"}
  ClockStepsBack = FALSE
  NULL = NULL
INVARIANT FenceSound
INVARIANT SoleUnlapsedOwner
INVARIANT AttemptBudget
INVARIANT NoJobLost
PROPERTY LeaseContract
PROPERTY EveryJobSettles
