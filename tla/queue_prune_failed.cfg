SPECIFICATION Spec
CONSTANTS
  w1 = w1
  w2 = w2
  MaxJobs = 3
  MaxTime = 2
  Workers = {w1, w2}
  Dialect = "sqlite"
  BatchShapes <- FanInOnly
  Priorities = {0}
  AttemptLimits = {1}
  Delays = {}
  Visibilities = {0}
  BaseBackoff = 1
  MaxBackoff = 1
  PruneAge = 0
  MaxClaims = 2
  OperatorVerbs = {"prune"}
  ClockStepsBack = FALSE
  NULL = NULL
SYMMETRY AnyWorker
INVARIANT OrderedBatch
