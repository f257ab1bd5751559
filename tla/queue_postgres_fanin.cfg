SPECIFICATION Spec
CONSTANTS
  w1 = w1
  w2 = w2
  MaxJobs = 3
  MaxTime = 0
  Workers = {w1, w2}
  Dialect = "postgres"
  BatchShapes <- FanInOnly
  Priorities = {0}
  AttemptLimits = {1}
  Delays = {}
  Visibilities = {0}
  BaseBackoff = 1
  MaxBackoff = 1
  PruneAge = 1
  MaxClaims = 2
  OperatorVerbs = {}
  ClockStepsBack = FALSE
  NULL = NULL
SYMMETRY AnyWorker
INVARIANT NoStranded
