SPECIFICATION Spec
CONSTANTS
  w1 = w1
  w2 = w2
  MaxJobs = 3
  MaxTime = 1
  Workers = {w1, w2}
  Dialect = "postgres"
  BatchShapes <- FanIn
  Priorities = {0}
  AttemptLimits = {1}
  Delays = {}
  Visibilities = {0}
  BaseBackoff = 1
  MaxBackoff = 1
  PruneAge = 1
  MaxClaims = 2
  OperatorVerbs = {"discard"}
  ClockStepsBack = TRUE
  NULL = NULL
SYMMETRY AnyWorker
INVARIANT OrderedBatch
 
