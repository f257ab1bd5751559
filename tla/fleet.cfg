SPECIFICATION MCSpec
CONSTANTS
  w1 = w1
  w2 = w2
  MaxJobs = 3
  MaxTime = 1
  Workers = {w1, w2}
  Dialect = "sqlite"
  BatchShapes <- FanIn
  Priorities = {0}
  AttemptLimits = {1}
  Delays = {}
  Visibilities = {0}
  BaseBackoff = 1
  MaxBackoff = 1
  PruneAge = 1
  MaxClaims = 2
  OperatorVerbs = {"retry", "discard"}
  ClockStepsBack = FALSE
  NULL = NULL
  NoOne = NoOne
  c1 = c1
  c2 = c2
  Checkers = {c1, c2}
  Capacity = 2
  Cost = 1
  Retention = 2
  MaxNow = 3
  Callers = {c1, c2}
  NumVersions = 3
  MaxThrows = 2
  e1 = e1
  e2 = e2
  Emails = {e1, e2}
  Requests = {c1, c2}
  NoEmail = NoEmail
  ChunkSize = 1
  MaxTokens = 2
  MaxRuns = 2
  t1 = t1
  t2 = t2
  Topics = {t1, t2}
  MaxEntries = 2
  MaxQueue = 1
  MaxWrites = 2
  MaxFaults = 2
  r1 = r1
  r2 = r2
  Outside = Outside
  Rows = {r1, r2}
  MaxBreaks = 1
SYMMETRY AnyWorker
INVARIANT NoStranded
INVARIANT CompletedTruthful
INVARIANT BucketSound
INVARIANT BootsAgree
INVARIANT OptOutHolds
INVARIANT MailedOnce
 
INVARIANT DurableTruthful
 
CHECK_DEADLOCK FALSE
