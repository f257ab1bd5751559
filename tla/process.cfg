SPECIFICATION MCSpec
CONSTANTS
  p1 = p1
  p2 = p2
  a = a
  b = b
  Passes = {p1, p2}
  Values = {a, b}
  NumSteps = 2
  MaxStarts = 4
  Undefined = Undefined
  Null = Null
  None = None
  l1 = l1
  l2 = l2
  j1 = j1
  Loops = {l1, l2}
  Jobs = {j1}
  MaxAttempts = 2
  MaxRejects = 2
  t1 = t1
  t2 = t2
  Crons <- MCCrons
  Intervals <- MCIntervals
  Ticks = {t1, t2}
  PerMinute = 2
  MaxNow = 3
  Cadences <- Spaced
  MaxLag = 1
  MaxErrors = 3
  s1 = s1
  s2 = s2
  s3 = s3
  u1 = u1
  Spans = {s1, s2, s3}
  Loose = {u1}
  MaxThrows = 2
  n1 = n1
  n2 = n2
  Conns = {n1, n2}
  MaxRequests = 3
  r1 = r1
  Outside = Outside
  Rows = {r1}
  MaxWrites = 1
  MaxBreaks = 3
INVARIANT Replayable
INVARIANT NothingLeaks
INVARIANT SpansIsolated
INVARIANT ShutdownOrderly
PROPERTY StopsClean
PROPERTY DoneReportsTrue
PROPERTY LoopsGoOn
PROPERTY CadenceKept
 
PROPERTY StreamsAgain
PROPERTY EverySpanSettles
PROPERTY AlwaysExits
PROPERTY EveryWriteSettles
CHECK_DEADLOCK FALSE
