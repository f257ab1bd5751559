SPECIFICATION MCSpec
CONSTANTS
  k1 = k1
  c1 = c1
  c2 = c2
  d1 = d1
  None = None
  Forever = Forever
  Keys = {k1}
  Callers = {c1, c2}
  Deleters = {d1}
  Ops = {"read", "write", "fetch", "remember"}
  Ttls = {1}
  MaxNow = 1
  MaxDeletes = 1
  m1 = m1
  m2 = m2
  m3 = m3
  MemoryKeys = {m1, m2, m3}
  MaxEntries = 2
  MemoryTtls = {0, 1, Forever}
  MaxMemoryNow = 2
  MaxUses = 5
  b1 = b1
  b2 = b2
  w1 = w1
  NoTab = NoTab
  Tabs = {b1, b2}
  TabWrites = {w1}
  MaxChanges = 2
  MaxTabFaults = 1
INVARIANT SingleFlight
INVARIANT TermsSound
PROPERTY ReturnedDeleteWins
PROPERTY CallsReturn
PROPERTY EvictsTheRightOne
PROPERTY TabsConverge
CHECK_DEADLOCK FALSE
