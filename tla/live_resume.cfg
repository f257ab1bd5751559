SPECIFICATION Spec
CONSTANTS
  c1 = c1
  s1 = s1
  s2 = s2
  k1 = k1
  k2 = k2
  NoSession = NoSession
  Clients = {c1}
  Sessions = {s1,s2}
  Keys = {k1,k2}
  Paths = {"replication"}
  MaxChanges = 2
  MaxFailovers = 0
  MaxIncs = 2
  MaxFaults = 2
  MaxQueue = 2
  MaxEntries = 2
SYMMETRY Symmetry
INVARIANT NeverSilentlyMisses
CHECK_DEADLOCK FALSE
