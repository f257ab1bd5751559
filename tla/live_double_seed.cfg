SPECIFICATION Spec
CONSTANTS
  c1 = c1
  c2 = c2
  s1 = s1
  s2 = s2
  k1 = k1
  NoSession = NoSession
  Clients = {c1,c2}
  Sessions = {s1,s2}
  Keys = {k1}
  Paths = {"replication"}
  MaxChanges = 1
  MaxFailovers = 0
  MaxIncs = 2
  MaxFaults = 0
  MaxQueue = 2
  MaxEntries = 1
SYMMETRY Symmetry
INVARIANT EverySubscriberIsTailed
CHECK_DEADLOCK FALSE
