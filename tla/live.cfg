SPECIFICATION FairSpec
CONSTANTS
  c1 = c1
  s1 = s1
  s2 = s2
  k1 = k1
  k2 = k2
  NoSession = NoSession
  Clients = {c1}
  Sessions = {s1,s2}
  Keys = {k1,k2}
  Paths = {"replication","poll"}
  MaxChanges = 2
  MaxFailovers = 1
  MaxIncs = 2
  MaxFaults = 1
  MaxQueue = 2
  MaxEntries = 2
 
INVARIANT EntryTruthful
INVARIANT Tailed
 
CHECK_DEADLOCK FALSE
