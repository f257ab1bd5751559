SPECIFICATION Spec
CONSTANTS
  k1 = k1
  c1 = c1
  d1 = d1
  None = None
  Forever = Forever
  Keys = {k1}
  Callers = {c1}
  Deleters = {d1}
  Ops = {"remember"}
  Ttls = {Forever}
  MaxNow = 0
  MaxDeletes = 1
SYMMETRY Symmetry
INVARIANT NoResurrection
