SPECIFICATION Spec
CONSTANTS
  Jobs = {j1, j2, j3}
  Workers = {w1, w2}
  Instances = {m1, m2}
  Commands = 2
  Cancelled = {j1}
  Endless = {}
  EarlyDestroy = TRUE
  None = None
SYMMETRY Symmetry
INVARIANTS TypeOK ExclusiveUse ResultsAreOwn InstancesAccounted
