SPECIFICATION Spec
CONSTANTS
  Jobs = {j1, j2, j3}
  Workers = {w1, w2}
  Instances = {m1, m2}
  Commands = 1
  Cancelled = {}
  Endless = {}
  EarlyDestroy = FALSE
  None = None
INVARIANT PollSucceeds
