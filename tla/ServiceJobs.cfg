SPECIFICATION FairSpec
CONSTANTS
  Jobs = {j1, j2, j3}
  Workers = {w1, w2}
  Instances = {m1, m2}
  Commands = 1
  Cancelled = {j2}
  Endless = {j1}
  EarlyDestroy = FALSE
  None = None
INVARIANTS NoMaximaLeft RequestsRegistered
PROPERTIES JobServiceSpec JobsEnd DestroyReturns
