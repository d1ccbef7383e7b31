SPECIFICATION FairSpec
CONSTANTS
  Calls = {c1, c2, c3}
  Files = {f1}
  Offsets = {o1, o2}
  Data = {d1, d2}
  Bad = Bad
  Recipients = {r1, r2}
  Checked = TRUE
  None = None
INVARIANTS TypeOK OneStream CompleteWhenClosed NoDanglingReply
PROPERTIES BroadcastSpec CallsReturn
CHECK_DEADLOCK FALSE
