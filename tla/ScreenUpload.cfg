SPECIFICATION Spec
CONSTANTS
  t1 = t1
  w1 = w1
  Tokens = {t1}
  Links = {w1}
  None = None
  Lease = 1
  Buffer = 1
  Modes = {"demand"}
  MaxEpoch = 2
INVARIANTS NoPredecessor
