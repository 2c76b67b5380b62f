SPECIFICATION FairSpec
CONSTANTS
  t1 = t1
  w1 = w1
  Tokens = {t1}
  Links = {w1}
  None = None
  Lease = 1
  Buffer = 1
  Modes = {"demand", "legacy"}
  MaxEpoch = 2
INVARIANTS LeaseHasSession OwnAudience
PROPERTIES CrashedExpire
