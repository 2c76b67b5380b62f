SPECIFICATION StopSpec
CONSTANTS
  Tokens = {t1}
  Links = {w1}
  None = None
  Lease = 1
  Buffer = 1
  Modes = {"demand", "legacy"}
  MaxEpoch = 2
INVARIANTS StopHolds
