SPECIFICATION FairCaptureSpec
CONSTANTS
  h1 = h1
  Tokens = {h1}
  None = None
  Lease = 1
  MaxEpoch = 2
INVARIANTS OffIsDark LeaseHonest AudienceOnly SessionCurrent
PROPERTIES CaptureEnds
CHECK_DEADLOCK FALSE
