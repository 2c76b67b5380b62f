SPECIFICATION FairHostSpec
CONSTANTS
  d1 = d1
  h1 = h1
  h2 = h2
  h3 = h3
  Disconnects = {d1}
  Tokens = {h1, h2, h3}
  None = None
  MaxGen = 3
  MaxLosses <- OneLoss
INVARIANTS StoppedIsStopped ListenerCurrent RevokedStays
PROPERTIES HostingSettles ImplementsSession
CHECK_DEADLOCK FALSE
