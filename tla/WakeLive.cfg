SPECIFICATION FairSpec
CONSTANTS
  Agents = {a1}
  Targets = {t1}
  Devices = {d1}
  Handlers = {h1}
  Cleaner = cleaner
  None = None
  MaxRequests = 1
  Validity = 1
  Observe = 2
  FreshFor = 1
  Cooldown = 1
  RateWindow = 4
  RateMax = 2
  KeepFor = 3
  KeepMax = 5
  MaxAgents = 5
  MaxTargets = 20
  MaxNow = 3
  LastCreate = 1
  CleanFrom = 0
  MaxGen = 1
  MaxRev = 2
INVARIANTS Evidence ActiveBound
PROPERTIES EveryRequestSettles RuntimeForgets
CHECK_DEADLOCK FALSE
