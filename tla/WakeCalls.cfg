SPECIFICATION Spec
CONSTANTS
  Agents = {a1}
  Targets = {t1}
  Devices = {d1}
  Handlers = {h1, h2}
  Cleaner = cleaner
  None = None
  MaxRequests = 2
  Validity = 2
  Observe = 2
  FreshFor = 2
  Cooldown = 1
  RateWindow = 4
  RateMax = 2
  KeepFor = 20
  KeepMax = 5
  MaxAgents = 5
  MaxTargets = 20
  MaxNow = 1
  LastCreate = 1
  CleanFrom = 1
  MaxGen = 2
  MaxRev = 1
SYMMETRY Symmetry
INVARIANTS OneActivePerTarget
PROPERTIES AuthorizedOnce TerminalForGood OnlyCurrentCredentialActs
CHECK_DEADLOCK FALSE
