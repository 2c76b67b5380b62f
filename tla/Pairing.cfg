SPECIFICATION Spec
CONSTANTS
  Devices = {d1}
  Sessions = {s1}
  Tokens = {k1, k2}
  Handlers = {h1, h2}
  Cleaner = cleaner
  None = None
  MaxOpen = 1
  MaxTargets = 2
  MaxCodes = 2
  MaxIds = 2
INVARIANTS ClaimWhole OnePerDevice AnswersKept LocksComeFree
SYMMETRY Alike
