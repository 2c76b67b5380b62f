SPECIFICATION Spec
CONSTANTS
  c1 = c1
  c2 = c2
  None = None
  Calls = {c1, c2}
  Sizes = {1}
  StoreMax = 1
  MaxReg = 2
INVARIANTS AnswersTrue PerformedOnce InOrder HeldByUploads LetInByUser
SYMMETRY Symmetry
CHECK_DEADLOCK FALSE
