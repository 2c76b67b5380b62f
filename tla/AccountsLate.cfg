SPECIFICATION LateSpec
CONSTANTS
  Users = {u1, u2}
  Names = {n1}
  Devices = {d1}
  Handlers = {h1, h2}
  Cleaner = cleaner
  None = None
  MaxRev = 1
INVARIANTS DeletionFinal
