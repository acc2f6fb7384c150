SPECIFICATION MCSpec
CONSTANTS
  None = None
  FileLens <- MCFileLens
  Calls <- MCCalls
  Other = v
  Second = w2
  PieceLen = 2
  Callers = {u, v}
  Workers = {w1, w2}
  MaxEvents = 1
INVARIANTS
  TypeOK
  HeldIsRight
  OnlyMissedIsLost
  QuietWhenClosed
PROPERTIES
  HeldStays
  StopReturns
  SeedingSettles
CHECK_DEADLOCK FALSE
