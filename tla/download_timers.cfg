SPECIFICATION Spec
CONSTANTS
  None = None
  Remote <- MCRemote
  Budget <- MCBudget
  Peers = {a, b}
  Pieces = {p1}
  Blocks = {x, y}
  PdIds = {d1, d2, d3, d4}
  Resumed = {}
  MaxPipeline = 2
  ChanCap = 2
  BanAt = 2
  EndgamePercent = 70
  MaxCopies = 1
  Corrupt = 1
  MalformedBlocks = 0
  Timeouts = 1
  Stalls = 1
  Disconnects = 0
  Chokes = 0
  Cancels = 0
  Pauses = 0
  DiskFaults = 0
SYMMETRY MCSymmetry
VIEW MCView
INVARIANTS
  TypeOK
  HeldIsVerified
  InProgressNotHeld
PROPERTIES
  HeldNotOverwritten
