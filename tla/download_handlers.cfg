SPECIFICATION ProgressSpec
CONSTANTS
  None = None
  Remote <- MCRemote
  Budget <- MCBudget
  Peers = {a, b}
  Pieces = {p1}
  Blocks = {x}
  PdIds = {d1, d2, d3}
  Resumed = {}
  MaxPipeline = 2
  ChanCap = 1
  BanAt = 2
  EndgamePercent = 70
  MaxCopies = 1
  Corrupt = 1
  MalformedBlocks = 0
  Timeouts = 0
  Stalls = 0
  Disconnects = 1
  Chokes = 1
  Cancels = 1
  Pauses = 0
  DiskFaults = 1
PROPERTIES
  HandlersEnd
