SPECIFICATION ServicesSpec
CONSTANTS
  Udp = {t1}
  Http = {h1, h2}
  FirstEntry <- MCFirstEntry
  Again = h2
  Before = h1
  Calls = {c1, c2}
  NoAnswer = NoAnswer
  Bits = 2
  K = 1
  Self = {}
  Others = {{0}, {1}, {0, 1}}
  BootNodes <- MCBootNodes
  Target = {1}
  FoundPeers = {"p1"}
  Responses <- MCResponses
  MaxEvents = 1
  Sources <- MCSources
  Enough = 2
  MaxAttempts = 2
  MaxConcurrent = 1
  Chunks = 2
  WrongTotals = {1}
  Programs = {"a", "b", "c"}
  Program <- MCProgram
  NoSession = NoSession
  EventCap = 1
  KeyCap = 1
  MaxKeys = 2
INVARIANTS
  ServicesTypeOK AnswerIsOurs TransactionsAwaited BucketsSound
  GivesUpForAReason HandlesMatch StopsTakeEffect SavedOnQuit
PROPERTIES
  OffForGood AnnounceReturns LookupsEnd FetchEnds QuitEnds
CHECK_DEADLOCK FALSE
