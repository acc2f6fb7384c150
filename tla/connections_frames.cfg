SPECIFICATION Spec
CONSTANTS
  None = None
  Addrs = {a1}
  Dials = {d1, d2}
  Incoming = {u1}
  Scopes <- MCScopes
  MaxPeers = 2
  TargetPeers = 10
  MaxConcurrent = 1
INVARIANTS
  MessagesWhole
CHECK_DEADLOCK FALSE
