SPECIFICATION FairSpec
CONSTANTS
  r1 = r1
  r2 = r2
  w1 = w1
  p = p
  q = q
  Reads = {r1, r2}
  Others = {w1}
  Peers = {p, q}
  PeerOf <- MCPeerOf
  ReadLimit = 2
  MaxAsks = 3
INVARIANTS
  TypeOK
  NoResponseStranded
  NewestAnswered
  ReadBudgetCovered
PROPERTY
  ResponsesSent
CHECK_DEADLOCK FALSE
