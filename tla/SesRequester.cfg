SPECIFICATION Spec
CONSTANTS
  s1 = s1
  s2 = s2
  w = w
  w2 = w2
  r = r
  near = near
  far = far
  Idle = Idle
  Sends = {s1, s2}
  Writes = {w}
  Reads = {r}
  Silent = {w}
  Peers = {near}
  PeerOf <- OnePeer
  Packets = 2
  PdcRoom = 4
  MessageLimit = 2
  MaxRetries = 2
  RetryEnabled = TRUE
INVARIANT TypeOK
INVARIANT LiveIsDriven
INVARIANT BudgetCovered
PROPERTY FinishedIsFinal
CHECK_DEADLOCK FALSE
