SPECIFICATION Spec
CONSTANTS
  s1 = s1
  s2 = s2
  w = w
  w2 = w2
  r = r
  near = near
  far = far
  Idle = Idle
  Sends = {s1, s2}
  Writes = {w}
  Reads = {r}
  Silent = {w}
  Peers = {near}
  PeerOf <- OnePeer
  Packets = 1
  PdcRoom = 2
  MessageLimit = 1
  MaxRetries = 1
  RetryEnabled = TRUE
INVARIANT AdmissionReturned
CHECK_DEADLOCK FALSE
