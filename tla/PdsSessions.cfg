SPECIFICATION Spec
CONSTANTS
  Peers = {p, q}
  Reliable = {"RUD"}
  Unreliable = {"UUD"}
  MaxPdcCount = 2
  PeerRoom = 1
  MaxPdcId = 2
  MaxPackets = 4
INVARIANTS
  TypeOK
  IdsAccountedFor
  OneContextPerSession
  FirstUseDelivers
CHECK_DEADLOCK FALSE
