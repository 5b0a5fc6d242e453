SPECIFICATION FairSpec
CONSTANTS
  SendWindow = 3
  RecvWindow = 3
  MaxSendBuffer = 3
  MaxRecvBuffer = 3
  MaxRetx = 6
  PrematureRto = FALSE
  MaxPackets = 5
  MaxLosses = 3
CHECK_DEADLOCK FALSE
INVARIANTS
  TimerOrExhausted
PROPERTIES
  GuaranteedDelivery
