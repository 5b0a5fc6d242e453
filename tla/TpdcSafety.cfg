SPECIFICATION DeliverySpec
CONSTANTS
  SendWindow = 3
  RecvWindow = 2
  MaxSendBuffer = 3
  MaxRecvBuffer = 1
  MaxRetx = 1
  PrematureRto = TRUE
  MaxPackets = 4
  MaxLosses = 2
CHECK_DEADLOCK FALSE
INVARIANTS
  ForgottenWasHandedUp
  TypeOK
  AcksAreTrue
PROPERTIES
  NeverReneges
  StreamSpec
