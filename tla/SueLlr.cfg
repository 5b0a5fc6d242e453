SPECIFICATION FairSpec
CONSTANTS
  nic = nic
  port = port
  MaxPackets = 2
  MaxLosses = 1
INVARIANTS
  TypeOK
  PortPassesInOrder
PROPERTY
  DeliveredUnlessLost
CHECK_DEADLOCK FALSE
