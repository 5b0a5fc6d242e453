CONSTANTS
  Dests = {d1}
  TransactionSize = 2
  HeaderSize = 1
  MaxBurstSize = 4
  DestQueueRoom = 9
  VcRoom = 21
  SchedulingInterval = 10
  PackingDelay = 3
  TotalTransactions = 10
  d1 = d1

SPECIFICATION Spec

INVARIANT
  RemovedWasSent

CHECK_DEADLOCK FALSE
