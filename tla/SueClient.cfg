CONSTANTS
  Dests = {d1, d2}
  TransactionSize = 2
  HeaderSize = 1
  MaxBurstSize = 4
  DestQueueRoom = 5
  VcRoom = 16
  SchedulingInterval = 10
  PackingDelay = 3
  TotalTransactions = 7
  d1 = d1
  d2 = d2

SPECIFICATION FairSpec

INVARIANTS
  TypeOK
  TransactionsInOrder
  CapacityCovered

PROPERTY
  EveryTransactionSent

CHECK_DEADLOCK FALSE
