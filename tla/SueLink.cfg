SPECIFICATION FairSpec
CONSTANTS
  a = a
  b = b
  c = c
  Xpus = {a, b, c}
  Dest <- Incast
  Load <- IncastLoad
  Bytes = 308
  BytesPerCredit = 32
  LinkCredits = 20
  SwitchCredits = 20
  Batch = 11
  VcRoom = 3
  ProcRoom = 2
  MainRoom = 1
INVARIANTS
  TypeOK
  CreditsConserved
  Lossless
  WorkNotForgotten
PROPERTY
  PacketsDelivered
CHECK_DEADLOCK FALSE
