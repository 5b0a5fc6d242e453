SPECIFICATION Spec
CONSTANTS
  Sends = {s1, s2}
  Reads = {r1}
  Pdcs = {p1, p2}
  NumChunks = 2
  MaxArrivalBlocks = 3
  MaxUnexpectedMessages = 2
  MaxUnexpectedBytes = 4
  MaxReadTracks = 1
  Ttl = 1
INVARIANTS
  TypeOK
  PoolsMatchContexts
  TombstoneShutsOut
  NoMissedMatch
  MatchedHasReceive
PROPERTIES
  AcceptedIsKept
