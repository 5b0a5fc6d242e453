-------------------------- MODULE PdsReceiveProofs --------------------------
(***************************************************************************)
(* Theorems about the semantic receive state of a PdsManager, for pools,   *)
(* messages, PDCs and times-to-live of any size.                           *)
(***************************************************************************)
EXTENDS PdsReceive, FiniteSetTheorems, TLAPS

USE PdsReceiveAssumption

(* READ responses are collected in contexts of their own mode.             *)
ModesFitKeys == \A k \in Active : ctx[k].mode = "read" <=> k[1] \in Reads

IInv ==
  /\ TypeOK
  /\ ModesFitKeys
  /\ PoolsMatchContexts
  /\ TombstoneShutsOut
  /\ NoMissedMatch
  /\ MatchedHasReceive

-----------------------------------------------------------------------------
(* The pools.                                                              *)

(* NumChunks times a number of contexts is a number, and distributes over  *)
(* a difference of two of them.                                            *)
LEMMA ChunkArithmetic ==
  ASSUME NEW a \in Nat, NEW b \in Nat
  PROVE  /\ NumChunks * a \in Nat
         /\ b <= a => /\ NumChunks * (a - b) = NumChunks * a - NumChunks * b
                      /\ NumChunks * b <= NumChunks * a
         /\ NumChunks * (a + 1) = NumChunks * a + NumChunks
  OBVIOUS

(* A subset of a finite set leaves the difference of their sizes.          *)
LEMMA SizeOfRest ==
  ASSUME NEW K, IsFiniteSet(K), NEW S \in SUBSET K
  PROVE  /\ Cardinality(S) \in Nat
         /\ Cardinality(K) \in Nat
         /\ Cardinality(S) <= Cardinality(K)
         /\ Cardinality(K \ S) = Cardinality(K) - Cardinality(S)
<1>1. IsFiniteSet(S) /\ Cardinality(S) <= Cardinality(K)
  BY FS_Subset
<1>2. Cardinality(K \ S) = Cardinality(K) - Cardinality(K \cap S)
  BY FS_Difference, Zenon
<1>3. K \cap S = S
  OBVIOUS
<1>4. Cardinality(S) \in Nat /\ Cardinality(K) \in Nat
  BY <1>1, FS_CardinalityType
<1> QED BY <1>1, <1>2, <1>3, <1>4

(* Counters that match a set of contexts are numbers.                      *)
LEMMA BackedIsNatural ==
  ASSUME NEW p, NEW c, NEW K, IsFiniteSet(K), Backed(p, c, K)
  PROVE  /\ p.arrivals \in Nat
         /\ p.unexpected \in Nat
         /\ p.bytes \in Nat
         /\ p.tracks \in Nat
<1>1. /\ IsFiniteSet(Unexpected(c, K))
      /\ IsFiniteSet(Tracked(c, K))
  BY FS_Subset DEF Unexpected, Tracked
<1>2. /\ Cardinality(K) \in Nat
      /\ Cardinality(Unexpected(c, K)) \in Nat
      /\ Cardinality(Tracked(c, K)) \in Nat
  BY <1>1, FS_CardinalityType
<1> QED BY <1>2 DEF Backed

(* RetireContextResources keeps the counters backed and never needs the    *)
(* clamp at zero.                                                          *)
LEMMA ReleasedBacked ==
  ASSUME NEW p, NEW c, NEW K, IsFiniteSet(K), NEW S \in SUBSET K, Backed(p, c, K)
  PROVE  /\ Backed(Released(p, c, S), c, K \ S)
         /\ Released(p, c, S) \in Pools
         /\ WithinLimits(p) => WithinLimits(Released(p, c, S))
<1> DEFINE UK == Unexpected(c, K)
           US == Unexpected(c, S)
           TK == Tracked(c, K)
           TS == Tracked(c, S)
           q  == Released(p, c, S)
<1>1. /\ US \in SUBSET UK /\ TS \in SUBSET TK
      /\ IsFiniteSet(UK) /\ IsFiniteSet(TK)
  BY FS_Subset DEF Unexpected, Tracked
<1>2. Unexpected(c, K \ S) = UK \ US /\ Tracked(c, K \ S) = TK \ TS
  BY DEF Unexpected, Tracked
<1>3. /\ Cardinality(S) \in Nat /\ Cardinality(K) \in Nat
      /\ Cardinality(S) <= Cardinality(K)
      /\ Cardinality(K \ S) = Cardinality(K) - Cardinality(S)
  BY SizeOfRest
<1>4. /\ Cardinality(US) \in Nat /\ Cardinality(UK) \in Nat
      /\ Cardinality(US) <= Cardinality(UK)
      /\ Cardinality(UK \ US) = Cardinality(UK) - Cardinality(US)
  BY <1>1, SizeOfRest
<1>5. /\ Cardinality(TS) \in Nat /\ Cardinality(TK) \in Nat
      /\ Cardinality(TS) <= Cardinality(TK)
      /\ Cardinality(TK \ TS) = Cardinality(TK) - Cardinality(TS)
  BY <1>1, SizeOfRest
<1>6. /\ p.arrivals = Cardinality(K)
      /\ p.unexpected = Cardinality(UK)
      /\ p.bytes = NumChunks * Cardinality(UK)
      /\ p.tracks = Cardinality(TK)
  BY DEF Backed
<1>7. q = [arrivals   |-> Minus(p.arrivals, Cardinality(S)),
           unexpected |-> Minus(p.unexpected, Cardinality(US)),
           bytes      |-> Minus(p.bytes, NumChunks * Cardinality(US)),
           tracks     |-> Minus(p.tracks, Cardinality(TS))]
  BY DEF Released
<1>8. /\ NumChunks * Cardinality(UK) \in Nat /\ NumChunks * Cardinality(US) \in Nat
      /\ NumChunks * (Cardinality(UK) - Cardinality(US))
           = NumChunks * Cardinality(UK) - NumChunks * Cardinality(US)
      /\ NumChunks * Cardinality(US) <= NumChunks * Cardinality(UK)
  BY <1>4, ChunkArithmetic
<1> HIDE DEF UK, US, TK, TS, q
<1>9. /\ q.arrivals = Cardinality(K) - Cardinality(S)
      /\ q.unexpected = Cardinality(UK) - Cardinality(US)
      /\ q.bytes = NumChunks * Cardinality(UK) - NumChunks * Cardinality(US)
      /\ q.tracks = Cardinality(TK) - Cardinality(TS)
      /\ q = [arrivals |-> q.arrivals, unexpected |-> q.unexpected,
              bytes |-> q.bytes, tracks |-> q.tracks]
  BY <1>3, <1>4, <1>5, <1>6, <1>7, <1>8 DEF Minus
<1>10. Backed(q, c, K \ S)
  BY <1>2, <1>3, <1>4, <1>5, <1>8, <1>9 DEF Backed
<1>11. q \in Pools
  <2>1. /\ q.arrivals \in Nat /\ q.unexpected \in Nat
        /\ q.bytes \in Nat /\ q.tracks \in Nat
    BY <1>3, <1>4, <1>5, <1>8, <1>9
  <2> QED BY <2>1, <1>9 DEF Pools
<1>12. WithinLimits(p) => WithinLimits(q)
  <2>1. /\ q.arrivals <= p.arrivals /\ q.unexpected <= p.unexpected
        /\ q.bytes <= p.bytes /\ q.tracks <= p.tracks
    BY <1>3, <1>4, <1>5, <1>6, <1>8, <1>9
  <2>2. /\ q.arrivals \in Nat /\ q.unexpected \in Nat
        /\ q.bytes \in Nat /\ q.tracks \in Nat
    BY <1>11 DEF Pools
  <2>3. /\ p.arrivals \in Nat /\ p.unexpected \in Nat
        /\ p.bytes \in Nat /\ p.tracks \in Nat
    BY <1>3, <1>4, <1>5, <1>6, <1>8
  <2> QED BY <2>1, <2>2, <2>3 DEF WithinLimits
<1> QED BY <1>10, <1>11, <1>12 DEF q

(* Only the kinds of the contexts matter to the pools.                     *)
LEMMA BackedByKinds ==
  ASSUME NEW p, NEW c, NEW d, NEW K, Backed(p, c, K),
         \A k \in K : /\ c[k].mode \in {"buffered", "matched"}
                           <=> d[k].mode \in {"buffered", "matched"}
                      /\ c[k].mode = "read" <=> d[k].mode = "read"
  PROVE  Backed(p, d, K)
<1>1. Unexpected(c, K) = Unexpected(d, K) /\ Tracked(c, K) = Tracked(d, K)
  BY DEF Unexpected, Tracked
<1> QED BY <1>1 DEF Backed

(* Taking a new context's share keeps the counters backed and within their *)
(* limits, when the pools have room for it.                                *)
LEMMA ReservedBacked ==
  ASSUME IsFiniteSet(Live), PrunedPool \in Pools, WithinLimits(PrunedPool),
         Backed(PrunedPool, ctx, Live),
         NEW k, k \notin Live, NEW d, NEW mode, d[k].mode = mode,
         mode \in {"direct", "buffered", "read"},
         \A i \in Live : d[i] = ctx[i],
         CanReserve(mode)
  PROVE  /\ Backed(Reserved(mode), d, Live \cup {k})
         /\ Reserved(mode) \in Pools
         /\ WithinLimits(Reserved(mode))
<1> DEFINE u == IF mode = "buffered" THEN 1 ELSE 0
           r == IF mode = "read" THEN 1 ELSE 0
           q == Reserved(mode)
           UL == Unexpected(ctx, Live)
           TL == Tracked(ctx, Live)
           UN == Unexpected(d, Live \cup {k})
           TN == Tracked(d, Live \cup {k})
<1>1. /\ UN = IF mode = "buffered" THEN UL \cup {k} ELSE UL
      /\ TN = IF mode = "read" THEN TL \cup {k} ELSE TL
  BY DEF Unexpected, Tracked
<1>2. /\ IsFiniteSet(UL) /\ IsFiniteSet(TL) /\ k \notin UL /\ k \notin TL
  BY FS_Subset DEF Unexpected, Tracked
<1>3. /\ Cardinality(UL) \in Nat /\ Cardinality(TL) \in Nat /\ Cardinality(Live) \in Nat
      /\ Cardinality(UL \cup {k}) = Cardinality(UL) + 1
      /\ Cardinality(TL \cup {k}) = Cardinality(TL) + 1
      /\ Cardinality(Live \cup {k}) = Cardinality(Live) + 1
  BY <1>2, FS_AddElement, FS_CardinalityType
<1>4. /\ Cardinality(UN) = Cardinality(UL) + u
      /\ Cardinality(TN) = Cardinality(TL) + r
  BY <1>1, <1>3
<1>5. /\ PrunedPool.arrivals = Cardinality(Live)
      /\ PrunedPool.unexpected = Cardinality(UL)
      /\ PrunedPool.bytes = NumChunks * Cardinality(UL)
      /\ PrunedPool.tracks = Cardinality(TL)
  BY DEF Backed
<1>6. /\ q.arrivals = PrunedPool.arrivals + 1
      /\ q.unexpected = PrunedPool.unexpected + u
      /\ q.bytes = PrunedPool.bytes + u * NumChunks
      /\ q.tracks = PrunedPool.tracks + r
      /\ q = [arrivals |-> q.arrivals, unexpected |-> q.unexpected,
              bytes |-> q.bytes, tracks |-> q.tracks]
  BY DEF Reserved
<1>7. /\ NumChunks * (Cardinality(UL) + 1) = NumChunks * Cardinality(UL) + NumChunks
      /\ NumChunks * Cardinality(UL) \in Nat
  BY <1>3, ChunkArithmetic
<1>8. u \in {0, 1} /\ r \in {0, 1} /\ u * NumChunks = IF u = 1 THEN NumChunks ELSE 0
  OBVIOUS
<1>9. /\ PrunedPool.arrivals < MaxArrivalBlocks
      /\ u = 1 => /\ PrunedPool.unexpected < MaxUnexpectedMessages
                  /\ PrunedPool.bytes + NumChunks <= MaxUnexpectedBytes
      /\ r = 1 => PrunedPool.tracks < MaxReadTracks
  BY DEF CanReserve
<1>10. /\ PrunedPool.unexpected <= MaxUnexpectedMessages
       /\ PrunedPool.bytes <= MaxUnexpectedBytes
       /\ PrunedPool.tracks <= MaxReadTracks
  BY DEF WithinLimits
<1> HIDE DEF u, r, q, UL, TL, UN, TN
<1>11. Backed(q, d, Live \cup {k})
  BY <1>3, <1>4, <1>5, <1>6, <1>7, <1>8 DEF Backed, UN, TN
<1>12. /\ q.arrivals \in Nat /\ q.unexpected \in Nat /\ q.bytes \in Nat /\ q.tracks \in Nat
  BY <1>3, <1>5, <1>6, <1>7, <1>8
<1>13. q \in Pools
  BY <1>6, <1>12 DEF Pools
<1>14. WithinLimits(q)
  <2>1. q.arrivals <= MaxArrivalBlocks
    BY <1>3, <1>5, <1>6, <1>9
  <2>2. q.unexpected <= MaxUnexpectedMessages /\ q.tracks <= MaxReadTracks
    BY <1>3, <1>5, <1>6, <1>8, <1>9, <1>10
  <2>3. q.bytes <= MaxUnexpectedBytes
    BY <1>3, <1>5, <1>6, <1>7, <1>8, <1>9, <1>10
  <2> QED BY <2>1, <2>2, <2>3 DEF WithinLimits
<1> QED BY <1>11, <1>13, <1>14 DEF q

-----------------------------------------------------------------------------
(* What PruneReceiveState leaves satisfies the invariant.                  *)

(* The part of the invariant that PruneReceiveState leaves to its callers. *)
LEMMA PrunedFacts ==
  ASSUME IInv
  PROVE  /\ Live \subseteq Keys /\ IsFiniteSet(Live)
         /\ PrunedPool \in Pools
         /\ Backed(PrunedPool, ctx, Live)
         /\ WithinLimits(PrunedPool)
         /\ LiveTombs \subseteq Sends /\ LiveTargets \subseteq Reads /\ posted \subseteq Sends
         /\ \A m \in LiveTombs : tombs[m] \in 0 .. (Ttl + 1)
         /\ \A k \in Live :
              /\ ctx[k] \in Contexts
              /\ ctx[k].mode = "read" <=> k[1] \in Reads
              /\ k[1] \in LiveTombs => /\ ctx[k].mode \in {"direct", "matched"}
                                       /\ ctx[k].age >= tombs[k[1]]
              /\ ctx[k].mode \in {"direct", "matched"} =>
                   k[1] \in posted \/ k[1] \in LiveTombs
              /\ ctx[k].mode = "buffered" => k[1] \notin posted
<1>1. Active \subseteq Keys /\ IsFiniteSet(Active)
  <2>1. IsFiniteSet(Sends \cup Reads)
    BY FS_Union
  <2>2. IsFiniteSet(Keys)
    BY <2>1, FS_Product DEF Keys
  <2> QED BY <2>2, FS_Subset DEF IInv, TypeOK
<1>2. Live \subseteq Active /\ Stale \subseteq Active /\ Active \ Stale = Live
  BY DEF Live, Stale
<1>3. IsFiniteSet(Live)
  BY <1>1, <1>2, FS_Subset
<1>4. Backed(pool, ctx, Active) /\ WithinLimits(pool)
  BY DEF IInv, PoolsMatchContexts
<1>5. /\ PrunedPool \in Pools
      /\ Backed(PrunedPool, ctx, Live)
      /\ WithinLimits(PrunedPool)
  BY <1>1, <1>2, <1>4, ReleasedBacked DEF PrunedPool
<1>6. /\ LiveTombs \subseteq Sends /\ LiveTargets \subseteq Reads /\ posted \subseteq Sends
      /\ \A m \in LiveTombs : tombs[m] \in 0 .. (Ttl + 1)
  BY DEF IInv, TypeOK, LiveTombs, LiveTargets
<1>7. ASSUME NEW k \in Live
      PROVE  /\ ctx[k] \in Contexts
             /\ ctx[k].mode = "read" <=> k[1] \in Reads
             /\ k[1] \in DOMAIN tombs => /\ ctx[k].mode \in {"direct", "matched"}
                                         /\ ctx[k].age >= tombs[k[1]]
             /\ ctx[k].mode \in {"direct", "matched"} =>
                  k[1] \in posted \/ k[1] \in DOMAIN tombs
             /\ ctx[k].mode = "buffered" => k[1] \notin posted
             /\ ctx[k].age < Ttl
  <2>1. k \in Active /\ ~(ctx[k].age >= Ttl)
    BY DEF Live, Stale
  <2>2. ctx[k] \in Contexts
    BY <2>1 DEF IInv, TypeOK
  <2>3. ctx[k].age \in 0 .. (Ttl + 1)
    BY <2>2 DEF Contexts
  <2> QED BY <2>1, <2>2, <2>3
          DEF IInv, ModesFitKeys, TombstoneShutsOut, NoMissedMatch, MatchedHasReceive
<1>8. ASSUME NEW k \in Live, k[1] \in DOMAIN tombs
      PROVE  k[1] \in LiveTombs
  <2>1. tombs[k[1]] \in 0 .. (Ttl + 1)
    BY <1>8 DEF IInv, TypeOK
  <2>2. ctx[k].age \in 0 .. (Ttl + 1)
    BY <1>7 DEF Contexts
  <2> QED BY <1>7, <1>8, <2>1, <2>2 DEF LiveTombs
<1>9. \A m \in LiveTombs : m \in DOMAIN tombs
  BY DEF LiveTombs
<1> QED BY <1>1, <1>2, <1>3, <1>5, <1>6, <1>7, <1>8, <1>9

-----------------------------------------------------------------------------
(* Every operation preserves the invariant.                                *)

(* Nothing is held at the start, nor after a reset.                        *)
LEMMA EmptyInv == Init => IInv
<1> SUFFICES ASSUME Init PROVE IInv
  OBVIOUS
<1> USE DEF Init
<1>1. Active = {} /\ DOMAIN tombs = {}
  BY DEF Active
<1>2. Unexpected(ctx, Active) = {} /\ Tracked(ctx, Active) = {}
  BY <1>1 DEF Unexpected, Tracked
<1>3. Cardinality({}) = 0 /\ NumChunks * 0 = 0
  BY FS_EmptySet
<1>4. Backed(pool, ctx, Active)
  BY <1>1, <1>2, <1>3 DEF Backed
<1>5. pool \in Pools /\ WithinLimits(pool)
  BY DEF Pools, WithinLimits
<1>6. TypeOK
  BY <1>1, <1>5 DEF TypeOK
<1> QED BY <1>1, <1>4, <1>5, <1>6 DEF IInv, ModesFitKeys, PoolsMatchContexts,
           TombstoneShutsOut, NoMissedMatch, MatchedHasReceive

(* A handler that only prunes.                                             *)
LEMMA PruneOnlyInv ==
  ASSUME IInv, ctx' = PrunedCtx, tombs' = PrunedTombs, pool' = PrunedPool,
         targets' \in SUBSET Reads, posted' = posted
  PROVE  IInv'
<1>1. DOMAIN ctx' = Live /\ DOMAIN tombs' = LiveTombs
  BY DEF PrunedCtx, PrunedTombs
<1>2. /\ \A k \in Live : ctx'[k] = ctx[k]
      /\ \A m \in LiveTombs : tombs'[m] = tombs[m]
  BY DEF PrunedCtx, PrunedTombs
<1>3. TypeOK'
  BY <1>1, <1>2, PrunedFacts DEF TypeOK, Active, PrunedCtx, PrunedTombs
<1>4. PoolsMatchContexts'
  <2>1. Backed(pool', ctx', DOMAIN ctx')
    BY <1>1, <1>2, PrunedFacts, BackedByKinds
  <2> QED BY <2>1, PrunedFacts DEF Active, PoolsMatchContexts
<1>5. ModesFitKeys' /\ TombstoneShutsOut' /\ NoMissedMatch' /\ MatchedHasReceive'
  BY <1>1, <1>2, PrunedFacts
     DEF Active, ModesFitKeys, TombstoneShutsOut, NoMissedMatch, MatchedHasReceive
<1> QED BY <1>3, <1>4, <1>5 DEF IInv

(* A chunk is stored, in a new context or in one that is alive.            *)
LEMMA StoreInv ==
  ASSUME IInv, NEW k \in Keys, NEW c \in Chunks, k[1] \notin LiveTombs, Store(k, c)
  PROVE  IInv'
<1> DEFINE chunks == {c} \cup (IF k \in Live THEN ctx[k].chunks ELSE {})
           mode   == MatchedMode(k)
           here   == [i \in Live \cup {k} |->
                        IF i = k THEN [mode |-> mode, chunks |-> chunks, age |-> 0]
                        ELSE ctx[i]]
           held   == IF k \in Live THEN PrunedPool ELSE Reserved(ArrivalMode(k))
<1>1. /\ mode \in Modes
      /\ mode = "read" <=> k[1] \in Reads
      /\ mode = "buffered" => k[1] \notin posted
      /\ mode \in {"direct", "matched"} => k[1] \in posted
      /\ mode = "read" <=> ArrivalMode(k) = "read"
      /\ mode \in {"buffered", "matched"} <=> ArrivalMode(k) \in {"buffered", "matched"}
  <2>1. CASE k \in Live
    BY <2>1, PrunedFacts DEF MatchedMode, ArrivalMode, Contexts, Modes
  <2>2. CASE k \notin Live
    BY <2>2, PrunedFacts DEF MatchedMode, ArrivalMode, Modes
  <2> QED BY <2>1, <2>2
<1>2. chunks \in SUBSET Chunks
  BY PrunedFacts DEF Contexts
<1>3. /\ \A i \in Live \ {k} : here[i] = ctx[i]
      /\ here[k] = [mode |-> mode, chunks |-> chunks, age |-> 0]
      /\ DOMAIN here = Live \cup {k}
  OBVIOUS
<1>4. [mode |-> mode, chunks |-> chunks, age |-> 0] \in Contexts
  <2> HIDE DEF mode, chunks
  <2> QED BY <1>1, <1>2 DEF Contexts
<1>5. \A i \in Live \cup {k} : here[i] \in Contexts
  BY <1>3, <1>4, PrunedFacts
<1>6. here[k].mode = mode /\ here[k].age = 0
  BY <1>3
<1> HIDE DEF chunks, mode, here
<1>7. /\ Backed(held, here, Live \cup {k})
      /\ held \in Pools /\ WithinLimits(held)
  <2>1. CASE k \in Live
    <3>1. Live \cup {k} = Live /\ held = PrunedPool
      BY <2>1
    <3>2. ArrivalMode(k) = ctx[k].mode
      BY <2>1 DEF ArrivalMode
    <3>3. \A i \in Live :
            /\ ctx[i].mode \in {"buffered", "matched"} <=> here[i].mode \in {"buffered", "matched"}
            /\ ctx[i].mode = "read" <=> here[i].mode = "read"
      BY <1>1, <1>3, <1>6, <3>2
    <3>4. Backed(PrunedPool, here, Live)
      BY <3>3, PrunedFacts, BackedByKinds
    <3> QED BY <3>1, <3>4, PrunedFacts
  <2>2. CASE k \notin Live
    <3>1. held = Reserved(ArrivalMode(k)) /\ CanReserve(ArrivalMode(k))
      BY <2>2 DEF Store
    <3>2. ArrivalMode(k) \in {"direct", "buffered", "read"}
      BY <2>2 DEF ArrivalMode
    <3> DEFINE d == [i \in Live \cup {k} |->
                       IF i = k THEN [mode |-> ArrivalMode(k)] ELSE ctx[i]]
    <3>3. d[k].mode = ArrivalMode(k) /\ \A i \in Live : d[i] = ctx[i]
      BY <2>2
    <3>4. /\ Backed(Reserved(ArrivalMode(k)), d, Live \cup {k})
          /\ Reserved(ArrivalMode(k)) \in Pools
          /\ WithinLimits(Reserved(ArrivalMode(k)))
      <4> HIDE DEF d
      <4> QED BY <2>2, <3>1, <3>2, <3>3, PrunedFacts, ReservedBacked
    <3>5. \A i \in Live \cup {k} :
            /\ d[i].mode \in {"buffered", "matched"} <=> here[i].mode \in {"buffered", "matched"}
            /\ d[i].mode = "read" <=> here[i].mode = "read"
      <4> HIDE DEF d
      <4> QED BY <2>2, <1>1, <1>3, <1>6, <3>3
    <3>6. Backed(Reserved(ArrivalMode(k)), here, Live \cup {k})
      <4> HIDE DEF d
      <4> QED BY <3>4, <3>5, BackedByKinds
    <3> QED BY <3>1, <3>4, <3>6
  <2> QED BY <2>1, <2>2
<1> HIDE DEF held
<1>8. CASE /\ chunks # Chunks \/ mode = "buffered"
           /\ ctx' = here
           /\ pool' = held
           /\ tombs' = PrunedTombs
           /\ targets' = LiveTargets
           /\ UNCHANGED posted
  <2>1. /\ DOMAIN ctx' = Live \cup {k} /\ DOMAIN tombs' = LiveTombs
        /\ \A m \in LiveTombs : tombs'[m] = tombs[m]
    BY <1>3, <1>8 DEF PrunedTombs
  <2>2. TypeOK'
    BY <1>3, <1>5, <1>7, <1>8, <2>1, PrunedFacts DEF TypeOK, Active, PrunedTombs, here
  <2>3. PoolsMatchContexts'
    BY <1>7, <1>8, <2>1 DEF Active, PoolsMatchContexts
  <2>4. ModesFitKeys' /\ TombstoneShutsOut' /\ NoMissedMatch' /\ MatchedHasReceive'
    BY <1>1, <1>3, <1>6, <1>8, <2>1, PrunedFacts
       DEF Active, ModesFitKeys, TombstoneShutsOut, NoMissedMatch, MatchedHasReceive
  <2> QED BY <2>2, <2>3, <2>4 DEF IInv
<1>9. CASE /\ chunks = Chunks /\ mode # "buffered"
           /\ ctx' = [i \in Live \ {k} |-> ctx[i]]
           /\ pool' = Released(held, here, {k})
           /\ tombs' = [m \in LiveTombs \cup Buried(k) |-> IF m = k[1] THEN 0 ELSE tombs[m]]
           /\ targets' = LiveTargets \ {k[1]}
           /\ posted' = posted \ {k[1]}
  <2>1. /\ DOMAIN ctx' = Live \ {k} /\ DOMAIN tombs' = LiveTombs \cup Buried(k)
        /\ \A i \in Live \ {k} : ctx'[i] = ctx[i]
        /\ \A m \in DOMAIN tombs' : tombs'[m] = IF m = k[1] THEN 0 ELSE tombs[m]
    BY <1>9
  <2>2. Buried(k) \subseteq Sends /\ \A m \in Buried(k) : m = k[1]
    BY DEF Buried
  <2>3. TypeOK'
    <3>1. /\ Backed(Released(held, here, {k}), here, (Live \cup {k}) \ {k})
          /\ Released(held, here, {k}) \in Pools
      BY <1>7, PrunedFacts, FS_AddElement, ReleasedBacked
    <3>2. ctx' \in [DOMAIN ctx' -> Contexts]
      BY <1>9, <2>1, PrunedFacts
    <3>3. tombs' \in [DOMAIN tombs' -> 0 .. (Ttl + 1)]
      BY <1>9, <2>1, <2>2, PrunedFacts
    <3> QED BY <1>9, <2>1, <2>2, <3>1, <3>2, <3>3, PrunedFacts DEF TypeOK, Active
  <2>4. PoolsMatchContexts'
    <3>1. IsFiniteSet(Live \cup {k}) /\ {k} \in SUBSET (Live \cup {k})
      BY PrunedFacts, FS_AddElement
    <3>2. /\ Backed(Released(held, here, {k}), here, (Live \cup {k}) \ {k})
          /\ WithinLimits(Released(held, here, {k}))
      BY <1>7, <3>1, ReleasedBacked
    <3>3. (Live \cup {k}) \ {k} = Live \ {k}
      OBVIOUS
    <3>4. Backed(pool', here, Live \ {k})
      BY <1>9, <3>2, <3>3
    <3>5. \A i \in Live \ {k} : here[i] = ctx'[i]
      BY <1>3, <2>1
    <3>6. Backed(pool', ctx', Live \ {k})
      BY <3>4, <3>5, BackedByKinds
    <3> QED BY <1>9, <2>1, <3>2, <3>6 DEF Active, PoolsMatchContexts
  <2>5. k[1] \in posted \/ k[1] \in Reads
    BY <1>1, <1>9 DEF Modes
  <2>6. ASSUME NEW i \in Live \ {k}
        PROVE  /\ ctx[i].mode = "read" <=> i[1] \in Reads
               /\ i[1] \in DOMAIN tombs' => /\ ctx[i].mode \in {"direct", "matched"}
                                            /\ ctx[i].age >= tombs'[i[1]]
               /\ ctx[i].mode = "buffered" => i[1] \notin posted'
               /\ ctx[i].mode \in {"direct", "matched"} =>
                    i[1] \in posted' \/ i[1] \in DOMAIN tombs'
    <3>1. ctx[i].mode \in Modes /\ ctx[i].age \in Nat /\ i \in Keys
      BY PrunedFacts DEF Contexts
    <3>2. CASE i[1] # k[1]
      BY <1>9, <2>1, <2>2, <3>2, PrunedFacts
    <3>3. CASE i[1] = k[1] /\ k[1] \in Reads
      <4>1. k[1] \notin Sends /\ Buried(k) = {} /\ ctx[i].mode = "read"
        BY <3>3, PrunedFacts DEF Buried
      <4> QED BY <1>9, <2>1, <3>3, <4>1, PrunedFacts
    <3>4. CASE i[1] = k[1] /\ k[1] \in posted
      <4>1. k[1] \in Sends /\ k[1] \in Buried(k) /\ k[1] \notin Reads
        BY <3>4, PrunedFacts DEF Buried
      <4>2. ctx[i].mode \in {"direct", "matched"}
        BY <3>1, <3>4, <4>1, PrunedFacts DEF Modes
      <4> QED BY <1>9, <2>1, <3>1, <3>4, <4>1, <4>2
    <3> QED BY <2>5, <3>2, <3>3, <3>4
  <2>7. ModesFitKeys' /\ TombstoneShutsOut' /\ NoMissedMatch' /\ MatchedHasReceive'
    BY <2>1, <2>6 DEF Active, ModesFitKeys, TombstoneShutsOut, NoMissedMatch, MatchedHasReceive
  <2> QED BY <2>3, <2>4, <2>7 DEF IInv
<1> QED BY <1>8, <1>9 DEF Store, chunks, mode, here, held

(* A receive is posted.                                                    *)
LEMMA RegisterPostedReceiveInv ==
  ASSUME IInv, NEW m \in Sends, RegisterPostedReceive(m)
  PROVE  IInv'
<1> DEFINE waiting  == {k \in Live : k[1] = m /\ ctx[k].mode = "buffered"}
           complete == {k \in waiting : ctx[k].chunks = Chunks}
           buried   == {k[1] : k \in complete}
<1>1. /\ ctx' = [k \in Live \ complete |->
                   IF k \in waiting THEN [ctx[k] EXCEPT !.mode = "matched"] ELSE ctx[k]]
      /\ pool' = Released(PrunedPool, ctx, complete)
      /\ tombs' = [n \in LiveTombs \cup buried |-> IF n \in buried THEN 0 ELSE tombs[n]]
      /\ targets' = LiveTargets
  BY DEF RegisterPostedReceive
<1>2. \/ posted' = posted \cup {m}
      \/ posted' = posted \ {m} /\ complete # {}
  BY DEF RegisterPostedReceive, Consumed
<1>3. /\ Active' = Live \ complete /\ DOMAIN tombs' = LiveTombs \cup buried
      /\ \A n \in DOMAIN tombs' : tombs'[n] = IF n \in buried THEN 0 ELSE tombs[n]
  BY <1>1 DEF Active
<1>4. buried \subseteq {m} /\ (complete # {} => buried = {m})
  OBVIOUS
<1>5. ASSUME NEW k \in Live \ complete
      PROVE  /\ ctx'[k] \in Contexts
             /\ ctx'[k].age = ctx[k].age
             /\ ctx'[k].mode = IF k \in waiting THEN "matched" ELSE ctx[k].mode
  <2>1. ctx[k] \in Contexts
    BY PrunedFacts
  <2>2. ctx'[k] = IF k \in waiting THEN [ctx[k] EXCEPT !.mode = "matched"] ELSE ctx[k]
    BY <1>1
  <2> HIDE DEF waiting, complete
  <2> QED BY <2>1, <2>2 DEF Contexts, Modes
<1>6. \A k \in waiting : k \in Live /\ k[1] = m /\ ctx[k].mode = "buffered"
  OBVIOUS
<1>7. \A k \in Live : k[1] = m /\ ctx[k].mode = "buffered" => k \in waiting
  OBVIOUS
<1>8. /\ Backed(Released(PrunedPool, ctx, complete), ctx, Live \ complete)
      /\ Released(PrunedPool, ctx, complete) \in Pools
      /\ WithinLimits(Released(PrunedPool, ctx, complete))
  <2>1. complete \in SUBSET Live
    OBVIOUS
  <2> HIDE DEF complete
  <2> QED BY <2>1, PrunedFacts, ReleasedBacked
<1> HIDE DEF waiting, complete, buried
<1>9. TypeOK'
  <2>1. ctx' \in [Active' -> Contexts]
    BY <1>1, <1>3, <1>5
  <2>2. tombs' \in [DOMAIN tombs' -> 0 .. (Ttl + 1)]
    BY <1>1, <1>3, <1>4, PrunedFacts
  <2>3. posted' \subseteq Sends
    BY <1>2, PrunedFacts
  <2> QED BY <1>1, <1>3, <1>4, <1>8, <2>1, <2>2, <2>3, PrunedFacts DEF TypeOK
<1>10. PoolsMatchContexts'
  <2>1. Backed(pool', ctx', Live \ complete)
    <3>1. \A k \in Live \ complete :
            /\ ctx[k].mode \in {"buffered", "matched"} <=> ctx'[k].mode \in {"buffered", "matched"}
            /\ ctx[k].mode = "read" <=> ctx'[k].mode = "read"
      BY <1>5, <1>6
    <3>2. Backed(pool', ctx, Live \ complete)
      BY <1>1, <1>8
    <3> QED BY <3>1, <3>2, BackedByKinds
  <2> QED BY <1>1, <1>3, <1>8, <2>1 DEF PoolsMatchContexts
<1>11. ASSUME NEW k \in Live \ complete
       PROVE  /\ ctx'[k].mode = "read" <=> k[1] \in Reads
              /\ k[1] \in DOMAIN tombs' => /\ ctx'[k].mode \in {"direct", "matched"}
                                           /\ ctx'[k].age >= tombs'[k[1]]
              /\ ctx'[k].mode = "buffered" => k[1] \notin posted'
              /\ ctx'[k].mode \in {"direct", "matched"} =>
                   k[1] \in posted' \/ k[1] \in DOMAIN tombs'
  <2>1. ctx[k].mode \in Modes /\ ctx[k].age \in Nat
    BY PrunedFacts DEF Contexts
  <2>2. CASE k[1] # m
    BY <1>2, <1>3, <1>4, <1>5, <1>6, <2>2, PrunedFacts
  <2>3. CASE k[1] = m
    <3>1. m \notin Reads /\ ctx[k].mode # "read"
      BY <2>3, PrunedFacts
    <3>2. ctx'[k].mode \in {"direct", "matched"}
      BY <1>5, <1>7, <2>1, <2>3, <3>1 DEF Modes
    <3>3. m \in posted' \/ m \in DOMAIN tombs'
      BY <1>2, <1>3, <1>4
    <3>4. m \in DOMAIN tombs' => ctx'[k].age >= tombs'[m]
      BY <1>3, <1>4, <1>5, <2>1, <2>3, PrunedFacts
    <3> QED BY <2>3, <3>1, <3>2, <3>3, <3>4
  <2> QED BY <2>2, <2>3
<1>12. ModesFitKeys' /\ TombstoneShutsOut' /\ NoMissedMatch' /\ MatchedHasReceive'
  BY <1>3, <1>11 DEF ModesFitKeys, TombstoneShutsOut, NoMissedMatch, MatchedHasReceive
<1> QED BY <1>9, <1>10, <1>12 DEF IInv

(* A READ target is given up; nothing else changes.                        *)
LEMMA UnregisterInv ==
  ASSUME IInv, NEW r \in Reads, UnregisterReadResponseTarget(r)
  PROVE  IInv'
  BY DEF UnregisterReadResponseTarget, IInv, TypeOK, ModesFitKeys, PoolsMatchContexts,
         TombstoneShutsOut, NoMissedMatch, MatchedHasReceive, Active, Backed, WithinLimits,
         Unexpected, Tracked

(* Contexts and tombstones grow older together.                            *)
LEMMA TickInv == IInv /\ Tick => IInv'
<1> SUFFICES ASSUME IInv, Tick PROVE IInv'
  OBVIOUS
<1>1. /\ Active' = Active /\ DOMAIN tombs' = DOMAIN tombs
      /\ \A k \in Active : ctx'[k] = [ctx[k] EXCEPT !.age = Older(@)]
      /\ \A m \in DOMAIN tombs : tombs'[m] = Older(tombs[m])
      /\ posted' = posted /\ targets' = targets /\ pool' = pool
  BY DEF Tick, Active
<1>2. \A a \in 0 .. (Ttl + 1) : Older(a) \in 0 .. (Ttl + 1)
  BY DEF Older
<1>3. \A a, b \in 0 .. (Ttl + 1) : a >= b => Older(a) >= Older(b)
  BY DEF Older
<1>4. ASSUME NEW k \in Active
      PROVE  /\ ctx[k] \in Contexts /\ ctx'[k] \in Contexts
             /\ ctx'[k].mode = ctx[k].mode
             /\ ctx'[k].age = Older(ctx[k].age)
             /\ ctx[k].age \in 0 .. (Ttl + 1)
  <2>1. ctx[k] \in Contexts
    BY DEF IInv, TypeOK
  <2>2. ctx[k].age \in 0 .. (Ttl + 1)
    BY <2>1 DEF Contexts
  <2> QED BY <1>1, <1>2, <2>1, <2>2 DEF Contexts
<1>5. \A m \in DOMAIN tombs : tombs[m] \in 0 .. (Ttl + 1)
  BY DEF IInv, TypeOK
<1>6. TypeOK'
  <2>1. ctx' \in [Active' -> Contexts] /\ tombs' \in [DOMAIN tombs' -> 0 .. (Ttl + 1)]
    BY <1>1, <1>2, <1>4, <1>5 DEF Tick
  <2> QED BY <1>1, <2>1 DEF IInv, TypeOK
<1>7. PoolsMatchContexts'
  <2>1. Backed(pool, ctx', Active)
    BY <1>4, BackedByKinds DEF IInv, PoolsMatchContexts
  <2> QED BY <1>1, <2>1 DEF IInv, PoolsMatchContexts
<1>8. TombstoneShutsOut'
  BY <1>1, <1>3, <1>4, <1>5 DEF IInv, TombstoneShutsOut
<1>9. ModesFitKeys' /\ NoMissedMatch' /\ MatchedHasReceive'
  BY <1>1, <1>4 DEF IInv, ModesFitKeys, NoMissedMatch, MatchedHasReceive
<1> QED BY <1>6, <1>7, <1>8, <1>9 DEF IInv

(* Every step of the receive state.                                        *)
LEMMA NextInv == IInv /\ [Next]_vars => IInv'
<1> SUFFICES ASSUME IInv, [Next]_vars PROVE IInv'
  OBVIOUS
<1>1. ASSUME PruneOnly PROVE IInv'
  BY <1>1, PruneOnlyInv, PrunedFacts DEF PruneOnly
<1>2. ASSUME NEW k \in Sends \X Pdcs, NEW c \in Chunks, SendChunk(k, c) PROVE IInv'
  <2>1. k \in Keys
    BY DEF Keys
  <2> QED BY <1>1, <1>2, <2>1, StoreInv DEF SendChunk, ReplaySend, Refuse
<1>3. ASSUME NEW k \in Reads \X Pdcs, NEW c \in Chunks, ReadChunk(k, c) PROVE IInv'
  <2>1. k \in Keys /\ k[1] \notin LiveTombs
    BY PrunedFacts DEF Keys
  <2> QED BY <1>1, <1>3, <2>1, StoreInv DEF ReadChunk, Refuse
<1>4. ASSUME NEW r \in Reads, RegisterReadResponseTarget(r) PROVE IInv'
  BY <1>4, PruneOnlyInv, PrunedFacts DEF RegisterReadResponseTarget
<1>5. ASSUME ResetReceiveState PROVE IInv'
  <2>1. Init'
    BY <1>5 DEF ResetReceiveState, Init
  <2> QED BY <2>1, EmptyInv, PTL
<1>6. ASSUME UNCHANGED vars PROVE IInv'
  BY <1>6 DEF vars, IInv, TypeOK, ModesFitKeys, PoolsMatchContexts, TombstoneShutsOut,
         NoMissedMatch, MatchedHasReceive, Active, Backed, WithinLimits, Unexpected, Tracked
<1> QED BY <1>2, <1>3, <1>4, <1>5, <1>6, RegisterPostedReceiveInv, UnregisterInv, TickInv
        DEF Next

-----------------------------------------------------------------------------
(* The theorems.                                                           *)

(* The inductive invariant holds in every reachable receive state.         *)
THEOREM Invariance == Spec => []IInv
  BY EmptyInv, NextInv, PTL DEF Spec

(* The receive state of PdsManager is well typed.                          *)
THEOREM TypeCorrect == Spec => []TypeOK
<1>1. IInv => TypeOK
  BY DEF IInv
<1> QED BY <1>1, Invariance, PTL

(* Whatever handlers reserve and release, m_receivePool's counters are     *)
(* what the live contexts hold, and within the configured limits.          *)
THEOREM PoolAccounting == Spec => []PoolsMatchContexts
<1>1. IInv => PoolsMatchContexts
  BY DEF IInv
<1> QED BY <1>1, Invariance, PTL

(* PruneReceiveState removes what is left of a finished SEND no later than *)
(* the tombstone that answers its late copies.                             *)
THEOREM TombstonesShutOut == Spec => []TombstoneShutsOut
<1>1. IInv => TombstoneShutsOut
  BY DEF IInv
<1> QED BY <1>1, Invariance, PTL

(* RegisterPostedReceive and HandleIncomingSendPacket between them leave   *)
(* no buffered message beside a posted receive for it.                     *)
THEOREM PromptMatch == Spec => []NoMissedMatch
<1>1. IInv => NoMissedMatch
  BY DEF IInv
<1> QED BY <1>1, Invariance, PTL

(* A receive that TryPromoteUnexpectedToMatched or a direct arrival took   *)
(* stays posted until the message is finished.                             *)
THEOREM MatchKeepsReceive == Spec => []MatchedHasReceive
<1>1. IInv => MatchedHasReceive
  BY DEF IInv
<1> QED BY <1>1, Invariance, PTL

(* A step keeps every chunk of an accepted message, unless the message is  *)
(* finished, silent for Ttl or the endpoint reset.                         *)
LEMMA StepKeepsAccepted ==
  ASSUME IInv, [Next]_vars, NEW k \in Unexpected(ctx, Active)
  PROVE  \/ k \in DOMAIN ctx' /\ ctx[k].chunks \subseteq ctx'[k].chunks
         \/ k[1] \in DOMAIN tombs' /\ tombs'[k[1]] = 0
         \/ ctx[k].age >= Ttl
         \/ ResetReceiveState
<1> DEFINE Kept == k \in DOMAIN ctx' /\ ctx[k].chunks \subseteq ctx'[k].chunks
<1>0. /\ k \in Active /\ ctx[k] \in Contexts /\ k[1] \notin Reads /\ k \in Keys
      /\ ctx[k].age \in Nat
  BY DEF Unexpected, IInv, TypeOK, ModesFitKeys, Contexts
<1> SUFFICES ASSUME ~(ctx[k].age >= Ttl), ~ResetReceiveState
             PROVE  Kept \/ (k[1] \in DOMAIN tombs' /\ tombs'[k[1]] = 0)
  OBVIOUS
<1>1. k \in Live
  BY <1>0 DEF Live, Stale
<1>2. ASSUME ctx' = PrunedCtx PROVE Kept
  BY <1>1, <1>2 DEF PrunedCtx
<1>3. ASSUME NEW i \in Keys, NEW c \in Chunks, Store(i, c), k[1] \in Sends
      PROVE  Kept \/ (k[1] \in DOMAIN tombs' /\ tombs'[k[1]] = 0)
  <2>1. CASE i = k
    BY <1>1, <1>3, <2>1 DEF Store, Buried
  <2>2. CASE i # k
    BY <1>1, <1>3, <2>2 DEF Store
  <2> QED BY <2>1, <2>2
<1>4. k[1] \in Sends
  BY <1>0 DEF Keys
<1>5. ASSUME NEW i \in Sends \X Pdcs, NEW c \in Chunks, SendChunk(i, c)
      PROVE  Kept \/ (k[1] \in DOMAIN tombs' /\ tombs'[k[1]] = 0)
  <2>1. i \in Keys
    BY DEF Keys
  <2> QED BY <1>2, <1>3, <1>4, <1>5, <2>1 DEF SendChunk, ReplaySend, Refuse, PruneOnly
<1>6. ASSUME NEW i \in Reads \X Pdcs, NEW c \in Chunks, ReadChunk(i, c)
      PROVE  Kept \/ (k[1] \in DOMAIN tombs' /\ tombs'[k[1]] = 0)
  <2>1. i \in Keys
    BY DEF Keys
  <2> QED BY <1>2, <1>3, <1>4, <1>6, <2>1 DEF ReadChunk, Refuse, PruneOnly
<1>7. ASSUME NEW m \in Sends, RegisterPostedReceive(m)
      PROVE  Kept \/ (k[1] \in DOMAIN tombs' /\ tombs'[k[1]] = 0)
  <2> DEFINE waiting  == {j \in Live : j[1] = m /\ ctx[j].mode = "buffered"}
             complete == {j \in waiting : ctx[j].chunks = Chunks}
             buried   == {j[1] : j \in complete}
  <2>1. /\ ctx' = [j \in Live \ complete |->
                     IF j \in waiting THEN [ctx[j] EXCEPT !.mode = "matched"] ELSE ctx[j]]
        /\ tombs' = [n \in LiveTombs \cup buried |-> IF n \in buried THEN 0 ELSE tombs[n]]
    BY <1>7 DEF RegisterPostedReceive
  <2>2. CASE k \in complete
    <3>1. k[1] \in buried
      BY <2>2
    <3> HIDE DEF buried
    <3> QED BY <2>1, <3>1
  <2>3. CASE k \notin complete
    <3>1. /\ k \in DOMAIN ctx'
          /\ ctx'[k] = IF k \in waiting THEN [ctx[k] EXCEPT !.mode = "matched"] ELSE ctx[k]
      BY <1>1, <2>1, <2>3
    <3> HIDE DEF waiting
    <3> QED BY <1>0, <3>1 DEF Contexts
  <2> QED BY <2>2, <2>3
<1>8. ASSUME Tick PROVE Kept
  <2>1. k \in DOMAIN ctx' /\ ctx'[k] = [ctx[k] EXCEPT !.age = Older(@)]
    BY <1>0, <1>8 DEF Tick, Active
  <2> QED BY <1>0, <2>1 DEF Contexts
<1>9. ASSUME ctx' = ctx PROVE Kept
  BY <1>0, <1>9 DEF Active
<1> QED BY <1>2, <1>5, <1>6, <1>7, <1>8, <1>9
        DEF Next, RegisterReadResponseTarget, UnregisterReadResponseTarget, vars

(* What the receiver has answered OK stays with it until the message is    *)
(* finished, silent for Ttl, or the endpoint reset.                        *)
THEOREM AcceptedStays == Spec => AcceptedIsKept
<1>1. IInv /\ [Next]_vars =>
        [\A k \in Unexpected(ctx, Active) :
           \/ k \in DOMAIN ctx' /\ ctx[k].chunks \subseteq ctx'[k].chunks
           \/ k[1] \in DOMAIN tombs' /\ tombs'[k[1]] = 0
           \/ ctx[k].age >= Ttl
           \/ ResetReceiveState]_vars
  BY StepKeepsAccepted
<1> QED BY <1>1, Invariance, PTL DEF Spec, AcceptedIsKept
=============================================================================
