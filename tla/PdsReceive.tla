----------------------------- MODULE PdsReceive -----------------------------
(***************************************************************************)
(* The semantic receive state of a PdsManager                              *)
(* (src/src/soft-ue/model/pds/pds-manager.cc): the contexts in which the   *)
(* chunks of incoming SENDs and READ responses are collected, the pools    *)
(* they draw on, the receives and READ targets they are matched with, and  *)
(* the tombstones that answer late copies of a finished SEND.              *)
(*                                                                         *)
(* A message stands for its (job, message id, source) lookup key; a        *)
(* context's key adds the PDC its chunks arrive on.  Chunks arrive in any  *)
(* order, any number of times, at any time: the packet delivery contexts   *)
(* below hand up every copy, and the peer retries.  A retired context is   *)
(* treated by every handler like an absent one, so it is removed.  A       *)
(* consumed posted receive is erased by the next handler before it looks,  *)
(* so it is removed too.                                                   *)
(*                                                                         *)
(* Time is an age that Tick increases: a context is stale at Ttl, a        *)
(* tombstone when it is older than Ttl, and ages stop at Ttl + 1.          *)
(***************************************************************************)
EXTENDS Integers, FiniteSets

CONSTANTS
  Sends,                  \* incoming SENDs
  Reads,                  \* READs this endpoint has issued
  Pdcs,                   \* PDCs the chunks arrive on
  NumChunks,              \* chunks of a message; a chunk is one unit of bytes
  MaxArrivalBlocks,       \* m_receivePool.maxArrivalBlocks
  MaxUnexpectedMessages,  \* m_receivePool.maxUnexpectedMessages
  MaxUnexpectedBytes,     \* m_receivePool.maxUnexpectedBytes
  MaxReadTracks,          \* m_receivePool.maxReadTracks
  Ttl                     \* max (500 ms, 4 * m_receiveStateTimeout)

ASSUME PdsReceiveAssumption ==
  /\ IsFiniteSet(Sends) /\ IsFiniteSet(Reads) /\ IsFiniteSet(Pdcs)
  /\ Sends \cap Reads = {}
  /\ NumChunks \in Nat \ {0}
  /\ MaxArrivalBlocks \in Nat
  /\ MaxUnexpectedMessages \in Nat
  /\ MaxUnexpectedBytes \in Nat
  /\ MaxReadTracks \in Nat
  /\ Ttl \in Nat \ {0}

VARIABLES
  ctx,          \* m_rxMessageContexts, the active ones: key -> context
  posted,       \* m_postedReceives, the ones not consumed
  targets,      \* m_readResponseTargets
  tombs,        \* m_completedSendLookupTombstones: SEND -> age
  pool          \* m_receivePool's counters

vars == <<ctx, posted, targets, tombs, pool>>

-----------------------------------------------------------------------------
Chunks   == 1 .. NumChunks
Keys     == (Sends \cup Reads) \X Pdcs
Modes    == {"direct", "buffered", "matched", "read"}     \* RxMessageMode
Contexts == [mode : Modes, chunks : SUBSET Chunks, age : 0 .. (Ttl + 1)]
Pools    == [arrivals : Nat, unexpected : Nat, bytes : Nat, tracks : Nat]

Active == DOMAIN ctx

(* The contexts of K that hold unexpected-message resources, or a track.   *)
Unexpected(c, K) == {k \in K : c[k].mode \in {"buffered", "matched"}}
Tracked(c, K)    == {k \in K : c[k].mode = "read"}

(* The counters' subtractions stop at zero.                                *)
Minus(a, b) == IF a >= b THEN a - b ELSE 0

(* Mutant: a message that was matched gives its unexpected share back at   *)
(* the match, and RetireContextResources does not.                         *)
ReleasedUnlessMatched(p, c, K) ==
  LET U == {k \in K : c[k].mode = "buffered"}
  IN [arrivals   |-> Minus(p.arrivals, Cardinality(K)),
      unexpected |-> Minus(p.unexpected, Cardinality(U)),
      bytes      |-> Minus(p.bytes, NumChunks * Cardinality(U)),
      tracks     |-> Minus(p.tracks, Cardinality(Tracked(c, K)))]

(* RetireContextResources on the contexts c[k], k \in K.                   *)
Released(p, c, K) ==
  LET U == Unexpected(c, K)
  IN [arrivals   |-> Minus(p.arrivals, Cardinality(K)),
      unexpected |-> Minus(p.unexpected, Cardinality(U)),
      bytes      |-> Minus(p.bytes, NumChunks * Cardinality(U)),
      tracks     |-> Minus(p.tracks, Cardinality(Tracked(c, K)))]

Init ==
  /\ ctx = <<>> /\ posted = {} /\ targets = {} /\ tombs = <<>>
  /\ pool = [arrivals |-> 0, unexpected |-> 0, bytes |-> 0, tracks |-> 0]

-----------------------------------------------------------------------------
(* PruneReceiveState, the first thing every handler does: what is left of  *)
(* each part of the state.                                                 *)

(* Mutant: a context is given up as soon as it has been silent at all.     *)
StaleAtOnce == {k \in Active : ctx[k].age >= 0}

Stale       == {k \in Active : ctx[k].age >= Ttl}
Live        == Active \ Stale
LiveTombs   == {m \in DOMAIN tombs : tombs[m] <= Ttl}
LiveTargets == targets \ {k[1] : k \in Tracked(ctx, Stale)}
PrunedPool  == Released(pool, ctx, Stale)
PrunedCtx   == [k \in Live |-> ctx[k]]
PrunedTombs == [m \in LiveTombs |-> tombs[m]]

(* A handler that finds nothing to do has still pruned.                    *)
PruneOnly ==
  /\ ctx' = PrunedCtx /\ tombs' = PrunedTombs /\ pool' = PrunedPool
  /\ targets' = LiveTargets
  /\ UNCHANGED posted

(* ReserveArrivalBlock, ReserveUnexpectedResources and ReserveReadTrack    *)
(* for a new context of the mode, and whether they succeed.                *)
CanReserve(mode) ==
  /\ PrunedPool.arrivals < MaxArrivalBlocks
  /\ mode = "buffered" => /\ PrunedPool.unexpected < MaxUnexpectedMessages
                          /\ PrunedPool.bytes + NumChunks <= MaxUnexpectedBytes
  /\ mode = "read" => PrunedPool.tracks < MaxReadTracks

Reserved(mode) ==
  LET u == IF mode = "buffered" THEN 1 ELSE 0
  IN [arrivals   |-> PrunedPool.arrivals + 1,
      unexpected |-> PrunedPool.unexpected + u,
      bytes      |-> PrunedPool.bytes + u * NumChunks,
      tracks     |-> PrunedPool.tracks + (IF mode = "read" THEN 1 ELSE 0)]

-----------------------------------------------------------------------------
(* HandleIncomingSendPacket and HandleIncomingReadResponsePacket, chunk by *)
(* chunk.                                                                  *)

(* A late copy of a finished SEND: answered OK, nothing stored.            *)
ReplaySend(m) ==
  /\ m \in LiveTombs
  /\ PruneOnly

(* The mode of a context when the chunk comes in, and after the match with *)
(* a posted receive that the handler tries.                                *)
ArrivalMode(k) == IF k \in Live THEN ctx[k].mode
                  ELSE IF k[1] \in Reads THEN "read"
                  ELSE IF k[1] \in posted THEN "direct" ELSE "buffered"
MatchedMode(k) == IF ArrivalMode(k) = "buffered" /\ k[1] \in posted
                    THEN "matched" ELSE ArrivalMode(k)

(* A new context that finds its pool empty is failed, retired and          *)
(* answered with a NACK: whatever it had reserved is given back.           *)
Refuse(k) ==
  /\ k \notin Live
  /\ ~CanReserve(ArrivalMode(k))
  /\ PruneOnly

(* Mutant: a READ response leaves a tombstone as well.                     *)
BuriedAlways(k) == {k[1]}

(* The finished message that gets a tombstone.                             *)
Buried(k) == {k[1]} \cap Sends

(* The chunk is stored; a context that waits for no receive and has all    *)
(* its chunks is retired, which leaves a tombstone behind a SEND and       *)
(* erases the target of a READ.                                            *)
Store(k, c) ==
  LET chunks == {c} \cup (IF k \in Live THEN ctx[k].chunks ELSE {})
      mode   == MatchedMode(k)
      here   == [i \in Live \cup {k} |->
                   IF i = k THEN [mode |-> mode, chunks |-> chunks, age |-> 0]
                   ELSE ctx[i]]
      held   == IF k \in Live THEN PrunedPool ELSE Reserved(ArrivalMode(k))
  IN
  /\ k \in Live \/ CanReserve(ArrivalMode(k))
  /\ \/ /\ chunks # Chunks \/ mode = "buffered"
        /\ ctx' = here
        /\ pool' = held
        /\ tombs' = PrunedTombs
        /\ targets' = LiveTargets
        /\ UNCHANGED posted
     \/ /\ chunks = Chunks /\ mode # "buffered"
        /\ ctx' = [i \in Live \ {k} |-> ctx[i]]
        /\ pool' = Released(held, here, {k})
        /\ tombs' = [m \in LiveTombs \cup Buried(k) |->
                       IF m = k[1] THEN 0 ELSE tombs[m]]
        /\ targets' = LiveTargets \ {k[1]}
        /\ posted' = posted \ {k[1]}

(* Mutant: a finished SEND is not looked for among the tombstones.         *)
SendChunkUnguarded(k, c) == Refuse(k) \/ Store(k, c)

SendChunk(k, c) ==
  \/ ReplaySend(k[1])
  \/ k[1] \notin LiveTombs /\ (Refuse(k) \/ Store(k, c))

(* A READ response whose target is gone is not handled.                    *)
ReadChunk(k, c) ==
  \/ k[1] \notin LiveTargets /\ PruneOnly
  \/ k[1] \in LiveTargets /\ (Refuse(k) \/ Store(k, c))

-----------------------------------------------------------------------------
(* The operations of the semantic sublayer.                                *)

(* Mutant: a receive posted for a message that is being buffered is only   *)
(* recorded, and matched when the next chunk arrives.                      *)
PostReceiveOnly(m) ==
  /\ posted' = posted \cup {m}
  /\ ctx' = PrunedCtx /\ tombs' = PrunedTombs /\ pool' = PrunedPool
  /\ targets' = LiveTargets

(* Mutant: a receive is consumed by its first match, complete or not.      *)
ConsumedByMatch(waiting, complete) == {waiting # {}}

(* Is a new receive consumed by the buffered contexts it is matched with?  *)
(* Each match sets or clears the mark by its own completeness, so the one  *)
(* visited last decides; the map is visited in no particular order.        *)
Consumed(waiting, complete) ==
  {b \in BOOLEAN : IF b THEN complete # {} ELSE complete = {} \/ complete # waiting}

(* RegisterPostedReceive: every buffered context of the message is matched *)
(* and, when complete, retired.                                            *)
RegisterPostedReceive(m) ==
  LET waiting  == {k \in Live : k[1] = m /\ ctx[k].mode = "buffered"}
      complete == {k \in waiting : ctx[k].chunks = Chunks}
  IN
  /\ ctx' = [k \in Live \ complete |->
               IF k \in waiting THEN [ctx[k] EXCEPT !.mode = "matched"] ELSE ctx[k]]
  /\ pool' = Released(PrunedPool, ctx, complete)
  /\ tombs' = [n \in LiveTombs \cup {k[1] : k \in complete} |->
                 IF n \in {k[1] : k \in complete} THEN 0 ELSE tombs[n]]
  /\ \E consumed \in Consumed(waiting, complete) :
       posted' = IF consumed THEN posted \ {m} ELSE posted \cup {m}
  /\ targets' = LiveTargets

RegisterReadResponseTarget(r) ==
  /\ targets' = LiveTargets \cup {r}
  /\ ctx' = PrunedCtx /\ tombs' = PrunedTombs /\ pool' = PrunedPool
  /\ UNCHANGED posted

(* The one operation that does not prune.                                  *)
UnregisterReadResponseTarget(r) ==
  /\ r \in targets
  /\ targets' = targets \ {r}
  /\ UNCHANGED <<ctx, posted, tombs, pool>>

(* ResetReceiveState.                                                      *)
ResetReceiveState ==
  /\ ctx' = <<>> /\ posted' = {} /\ targets' = {} /\ tombs' = <<>>
  /\ pool' = [arrivals |-> 0, unexpected |-> 0, bytes |-> 0, tracks |-> 0]

Older(a) == IF a <= Ttl THEN a + 1 ELSE a

(* Simulated time passes.                                                  *)
Tick ==
  /\ ctx' = [k \in Active |-> [ctx[k] EXCEPT !.age = Older(@)]]
  /\ tombs' = [m \in DOMAIN tombs |-> Older(tombs[m])]
  /\ UNCHANGED <<posted, targets, pool>>

Next ==
  \/ \E k \in Sends \X Pdcs, c \in Chunks : SendChunk(k, c)
  \/ \E k \in Reads \X Pdcs, c \in Chunks : ReadChunk(k, c)
  \/ \E m \in Sends : RegisterPostedReceive(m)
  \/ \E r \in Reads : RegisterReadResponseTarget(r) \/ UnregisterReadResponseTarget(r)
  \/ ResetReceiveState
  \/ Tick

Spec == Init /\ [][Next]_vars

-----------------------------------------------------------------------------
(* Correctness.                                                            *)

(* Type correctness of the receive state.                                  *)
TypeOK ==
  /\ Active \subseteq Keys
  /\ ctx \in [Active -> Contexts]
  /\ posted \subseteq Sends
  /\ targets \subseteq Reads
  /\ DOMAIN tombs \subseteq Sends
  /\ tombs \in [DOMAIN tombs -> 0 .. (Ttl + 1)]
  /\ pool \in Pools

(* The counters p are what the contexts c[k], k \in K, hold.               *)
Backed(p, c, K) ==
  /\ p.arrivals   = Cardinality(K)
  /\ p.unexpected = Cardinality(Unexpected(c, K))
  /\ p.bytes      = NumChunks * Cardinality(Unexpected(c, K))
  /\ p.tracks     = Cardinality(Tracked(c, K))

WithinLimits(p) ==
  /\ p.arrivals   <= MaxArrivalBlocks
  /\ p.unexpected <= MaxUnexpectedMessages
  /\ p.bytes      <= MaxUnexpectedBytes
  /\ p.tracks     <= MaxReadTracks

(* Every pool counter is what the contexts that are alive hold, whatever   *)
(* mixture of matches, refusals, timeouts and completions came before: a   *)
(* counter that drifts up refuses messages there is room for, one that     *)
(* drifts down (the code clamps it at zero) admits too many.               *)
PoolsMatchContexts == Backed(pool, ctx, Active) /\ WithinLimits(pool)

(* A finished SEND is not taken in a second time while its tombstone       *)
(* stands: a leftover context of it (on another PDC) is not waiting for a  *)
(* receive, and is gone before the tombstone is, so no late copy of a      *)
(* chunk is ever added to what was left behind.                            *)
TombstoneShutsOut ==
  \A k \in Active : k[1] \in DOMAIN tombs =>
    /\ ctx[k].mode \in {"direct", "matched"}
    /\ ctx[k].age >= tombs[k[1]]

(* No message waits in the unexpected pool while a receive for it is       *)
(* posted, whichever came first.                                           *)
NoMissedMatch ==
  \A k \in Active : ctx[k].mode = "buffered" => k[1] \notin posted

(* A context that is matched to a receive has it still posted, unless the  *)
(* message was finished on another PDC.                                    *)
MatchedHasReceive ==
  \A k \in Active : ctx[k].mode \in {"direct", "matched"} =>
    k[1] \in posted \/ k[1] \in DOMAIN tombs

(* The receiver answers OK when it begins to buffer an unexpected message. *)
(* From then on it keeps every chunk it was given until the message is     *)
(* finished, has been silent for Ttl, or the endpoint is reset.            *)
AcceptedIsKept ==
  [][\A k \in Unexpected(ctx, Active) :
       \/ k \in DOMAIN ctx' /\ ctx[k].chunks \subseteq ctx'[k].chunks
       \/ k[1] \in DOMAIN tombs' /\ tombs'[k[1]] = 0
       \/ ctx[k].age >= Ttl
       \/ ResetReceiveState]_vars
=============================================================================
