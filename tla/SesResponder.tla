----------------------------- MODULE SesResponder -----------------------------
(***************************************************************************)
(* The responder side of a SesManager (src/src/soft-ue/model/ses/          *)
(* ses-manager.cc): from HandleIncomingRequest to the response the PDC     *)
(* layer has accepted, with the queue of responses it refused, which       *)
(* DrainPendingResponseQueue tries again, and the budget of READ           *)
(* responses.                                                              *)
(*                                                                         *)
(* A key stands for (job, message id, source of the request).  The same    *)
(* key comes again when the requester retries, and once per packet for a   *)
(* WRITE or SEND of several packets.  Validation, the receive state of the *)
(* PdsManager (module PdsReceive) and its write budget decide the answer   *)
(* of a SEND or a WRITE: any answer is possible here.  The read budget is  *)
(* counted in messages.                                                    *)
(*                                                                         *)
(* Time is left out.  A response that was refused is due again when the    *)
(* drain event scheduled with it fires; the periodic processing, which     *)
(* drains every queue too, may come earlier and find it not yet due.       *)
(***************************************************************************)
EXTENDS Integers, FiniteSets, SequencesExt

CONSTANTS
  Reads, Others,        \* keys: of READs, and of SENDs and WRITEs
  Peers,                \* sources of requests
  PeerOf,               \* key -> source
  ReadLimit,            \* messageLimit of m_readResponderBudget; 0: none
  MaxAsks               \* bound: requests answered per key

Keys == Reads \cup Others

ASSUME SesResponderAssumption ==
  /\ IsFiniteSet(Keys) /\ Reads \cap Others = {}
  /\ PeerOf \in [Keys -> Peers]
  /\ ReadLimit \in Nat /\ MaxAsks \in Nat

VARIABLES
  pending,              \* m_pendingResponses: key -> response
  queue,                \* m_pendingResponseQueues: peer -> keys
  drains,               \* peers whose drainEvent is pending
  inUse,                \* messagesInUse of m_readResponderBudget
  room,                 \* the PDC layer takes every packet
  asked,                \* history: requests answered, by key
  answered              \* history: the last one whose response was sent

vars == <<pending, queue, drains, inUse, room, asked, answered>>

-----------------------------------------------------------------------------
(* A response: which request of its key it answers, and whether it holds a *)
(* reservation of the read budget.                                         *)
Response == [ask : 1 .. MaxAsks, holds : BOOLEAN]

Init ==
  /\ pending = <<>> /\ queue = [p \in Peers |-> <<>>] /\ drains = {}
  /\ inUse = 0 /\ room \in BOOLEAN
  /\ asked = [k \in Keys |-> 0] /\ answered = [k \in Keys |-> 0]

Held(ks) == {k \in ks \cap DOMAIN pending : pending[k].holds}

-----------------------------------------------------------------------------
(* Sending a response.  TryDispatchPendingResponse gives its packets to    *)
(* the PDC layer and stops at the first one refused, which can happen only *)
(* without room; those given before are given again by the next attempt.   *)

(* ReleaseReadResponderBudget stops at zero.                               *)
Returned(n) == IF inUse > n THEN inUse - n ELSE 0

(* Mutant: the head of the queue leaves instead.                           *)
UnqueuedHead(k) ==
  [queue EXCEPT ![PeerOf[k]] = IF @ = <<>> THEN @ ELSE Tail(@)]

(* RemovePendingResponse: the first entry of k leaves its queue, ...       *)
Unqueued(k) == [queue EXCEPT ![PeerOf[k]] = RemoveFirst(@, k)]

(* ... and the drain event of an empty queue is cancelled.                 *)
Idled(q) == {p \in drains : q[p] # <<>>}

(* Mutant: a reservation is given back whether or not there is one.        *)
SentReturning(k) ==
  /\ pending' = [j \in DOMAIN pending \ {k} |-> pending[j]]
  /\ queue' = Unqueued(k)
  /\ drains' = Idled(Unqueued(k))
  /\ answered' = [answered EXCEPT ![k] = asked[k] + 1]
  /\ inUse' = inUse - 1

(* SendSemanticResponseForRequest, when TryDispatchPendingResponse sends   *)
(* everything: nothing of the key stays pending.  A reservation made for   *)
(* it is given back at once, one made for an earlier response that was     *)
(* still pending is not.                                                   *)
Sent(k) ==
  /\ pending' = [j \in DOMAIN pending \ {k} |-> pending[j]]
  /\ queue' = Unqueued(k)
  /\ drains' = Idled(Unqueued(k))
  /\ answered' = [answered EXCEPT ![k] = asked[k] + 1]
  /\ UNCHANGED inUse

(* Mutant: the response that is pending stays.                             *)
QueuedBehindOld(k, holds) ==
  /\ pending' = [j \in DOMAIN pending \cup {k} |->
                   IF j = k /\ k \notin DOMAIN pending
                     THEN [ask |-> asked[k] + 1, holds |-> holds] ELSE pending[j]]
  /\ queue' = [queue EXCEPT ![PeerOf[k]] = Append(@, k)]
  /\ drains' = drains \cup {PeerOf[k]}
  /\ inUse' = IF holds THEN inUse + 1 ELSE inUse
  /\ UNCHANGED answered

(* When a packet is refused, EnqueuePendingResponse: the fresh state of    *)
(* the key is not marked as queued, so the key is queued again even if it  *)
(* already is, and what an earlier response held is forgotten.             *)
Queued(k, holds) ==
  /\ pending' = [j \in DOMAIN pending \cup {k} |->
                   IF j = k THEN [ask |-> asked[k] + 1, holds |-> holds]
                   ELSE pending[j]]
  /\ queue' = [queue EXCEPT ![PeerOf[k]] = Append(@, k)]
  /\ drains' = drains \cup {PeerOf[k]}
  /\ inUse' = IF holds THEN inUse + 1 ELSE inUse
  /\ UNCHANGED answered

Respond(k, holds) ==
  /\ asked[k] < MaxAsks
  /\ asked' = [asked EXCEPT ![k] = @ + 1]
  /\ \/ Sent(k)
     \/ ~room /\ Queued(k, holds)
  /\ UNCHANGED room

-----------------------------------------------------------------------------
(* Requests.                                                               *)

(* HandleIncomingSendRequest and HandleIncomingWriteRequest, when there is *)
(* an answer.  The write budget is taken and given back inside.            *)
HandleIncomingOther(k) == k \in Others /\ Respond(k, FALSE)

(* TryReserveReadResponderBudget.                                          *)
ReadBudgetFree == ReadLimit = 0 \/ inUse + 1 <= ReadLimit

(* HandleIncomingReadRequest: a NACK for a request that is not valid or    *)
(* finds no budget, or the data.                                           *)
HandleIncomingRead(k) ==
  /\ k \in Reads
  /\ \E holds \in BOOLEAN : (holds => ReadBudgetFree) /\ Respond(k, holds)

-----------------------------------------------------------------------------
(* DrainPendingResponseQueue.  n entries leave the head of the queue of p: *)
(* each one is sent, or its key has nothing pending any more, as after the *)
(* first of two entries of one key.                                        *)

First(p, n) == Range(SubSeq(queue[p], 1, n))

(* Mutant: an entry that has nothing pending ends the drain.               *)
StopsAtDangling(p, n, due) ==
  /\ \A i \in 1 .. n : queue[p][i] \in DOMAIN pending \ First(p, i - 1)
  /\ n < Len(queue[p]) =>
       \/ queue[p][n + 1] \notin DOMAIN pending \ First(p, n)
       \/ ~room \/ ~due

(* The drain ends at the end of the queue, or at a response that is        *)
(* refused or, if the head is not due, at the head.                        *)
Stops(p, n, due) ==
  /\ ~due => n = 0
  /\ n < Len(queue[p]) =>
       /\ queue[p][n + 1] \in DOMAIN pending \ First(p, n)
       /\ ~room \/ ~due

(* Mutant: every entry gives a reservation back.                           *)
DrainReturningPerEntry(p, due) ==
  \E n \in 0 .. Len(queue[p]) :
    LET out == First(p, n) IN
      /\ Stops(p, n, due)
      /\ pending' = [k \in DOMAIN pending \ out |-> pending[k]]
      /\ queue' = [queue EXCEPT ![p] = SubSeq(@, n + 1, Len(@))]
      /\ drains' = IF n < Len(queue[p]) THEN drains \cup {p} ELSE drains \ {p}
      /\ inUse' = Returned(n)
      /\ answered' = [k \in Keys |-> IF k \in out \cap DOMAIN pending
                                       THEN pending[k].ask ELSE answered[k]]
      /\ UNCHANGED <<room, asked>>

DrainQueue(p, due) ==
  \E n \in 0 .. Len(queue[p]) :
    LET out == First(p, n) IN
      /\ Stops(p, n, due)
      /\ pending' = [k \in DOMAIN pending \ out |-> pending[k]]
      /\ queue' = [queue EXCEPT ![p] = SubSeq(@, n + 1, Len(@))]
      /\ drains' = IF n < Len(queue[p]) THEN drains \cup {p} ELSE drains \ {p}
      /\ inUse' = Returned(Cardinality(Held(out)))
      /\ answered' = [k \in Keys |-> IF k \in out \cap DOMAIN pending
                                       THEN pending[k].ask ELSE answered[k]]
      /\ UNCHANGED <<room, asked>>

(* The drain event of p.                                                   *)
DrainEvent(p, due) == p \in drains /\ DrainQueue(p, due)

(* DoPeriodicProcessing drains the queues one by one; they share nothing   *)
(* but the budget, to which they only give back.                           *)
PeriodicDrain(p) == queue[p] # <<>> /\ \E due \in BOOLEAN : DrainQueue(p, due)

(* Reset, which the user may call: it clears both tables, cancels the drain *)
(* events and zeroes the budgets, those of requests in progress included.  *)
Reset ==
  /\ pending' = <<>> /\ queue' = [p \in Peers |-> <<>>] /\ drains' = {}
  /\ inUse' = 0
  /\ asked' = [k \in Keys |-> 0] /\ answered' = [k \in Keys |-> 0]
  /\ UNCHANGED room

(* The environment: PDC contexts fill up and empty.                        *)
RoomChanges ==
  /\ room' = ~room
  /\ UNCHANGED <<pending, queue, drains, inUse, asked, answered>>

Next ==
  \/ \E k \in Keys : HandleIncomingRead(k) \/ HandleIncomingOther(k)
  \/ \E p \in Peers, due \in BOOLEAN : DrainEvent(p, due)
  \/ \E p \in Peers : PeriodicDrain(p)
  \/ Reset
  \/ RoomChanges

Spec == Init /\ [][Next]_vars

(* A drain event fires, and finds the head due: it was scheduled no sooner *)
(* than the head's next attempt, or another drain has tried the head since *)
(* and is at most one interval behind.                                     *)
FairSpec == Spec /\ \A p \in Peers : WF_vars(DrainEvent(p, TRUE))

-----------------------------------------------------------------------------
(* Correctness.                                                            *)

(* Type correctness.                                                       *)
TypeOK ==
  /\ DOMAIN pending \subseteq Keys
  /\ \A k \in DOMAIN pending : pending[k] \in Response
  /\ queue \in [Peers -> Seq(Keys)] /\ drains \subseteq Peers
  /\ inUse \in Nat /\ room \in BOOLEAN
  /\ asked \in [Keys -> 0 .. MaxAsks] /\ answered \in [Keys -> 0 .. MaxAsks]

(* However requests are repeated, queued twice and sent out of turn, a     *)
(* response that is pending is in the queue of its peer, and a queue that  *)
(* has entries has a drain event coming: no response is left behind.       *)
NoResponseStranded ==
  /\ \A k \in DOMAIN pending : k \in Range(queue[PeerOf[k]])
  /\ \A p \in Peers : queue[p] # <<>> <=> p \in drains

(* The newest request of every key has been answered or its response is    *)
(* pending; the response an older request of the key waits with never      *)
(* takes its place.                                                        *)
NewestAnswered ==
  \A k \in Keys : asked[k] > 0 =>
    \/ answered[k] = asked[k]
    \/ k \in DOMAIN pending /\ pending[k].ask = asked[k]

(* The read budget counts at least the pending responses that hold it and  *)
(* keeps the limit.  Each of the others was overwritten by the response to *)
(* a repeated request: without repeated READs nothing leaks.               *)
ReadBudgetCovered ==
  /\ Cardinality(Held(Keys)) <= inUse
  /\ ReadLimit # 0 => inUse <= ReadLimit
  /\ (\A k \in Reads : asked[k] <= 1) => Cardinality(Held(Keys)) = inUse

(* Once the PDC layer keeps taking packets, every pending response is      *)
(* sent: no entry at the head of a queue blocks it for ever.               *)
ResponsesSent ==
  <>[]room => \A k \in Keys : (k \in DOMAIN pending ~> k \notin DOMAIN pending)
=============================================================================
