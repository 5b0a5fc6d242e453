---------------------------- MODULE SesRequester ----------------------------
(***************************************************************************)
(* The requester side of a SesManager                                      *)
(* (src/src/soft-ue/model/ses/ses-manager.cc): from ProcessSendRequest to  *)
(* TerminalizeRequest, with the admission budgets of the PdsManager, the   *)
(* queue of requests blocked behind them for each peer, response timeouts, *)
(* and retries.                                                            *)
(*                                                                         *)
(* A request stands for its (job, message id, peer) key and is submitted   *)
(* once.  The responder and the packet delivery contexts are the           *)
(* environment: each packet of a request may draw one response of any      *)
(* return code at any time, or none, and the PDC layer may refuse a packet.*)
(*                                                                         *)
(* Two pairs of fields coincide after every handler and are one set here:  *)
(* blockedQueueLinked with blockedOnCreditGate (linked), waitingResponse   *)
(* with a deadline (waiting).  attemptGeneration only matters through its  *)
(* comparison with the generation a retry was scheduled for: a pending     *)
(* retry is "armed" while they agree and "stale" once they do not.         *)
(***************************************************************************)
EXTENDS Integers, FiniteSets, SequencesExt

CONSTANTS
  Sends, Writes, Reads,  \* the requests, by operation
  Silent,                \* those whose metadata expects no response
  Peers,                 \* destination endpoints
  PeerOf,                \* request -> destination
  Idle,                  \* no DrainBlockedPeerQueue is running
  Packets,               \* packets of a SEND or WRITE; a READ has one
  PdcRoom,               \* packets of one request the PDCs can hold
  MessageLimit,          \* messageLimit of both budgets; 0: none
  MaxRetries,            \* Max_RTO_Retx_Cnt
  RetryEnabled           \* m_retryEnabled

Requests == Sends \cup Writes \cup Reads

ASSUME SesRequesterAssumption ==
  /\ IsFiniteSet(Requests)
  /\ Sends \cap Writes = {} /\ Reads \cap (Sends \cup Writes) = {}
  /\ Silent \subseteq Sends \cup Writes
  /\ PeerOf \in [Requests -> Peers] /\ Idle \notin Peers
  /\ Packets \in Nat \ {0} /\ PdcRoom \in Nat /\ MessageLimit \in Nat
  /\ MaxRetries \in Nat
  /\ RetryEnabled \in BOOLEAN

VARIABLES
  phase,     \* request -> not submitted, live, or its terminal outcome
  waiting,   \* waitingResponse, and responseDeadlineMs is set
  reserved,  \* sendAdmissionReserved or writeBudgetReserved
  linked,    \* blockedQueueLinked
  retries,   \* lastRetryCount
  retry,     \* the pending event of m_retryStates
  targets,   \* readResponseTargetRegistered
  queue,     \* m_blockedPeerQueues: peer -> keys
  wakeups,   \* peers whose wakeupEvent is pending
  draining,  \* the peer whose queue DrainBlockedPeerQueue is walking
  inUse,     \* messagesInUse of the send admission and the write budget
  flight     \* packets on their way that may still draw a response

control == <<phase, waiting, reserved, linked, retries, retry, targets>>
vars == <<control, queue, wakeups, draining, inUse, flight>>

-----------------------------------------------------------------------------
Outcomes == {"completed", "failed"}
Budgets  == {"send", "write"}

Budget(k)    == IF k \in Sends THEN "send" ELSE "write"
Members(b)   == IF b = "send" THEN Sends ELSE Writes
Budgeted(k)  == k \in Sends \cup Writes
Size(k)      == IF k \in Reads THEN 1 ELSE Packets
Live         == {k \in Requests : phase[k] = "live"}
Finished     == {k \in Requests : phase[k] \in Outcomes}

Init ==
  /\ phase = [k \in Requests |-> "new"]
  /\ waiting = {} /\ reserved = {} /\ linked = {} /\ targets = {}
  /\ retries = [k \in Requests |-> 0]
  /\ retry = [k \in Requests |-> "none"]
  /\ queue = [p \in Peers |-> <<>>]
  /\ wakeups = {} /\ draining = Idle
  /\ inUse = [b \in Budgets |-> 0]
  /\ flight = [k \in Requests |-> 0]

-----------------------------------------------------------------------------
(* Ends of a request.                                                      *)

(* Plausible mistake: the head leaves instead.                             *)
UnqueuedHead(q, k) ==
  [q EXCEPT ![PeerOf[k]] = IF @ = <<>> THEN @ ELSE Tail(@)]

(* RemoveBlockedRequest: the first entry of k leaves its peer's queue.     *)
Unqueued(q, k) == [q EXCEPT ![PeerOf[k]] = RemoveFirst(@, k)]

(* The peer's wakeup once its queue is q: an empty queue cancels it, and   *)
(* giving budget back (freed) schedules it for the queue of that peer.     *)
WakeupsAfter(q, p, freed) ==
  IF q[p] = <<>> THEN wakeups \ {p}
  ELSE IF freed THEN wakeups \cup {p} ELSE wakeups

(* ReleaseSendAdmission and ReleaseWriteBudget stop at zero.               *)
Returned(k) == [inUse EXCEPT ![Budget(k)] = IF @ > 0 THEN @ - 1 ELSE 0]

(* Mutant: the news that budget was given back is forgotten.               *)
TerminalizeQuietly(q, k, outcome, holds, freed) ==
  /\ phase' = [phase EXCEPT ![k] = outcome]
  /\ waiting' = waiting \ {k}
  /\ reserved' = reserved \ {k}
  /\ linked' = linked \ {k}
  /\ targets' = targets \ {k}
  /\ retry' = [retry EXCEPT ![k] = "none"]
  /\ queue' = Unqueued(q, k)
  /\ wakeups' = WakeupsAfter(Unqueued(q, k), PeerOf[k], freed)
  /\ inUse' = IF holds THEN Returned(k) ELSE inUse

(* TerminalizeRequest, when the queues are q.  holds: the request's flags  *)
(* say it has budget; freed: this handler has already given some back.     *)
Terminalize(q, k, outcome, holds, freed) ==
  /\ phase' = [phase EXCEPT ![k] = outcome]
  /\ waiting' = waiting \ {k}
  /\ reserved' = reserved \ {k}
  /\ linked' = linked \ {k}
  /\ targets' = targets \ {k}
  /\ retry' = [retry EXCEPT ![k] = "none"]
  /\ queue' = Unqueued(q, k)
  /\ wakeups' = WakeupsAfter(Unqueued(q, k), PeerOf[k], holds \/ freed)
  /\ inUse' = IF holds THEN Returned(k) ELSE inUse

-----------------------------------------------------------------------------
(* DispatchRequestPackets.  entered: blockedQueueLinked; holds: the flags  *)
(* say the request already has budget; pending: the state of its retry     *)
(* event, which an attempt makes stale.  A linked request is the head of   *)
(* its queue here, as only DrainBlockedPeerQueue dispatches one.           *)

(* Plausible mistake: the limit itself is let in.                          *)
AdmittedAtLimit(k, holds) ==
  \/ ~Budgeted(k) \/ holds
  \/ MessageLimit = 0 \/ inUse[Budget(k)] <= MessageLimit

(* TryReserveDispatchBudget.                                               *)
Admitted(k, holds) ==
  \/ ~Budgeted(k) \/ holds
  \/ MessageLimit = 0 \/ inUse[Budget(k)] < MessageLimit

(* TryReserveDispatchBudget refuses: EnqueueBlockedRequest.                *)
Blocked(k, entered, holds, pending) ==
  /\ ~Admitted(k, holds)
  /\ queue' = IF entered THEN queue
              ELSE [queue EXCEPT ![PeerOf[k]] = Append(@, k)]
  /\ linked' = linked \cup {k}
  /\ phase' = [phase EXCEPT ![k] = "live"]
  /\ waiting' = waiting \ {k}
  /\ reserved' = reserved \ {k}
  /\ retry' = [retry EXCEPT ![k] = pending]
  /\ UNCHANGED <<retries, targets, wakeups, inUse, flight>>

Reserving(k, holds) ==
  IF Budgeted(k) /\ ~holds THEN [inUse EXCEPT ![Budget(k)] = @ + 1] ELSE inUse

(* The queues once the dispatch is admitted.                               *)
Admitting(k, entered) == IF entered THEN Unqueued(queue, k) ELSE queue

(* Plausible mistake: a request leaving the queue gets no deadline.        *)
SentUntimed(k, entered, holds, pending) ==
  /\ Admitted(k, holds)
  /\ flight[k] + Size(k) <= PdcRoom
  /\ flight' = [flight EXCEPT ![k] = @ + Size(k)]
  /\ queue' = Admitting(k, entered)
  /\ wakeups' = WakeupsAfter(Admitting(k, entered), PeerOf[k], FALSE)
  /\ linked' = linked \ {k}
  /\ phase' = [phase EXCEPT ![k] = "live"]
  /\ waiting' = IF entered THEN waiting ELSE waiting \cup {k}
  /\ reserved' = IF Budgeted(k) THEN reserved \cup {k} ELSE reserved
  /\ targets' = IF k \in Reads THEN targets \cup {k} ELSE targets
  /\ inUse' = Reserving(k, holds)
  /\ retry' = [retry EXCEPT ![k] = IF pending = "none" THEN "none" ELSE "stale"]
  /\ UNCHANGED retries

(* All packets go out.                                                     *)
Sent(k, entered, holds, pending) ==
  /\ Admitted(k, holds)
  /\ flight[k] + Size(k) <= PdcRoom
  /\ flight' = [flight EXCEPT ![k] = @ + Size(k)]
  /\ queue' = Admitting(k, entered)
  /\ wakeups' = WakeupsAfter(Admitting(k, entered), PeerOf[k], FALSE)
  /\ linked' = linked \ {k}
  /\ phase' = [phase EXCEPT ![k] = "live"]
  /\ waiting' = waiting \cup {k}
  /\ reserved' = IF Budgeted(k) THEN reserved \cup {k} ELSE reserved
  /\ targets' = IF k \in Reads THEN targets \cup {k} ELSE targets
  /\ inUse' = Reserving(k, holds)
  /\ retry' = [retry EXCEPT ![k] = IF pending = "none" THEN "none" ELSE "stale"]
  /\ UNCHANGED retries

(* All packets of a request that expects no response go out: it is over.   *)
SentSilently(k, entered, holds) ==
  /\ Admitted(k, holds)
  /\ flight[k] + Size(k) <= PdcRoom
  /\ flight' = [flight EXCEPT ![k] = @ + Size(k)]
  /\ Terminalize(Admitting(k, entered), k, "completed", holds, TRUE)
  /\ UNCHANGED retries

(* Plausible mistake: HandleDispatchFailure gives the budget back again.   *)
RefusedReturningTwice(k, entered, holds) ==
  \E n \in 0 .. (Size(k) - 1) :
    /\ Admitted(k, holds)
    /\ flight[k] + n <= PdcRoom
    /\ flight' = [flight EXCEPT ![k] = @ + n]
    /\ Terminalize(Admitting(k, entered), k, "failed", TRUE, Budgeted(k))
    /\ UNCHANGED retries

(* The PDC layer takes n packets and refuses the next: the budget goes     *)
(* back and HandleDispatchFailure terminalizes the request.                *)
Refused(k, entered, holds) ==
  \E n \in 0 .. (Size(k) - 1) :
    /\ Admitted(k, holds)
    /\ flight[k] + n <= PdcRoom
    /\ flight' = [flight EXCEPT ![k] = @ + n]
    /\ Terminalize(Admitting(k, entered), k, "failed", holds, Budgeted(k))
    /\ UNCHANGED retries

Dispatch(k, entered, holds, pending) ==
  \/ Blocked(k, entered, holds, pending)
  \/ k \notin Silent /\ Sent(k, entered, holds, pending)
  \/ k \in Silent /\ SentSilently(k, entered, holds)
  \/ Refused(k, entered, holds)

-----------------------------------------------------------------------------
(* The application.                                                        *)
Submit(k) ==
  /\ phase[k] = "new"
  /\ Dispatch(k, FALSE, FALSE, "none")

(* Retries.                                                                *)

(* ScheduleRetry: one more retry after m_retryTimeout, or none is left.    *)
ScheduleRetry(k) ==
  /\ retries' = [retries EXCEPT ![k] = @ + 1]
  /\ IF retries[k] + 1 > MaxRetries
       THEN Terminalize(queue, k, "failed", k \in reserved, FALSE)
       ELSE /\ waiting' = waiting \ {k}
            /\ retry' = [retry EXCEPT ![k] = "armed"]
            /\ UNCHANGED <<phase, reserved, linked, targets,
                           queue, wakeups, inUse>>

(* The retry event: ProcessSendRequest starts from a fresh lifecycle state *)
(* that remembers neither the budget nor the queue entry.                  *)
ExecuteRetry(k) ==
  \/ retry[k] = "armed" /\ Dispatch(k, FALSE, FALSE, "none")
  \/ /\ retry[k] = "stale"
     /\ retry' = [retry EXCEPT ![k] = "none"]
     /\ UNCHANGED <<phase, waiting, reserved, linked, retries, targets,
                    queue, wakeups, inUse, flight>>

(* DoPeriodicProcessing finds the deadline of k in the past.               *)
ResponseTimeout(k) ==
  /\ k \in waiting /\ retry[k] = "none"
  /\ IF RetryEnabled THEN ScheduleRetry(k)
     ELSE /\ Terminalize(queue, k, "failed", k \in reserved, FALSE)
          /\ UNCHANGED retries
  /\ UNCHANGED flight

-----------------------------------------------------------------------------
(* ProcessReceiveResponse, for one packet of k.  A finished request        *)
(* ignores it; NO_MATCH means a SEND found no receive posted.  A chunk of  *)
(* a READ that does not complete it only starts the deadline again, and    *)
(* only if there is one (ArmResponseTimeout).                              *)
ReceiveOk(k) ==
  /\ Terminalize(queue, k, "completed", k \in reserved, FALSE)
  /\ UNCHANGED retries

ReceiveNoMatch(k) ==
  /\ k \in Sends
  /\ IF RetryEnabled THEN ScheduleRetry(k)
     ELSE /\ Terminalize(queue, k, "failed", k \in reserved, FALSE)
          /\ UNCHANGED retries

ReceiveError(k) ==
  /\ Terminalize(queue, k, "failed", k \in reserved, FALSE)
  /\ UNCHANGED retries

(* Plausible mistake: a late response is not told from a live one.         *)
ReceiveResponseLate(k) ==
  /\ flight[k] > 0
  /\ flight' = [flight EXCEPT ![k] = @ - 1]
  /\ ReceiveOk(k) \/ ReceiveNoMatch(k) \/ ReceiveError(k)

ReceiveResponse(k) ==
  /\ flight[k] > 0
  /\ flight' = [flight EXCEPT ![k] = @ - 1]
  /\ IF phase[k] = "live"
       THEN ReceiveOk(k) \/ ReceiveNoMatch(k) \/ ReceiveError(k)
       ELSE UNCHANGED <<control, queue, wakeups, inUse>>

(* A packet, or its response, is lost, or draws no response.               *)
Vanish(k) ==
  /\ flight[k] > 0
  /\ flight' = [flight EXCEPT ![k] = @ - 1]
  /\ UNCHANGED <<control, queue, wakeups, inUse>>

-----------------------------------------------------------------------------
(* DrainBlockedPeerQueue, one iteration of its loop at a time.  While it   *)
(* runs nothing else does.                                                 *)
Wakeup(p) ==
  /\ p \in wakeups
  /\ wakeups' = wakeups \ {p}
  /\ draining' = p
  /\ UNCHANGED <<control, queue, inUse, flight>>

DrainDone ==
  /\ queue[draining] = <<>>
  /\ draining' = Idle
  /\ UNCHANGED <<control, queue, wakeups, inUse, flight>>

DrainHead(k) ==
  \/ /\ k \in Finished
     /\ queue' = Unqueued(queue, k)
     /\ wakeups' = WakeupsAfter(Unqueued(queue, k), PeerOf[k], FALSE)
     /\ UNCHANGED <<control, draining, inUse, flight>>
  \/ /\ k \in Live
     /\ Dispatch(k, k \in linked, k \in reserved, retry[k])
     /\ draining' = IF k \in linked' THEN Idle ELSE draining

Drain ==
  /\ draining # Idle
  /\ \/ DrainDone
     \/ queue[draining] # <<>> /\ DrainHead(Head(queue[draining]))

Event ==
  /\ draining = Idle
  /\ \/ /\ \E k \in Requests :
             \/ Submit(k) \/ ExecuteRetry(k) \/ ResponseTimeout(k)
             \/ ReceiveResponse(k) \/ Vanish(k)
        /\ UNCHANGED draining
     \/ \E p \in Peers : Wakeup(p)

Next == Drain \/ Event

Spec == Init /\ [][Next]_vars

(* Everything the simulator has scheduled runs: the loop of a drain, a     *)
(* wakeup, a retry, the periodic check of a deadline, and the packets on   *)
(* their way arrive or are lost.                                           *)
Fairness ==
  /\ WF_vars(Drain)
  /\ \A p \in Peers : WF_vars(Event /\ Wakeup(p))
  /\ \A k \in Requests :
       /\ WF_vars(Event /\ ExecuteRetry(k))
       /\ WF_vars(Event /\ ResponseTimeout(k))
       /\ WF_vars(Event /\ (ReceiveResponse(k) \/ Vanish(k)))

FairSpec == Spec /\ Fairness

-----------------------------------------------------------------------------
(* Properties.                                                             *)

(* The lifecycle state, the queues and the budgets are well typed, and the *)
(* budgets stay within their limits.                                       *)
TypeOK ==
  /\ phase \in [Requests -> {"new", "live"} \cup Outcomes]
  /\ waiting \subseteq Requests /\ linked \subseteq Requests
  /\ reserved \subseteq Sends \cup Writes
  /\ targets \subseteq Reads
  /\ retries \in [Requests -> 0 .. (MaxRetries + 1)]
  /\ retry \in [Requests -> {"none", "armed", "stale"}]
  /\ queue \in [Peers -> Seq(Requests)]
  /\ wakeups \subseteq Peers /\ draining \in Peers \cup {Idle}
  /\ inUse \in [Budgets -> Nat]
  /\ MessageLimit # 0 => \A b \in Budgets : inUse[b] <= MessageLimit
  /\ flight \in [Requests -> 0 .. PdcRoom]

(* A live request always has something that will move it on: a response    *)
(* deadline, a retry that will not be skipped, or a place in its peer's    *)
(* queue.                                                                  *)
LiveIsDriven ==
  \A k \in Live :
    \/ k \in waiting
    \/ retry[k] = "armed"
    \/ k \in linked /\ k \in Range(queue[PeerOf[k]])

(* The budget counters cover every request that holds budget, so giving it *)
(* back never finds a counter at zero.                                     *)
BudgetCovered ==
  \A b \in Budgets : Cardinality(reserved \cap Members(b)) <= inUse[b]

(* Terminalizing leaves nothing behind that could act for the request:     *)
(* no budget, READ target, deadline or retry.                              *)
FinishedHoldsNothing ==
  \A k \in Finished :
    /\ k \notin reserved \cup waiting \cup targets \cup linked
    /\ retry[k] = "none"

(* A queue whose head could be dispatched has its wakeup coming.  Holds    *)
(* for one peer without retries: a budget is counted over all peers but    *)
(* its release wakes one, and a late response takes a retried request out  *)
(* of the head of a queue without a wakeup for the next.                   *)
WakeupNotLost ==
  \A p \in Peers :
    \/ queue[p] = <<>> \/ p \in wakeups \/ draining = p
    \/ ~Admitted(Head(queue[p]), Head(queue[p]) \in reserved)

(* What SesManager::ProcessReceiveResponse says of the send admission:     *)
(* "release that budget immediately": only requests that hold it are       *)
(* counted.                                                                *)
AdmissionReturned ==
  inUse["send"] = Cardinality(reserved \cap Sends)

(* A finished request stays as it ended, and sends nothing more.           *)
FinishedIsFinal ==
  [][\A k \in Finished : phase'[k] = phase[k] /\ flight'[k] <= flight[k]]_vars

(* Every submitted request ends.                                           *)
EveryRequestEnds ==
  \A k \in Requests : (k \in Live) ~> (k \in Finished)
=============================================================================
