-------------------------------- MODULE Tpdc --------------------------------
(***************************************************************************)
(* The transactional packet delivery context of Soft-UE                    *)
(* (src/src/soft-ue/model/pdc/tpdc.cc): one outgoing Tpdc of the sender's  *)
(* PdsManager, the passive receive Tpdc its peer creates for it, and the   *)
(* channel between the two.  The sender numbers packets, keeps a copy of   *)
(* each until it is acknowledged, and re-sends on a per-packet timeout or  *)
(* on a gap NACK; the receiver tracks the next number it expects and the   *)
(* numbers that arrived early, and answers with control packets that carry *)
(* a cumulative ACK, one selective ACK and one gap NACK.                   *)
(*                                                                         *)
(* The channel (soft-ue-channel.cc) loses packets and delivers them in any *)
(* order; it makes no copies of its own, but retransmissions put several   *)
(* copies of a number in flight, so the network is a bag.                  *)
(*                                                                         *)
(* A packet is its sequence number.  Which waiting packet gets the next    *)
(* number (the READ-response priorities) is not modelled here, so the send *)
(* queue is its length.  Simulated time is abstracted: a pending event may *)
(* run at any moment, except that PrematureRto = FALSE lets a              *)
(* retransmission timeout run only when nothing is on its way any more:    *)
(* the RTO then exceeds every round trip.                                  *)
(***************************************************************************)
EXTENDS Integers, FiniteSets, Bags

CONSTANTS
  SendWindow,           \* m_tpdcConfig.sendWindowSize
  RecvWindow,           \* m_tpdcConfig.receiveWindowSize
  MaxSendBuffer,        \* m_tpdcConfig.maxSendBufferSize
  MaxRecvBuffer,        \* m_tpdcConfig.maxReceiveBufferSize
  MaxRetx,              \* m_tpdcConfig.maxRetransmissions
  PrematureRto,         \* may a round trip take longer than the RTO?
  MaxPackets,           \* bound: packets the layer above hands over
  MaxLosses             \* bound: packets the channel loses

ASSUME TpdcAssumption ==
  /\ SendWindow \in Nat \ {0}
  /\ RecvWindow \in Nat \ {0}
  /\ MaxSendBuffer \in Nat \ {0}
  /\ MaxRecvBuffer \in Nat
  /\ MaxRetx \in Nat
  /\ PrematureRto \in BOOLEAN
  /\ MaxPackets \in Nat
  /\ MaxLosses \in Nat

VARIABLES
  nextSend,             \* m_nextSendSequence
  base,                 \* m_sendWindowBase
  sendBuffer,           \* m_sendBuffer: number -> retransmissionCount
  armed,                \* the buffered numbers whose timeoutEvent is pending
  queued,               \* m_sendQueue.size ()
  nextRecv,             \* m_nextReceiveSequence = m_receiveWindowBase
  recvBuffer,           \* the numbers in m_receiveBuffer
  highest,              \* m_highestObservedSequence
  ackPending,           \* m_ackEventId.IsPending ()
  net,                  \* packets in flight, both directions
  losses                \* packets the channel has lost

senderVars   == <<nextSend, base, sendBuffer, armed, queued>>
receiverVars == <<nextRecv, recvBuffer, highest, ackPending>>
vars == <<senderVars, receiverVars, net, losses>>

-----------------------------------------------------------------------------
(* Packets.  A control packet's sack and nack are 0 when its flags do not  *)
(* announce them.                                                          *)

DataPacket    == [type : {"data"}, seq : Nat]
ControlPacket == [type : {"control"}, cum : Nat, sack : Nat, nack : Nat]
InFlight      == BagToSet(net)

Data(s) == [type |-> "data", seq |-> s]

(* The channel delivers (or loses) `gone' and accepts `sent'.              *)
Exchange(gone, sent) == net' = (net (-) SetToBag(gone)) (+) SetToBag(sent)

(* What the receiver has taken in, in order or ahead of order.             *)
Received == (1 .. (nextRecv - 1)) \cup recvBuffer

MinOf(a, b) == IF a < b THEN a ELSE b
MaxOf(a, b) == IF a > b THEN a ELSE b

Init ==
  /\ nextSend = 1 /\ base = 1 /\ sendBuffer = <<>> /\ armed = {} /\ queued = 0
  /\ nextRecv = 1 /\ recvBuffer = {} /\ highest = 0 /\ ackPending = FALSE
  /\ net = EmptyBag /\ losses = 0

-----------------------------------------------------------------------------
(* The sender.                                                             *)

(* Mutant: the window admits one number too many.                          *)
WideSendWindow(s) == s >= base /\ s <= base + SendWindow

InSendWindow(s) == s >= base /\ s < base + SendWindow

Buffered == DOMAIN sendBuffer

(* SendPacket finds the window open: number, buffer, transmit and arm.     *)
SendNow ==
  /\ nextSend - 1 + queued < MaxPackets
  /\ Cardinality(Buffered) < MaxSendBuffer
  /\ InSendWindow(nextSend)
  /\ nextSend' = nextSend + 1
  /\ sendBuffer' = [s \in Buffered \cup {nextSend} |->
                      IF s = nextSend THEN 0 ELSE sendBuffer[s]]
  /\ armed' = armed \cup {nextSend}
  /\ Exchange({}, {Data(nextSend)})
  /\ UNCHANGED <<base, queued, receiverVars, losses>>

(* SendPacket finds the window closed: the packet waits in m_sendQueue.    *)
SendLater ==
  /\ nextSend - 1 + queued < MaxPackets
  /\ Cardinality(Buffered) < MaxSendBuffer
  /\ ~InSendWindow(nextSend)
  /\ queued' = queued + 1
  /\ UNCHANGED <<nextSend, base, sendBuffer, armed, receiverVars, net, losses>>

(* Mutant: the budget check compares with > instead of >=.                 *)
MayRetransmitOnceMore(s) == sendBuffer[s] <= MaxRetx

(* RetransmitPacket spends one retransmission and re-arms the timer; with  *)
(* the budget spent it reports an error and leaves the packet as it is.    *)
MayRetransmit(s) == sendBuffer[s] < MaxRetx

(* Something that could still make a timeout unnecessary.                  *)
AnswerUnderway == InFlight # {} \/ ackPending

(* Mutant: a retransmission does not schedule the next timeout.            *)
RtoTimeoutOnce(s) ==
  /\ PrematureRto \/ ~AnswerUnderway
  /\ armed' = armed \ {s}
  /\ IF MayRetransmit(s)
       THEN /\ sendBuffer' = [sendBuffer EXCEPT ![s] = @ + 1]
            /\ Exchange({}, {Data(s)})
       ELSE UNCHANGED <<sendBuffer, net>>
  /\ UNCHANGED <<nextSend, base, queued, receiverVars, losses>>

(* HandleRtoTimeout: the event has run, so only a retransmission re-arms.  *)
RtoTimeout(s) ==
  /\ PrematureRto \/ ~AnswerUnderway
  /\ IF MayRetransmit(s)
       THEN /\ sendBuffer' = [sendBuffer EXCEPT ![s] = @ + 1]
            /\ Exchange({}, {Data(s)})
            /\ UNCHANGED armed
       ELSE /\ armed' = armed \ {s}
            /\ UNCHANGED <<sendBuffer, net>>
  /\ UNCHANGED <<nextSend, base, queued, receiverVars, losses>>

(* A cumulative ACK that ends below the window is a duplicate.             *)
Duplicate(c) == c.cum + 1 < base

(* Mutant: an old acknowledgment moves the window back.                    *)
NewBaseUnchecked(c) == c.cum + 1

(* What CleanupAcknowledgedPackets leaves of the window and the buffer.    *)
NewBase(c) == MaxOf(base, c.cum + 1)
Kept(c)    == {s \in Buffered : s >= NewBase(c)}

(* The number a gap NACK makes RetransmitPacket re-send.                   *)
Nacked(c) == {s \in Kept(c) : s = c.nack /\ MayRetransmit(s) /\ ~Duplicate(c)}

(* How many waiting packets ProcessSendQueue sends into the new window.    *)
Drained(c) == IF Duplicate(c) /\ c.sack = 0 THEN 0
              ELSE MinOf(queued, MaxOf(0, NewBase(c) + SendWindow - nextSend))
Fresh(c)   == nextSend .. (nextSend + Drained(c) - 1)

(* HandleReceivedPacket on a control packet: the cumulative ACK frees a    *)
(* prefix, the gap NACK re-sends the number it names, ProcessSendQueue     *)
(* fills the window, and the selective ACK, applied even when the          *)
(* cumulative part is a duplicate, frees one more number.                  *)
ReceiveControl(c) ==
  /\ base' = NewBase(c)
  /\ nextSend' = nextSend + Drained(c)
  /\ queued' = queued - Drained(c)
  /\ sendBuffer' = [s \in (Kept(c) \cup Fresh(c)) \ {c.sack} |->
                      IF s \in Fresh(c) THEN 0
                      ELSE IF s \in Nacked(c) THEN sendBuffer[s] + 1
                      ELSE sendBuffer[s]]
  /\ armed' = ((armed \cap Kept(c)) \cup Nacked(c) \cup Fresh(c)) \ {c.sack}
  /\ Exchange({c}, {Data(s) : s \in Nacked(c) \cup Fresh(c)})
  /\ UNCHANGED <<receiverVars, losses>>

-----------------------------------------------------------------------------
(* The receiver.                                                           *)

(* Mutant: a duplicate is dropped silently.                                *)
ReceiveDuplicateSilently(s) ==
  /\ s < nextRecv
  /\ UNCHANGED <<nextRecv, recvBuffer, highest, ackPending>>

(* A number below the next expected one: only another ACK.                 *)
ReceiveDuplicate(s) ==
  /\ s < nextRecv
  /\ ackPending' = TRUE
  /\ UNCHANGED <<nextRecv, recvBuffer, highest>>

(* The expected number: absorb it and the run of buffered ones behind it.  *)
ReceiveInOrder(s) ==
  /\ s = nextRecv
  /\ highest' = MaxOf(highest, s)
  /\ \E m \in (nextRecv + 1) .. (highest' + 1) :
       /\ (nextRecv + 1) .. (m - 1) \subseteq recvBuffer
       /\ m \notin recvBuffer
       /\ nextRecv' = m
       /\ recvBuffer' = {k \in recvBuffer : k > m}
  /\ ackPending' = TRUE

(* An early number: buffered if there is room; if there is none it is      *)
(* dropped without an ACK, but remembered as observed.                     *)
ReceiveEarly(s) ==
  /\ s > nextRecv
  /\ s < nextRecv + RecvWindow
  /\ highest' = MaxOf(highest, s)
  /\ \/ /\ Cardinality(recvBuffer) < MaxRecvBuffer
        /\ recvBuffer' = recvBuffer \cup {s}
        /\ ackPending' = TRUE
     \/ /\ ~(Cardinality(recvBuffer) < MaxRecvBuffer)
        /\ UNCHANGED recvBuffer
        /\ UNCHANGED ackPending
  /\ UNCHANGED nextRecv

(* Outside the receive window: dropped without a trace.                    *)
ReceiveOutside(s) ==
  /\ s >= nextRecv + RecvWindow
  /\ UNCHANGED <<nextRecv, recvBuffer, highest, ackPending>>

ReceiveData(s) ==
  /\ \/ ReceiveDuplicate(s)
     \/ ReceiveInOrder(s)
     \/ ReceiveEarly(s)
     \/ ReceiveOutside(s)
  /\ Exchange({Data(s)}, {})
  /\ UNCHANGED <<senderVars, losses>>

(* The selective ACK names the lowest early arrival, m_receiveBuffer's     *)
(* first key.                                                              *)
Lowest(S) == {s \in S : \A k \in S : s <= k}
Selective == IF recvBuffer = {} THEN {0} ELSE Lowest(recvBuffer)

(* Mutant: the cumulative ACK names the highest number seen.               *)
AcknowledgeHighest(sack) ==
  [type |-> "control", cum |-> highest, sack |-> sack,
   nack |-> IF recvBuffer = {} \/ nextRecv > highest THEN 0 ELSE nextRecv]

(* The control packet CreateAcknowledgment and SendAcknowledgment build.   *)
Acknowledgment(sack) ==
  [type |-> "control",
   cum  |-> nextRecv - 1,
   sack |-> sack,
   nack |-> IF recvBuffer = {} \/ nextRecv > highest THEN 0 ELSE nextRecv]

(* The scheduled SendPendingAcknowledgments event.                         *)
SendAcknowledgment ==
  /\ ackPending
  /\ ackPending' = FALSE
  /\ \E sack \in Selective : Exchange({}, {Acknowledgment(sack)})
  /\ UNCHANGED <<senderVars, nextRecv, recvBuffer, highest, losses>>

-----------------------------------------------------------------------------
(* The channel, and the whole system.                                      *)

Lose(p) ==
  /\ losses < MaxLosses
  /\ losses' = losses + 1
  /\ Exchange({p}, {})
  /\ UNCHANGED <<senderVars, receiverVars>>

Deliver(p) ==
  \/ p.type = "data" /\ ReceiveData(p.seq)
  \/ p.type = "control" /\ ReceiveControl(p)

Next ==
  \/ SendNow
  \/ SendLater
  \/ \E s \in armed : RtoTimeout(s)
  \/ SendAcknowledgment
  \/ \E p \in InFlight : Deliver(p) \/ Lose(p)

Spec == Init /\ [][Next]_vars

(* The simulator runs every scheduled event: a pending timeout, a pending  *)
(* acknowledgment, the arrival of each packet the channel did not lose.    *)
(* Nothing forces the layer above to send, or the channel to lose.         *)
Fairness ==
  /\ WF_vars(SendAcknowledgment)
  /\ WF_vars(\E p \in InFlight : Deliver(p))
  /\ WF_vars(\E s \in armed : RtoTimeout(s))

FairSpec == Spec /\ Fairness

-----------------------------------------------------------------------------
(* Correctness.                                                            *)

(* Type correctness of the state of both Tpdc objects and the channel.     *)
TypeOK ==
  /\ nextSend \in Nat \ {0}
  /\ base \in Nat \ {0}
  /\ queued \in Nat
  /\ Buffered \subseteq Nat
  /\ \A s \in Buffered : sendBuffer[s] \in 0 .. MaxRetx
  /\ armed \subseteq Buffered
  /\ nextRecv \in Nat \ {0}
  /\ recvBuffer \subseteq Nat
  /\ highest \in Nat
  /\ ackPending \in BOOLEAN
  /\ IsABag(net)
  /\ InFlight \subseteq DataPacket \cup ControlPacket
  /\ losses \in 0 .. MaxLosses

(* The sender deletes its copy of a packet (CleanupAcknowledgedPackets)    *)
(* only once the receiver has it: whatever was numbered is in the send     *)
(* buffer or in the receiver's hands, whichever ACK, SACK or NACK came in  *)
(* whatever order.                                                         *)
NoPacketForgotten ==
  \A s \in 1 .. (nextSend - 1) : s \in Buffered \/ s \in Received

(* The window moves past a packet only when the receiver has delivered it  *)
(* in order, and neither does the receiver expect a number that was never  *)
(* issued: the two ends never disagree about the past.                     *)
WindowsAgree ==
  /\ base <= nextRecv
  /\ nextRecv <= nextSend
  /\ nextSend <= base + SendWindow

(* A packet waits in m_sendQueue only while the window is closed, so a     *)
(* packet that SendPacket transmits directly never overtakes a queued one. *)
QueueOnlyBehindClosedWindow ==
  queued > 0 => nextSend = base + SendWindow

(* An unacknowledged packet has a pending timeout, or it has used up its   *)
(* retransmissions: no order of NACK, SACK and timeout disarms a packet    *)
(* that may still be re-sent.                                              *)
TimerOrExhausted ==
  \A s \in Buffered : s \in armed \/ sendBuffer[s] = MaxRetx

(* What the receiver buffers is a set of early arrivals inside its window, *)
(* with the next expected number missing: the run behind an in-order       *)
(* arrival is always absorbed.                                             *)
EarlyArrivalsBeyondGap ==
  /\ \A s \in recvBuffer : nextRecv < s /\ s <= highest /\ s < nextRecv + RecvWindow
  /\ highest < nextSend
  /\ Cardinality(recvBuffer) <= MaxRecvBuffer

(* A control packet in flight, however old, claims nothing the receiver    *)
(* does not hold: its cumulative and its selective part are both true.     *)
AcksAreTrue ==
  \A c \in InFlight \cap ControlPacket :
    /\ 1 .. c.cum \subseteq Received
    /\ c.sack # 0 => c.sack \in Received

(* The receiver never gives back a number it has taken in, and neither end *)
(* of the window moves backwards, whatever arrives late.                   *)
NeverReneges ==
  [][/\ Received \subseteq Received'
     /\ base' >= base
     /\ nextRecv' >= nextRecv]_vars

(* The context implements the reliable window service.                     *)
Stream == INSTANCE ReliableWindow WITH
            Window    <- SendWindow,
            issued    <- nextSend - 1,
            taken     <- Received,
            confirmed <- base - 1
StreamSpec == Stream!Spec

(* Every numbered packet is eventually taken in by the receiver, and every *)
(* packet SendPacket accepted is eventually numbered.                      *)
GuaranteedDelivery ==
  /\ \A s \in 1 .. MaxPackets : (nextSend > s) ~> (nextRecv > s)
  /\ \A k \in 1 .. MaxPackets : (queued >= k) ~> (queued < k)
=============================================================================
