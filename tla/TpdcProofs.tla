----------------------------- MODULE TpdcProofs -----------------------------
(***************************************************************************)
(* Theorems about the transactional packet delivery context, for windows,  *)
(* buffers, retry budgets and numbers of packets and losses of any size,   *)
(* and about its composition with the layer above (TpdcDelivery).          *)
(***************************************************************************)
EXTENDS TpdcDelivery, FiniteSetTheorems, TLAPS

USE TpdcAssumption

(* What the send buffer holds lies between the two ends of the window.     *)
BufferInWindow == \A s \in Buffered : base <= s /\ s < nextSend

(* What is in flight: numbers that were issued, and control packets whose  *)
(* cumulative part stays behind the receiver and whose selective part      *)
(* names something it holds.                                               *)
DataWasIssued ==
  \A p \in InFlight \cap DataPacket : 1 <= p.seq /\ p.seq < nextSend
ControlWasTrue ==
  \A c \in InFlight \cap ControlPacket :
    /\ c.cum < nextRecv
    /\ c.sack # 0 => c.sack \in Received

IInv ==
  /\ TypeOK
  /\ NoPacketForgotten
  /\ WindowsAgree
  /\ QueueOnlyBehindClosedWindow
  /\ TimerOrExhausted
  /\ EarlyArrivalsBeyondGap
  /\ BufferInWindow
  /\ DataWasIssued
  /\ ControlWasTrue

-----------------------------------------------------------------------------
(* The network.                                                            *)

(* An exchange leaves the network a bag, adds nothing but what is sent and *)
(* loses nothing but what is gone.                                         *)
LEMMA ExchangeEffect ==
  ASSUME IsABag(net), NEW gone, NEW sent, Exchange(gone, sent)
  PROVE  /\ IsABag(net')
         /\ InFlight' \subseteq InFlight \cup sent
<1> DEFINE left == net (-) SetToBag(gone)
<1>1. IsABag(left) /\ DOMAIN left \subseteq DOMAIN net
  BY DEF IsABag, (-), SetToBag
<1>2. IsABag(left (+) SetToBag(sent)) /\ DOMAIN (left (+) SetToBag(sent)) = DOMAIN left \cup sent
  <2> HIDE DEF left
  <2> QED BY <1>1 DEF IsABag, (+), SetToBag
<1> QED BY <1>1, <1>2 DEF Exchange, InFlight, BagToSet

(* Data and control packets are told apart by their type.                  *)
LEMMA PacketKinds ==
  /\ \A s \in Nat : Data(s) \in DataPacket /\ Data(s) \notin ControlPacket /\ Data(s).seq = s
  /\ \A p \in DataPacket : p.type = "data" /\ p.seq \in Nat /\ p \notin ControlPacket
  /\ \A c \in ControlPacket : /\ c.type = "control" /\ c \notin DataPacket
                              /\ c.cum \in Nat /\ c.sack \in Nat /\ c.nack \in Nat
  BY DEF Data, DataPacket, ControlPacket

-----------------------------------------------------------------------------
(* The invariant.                                                          *)

(* Two fresh contexts satisfy the invariant.                               *)
LEMMA InitInv == Init => IInv
<1> SUFFICES ASSUME Init PROVE IInv
  OBVIOUS
<1> USE DEF Init
<1>1. InFlight = {} /\ IsABag(net)
  BY DEF InFlight, EmptyBag, SetToBag, BagToSet, IsABag
<1>2. Buffered = {}
  BY DEF Buffered
<1>3. Cardinality(recvBuffer) = 0
  BY FS_EmptySet
<1>4. TypeOK
  <2>1. ackPending \in BOOLEAN
    BY Zenon
  <2>2. nextSend \in Nat \ {0} /\ base \in Nat \ {0} /\ queued \in Nat
    OBVIOUS
  <2>3. nextRecv \in Nat \ {0} /\ highest \in Nat /\ losses \in 0 .. MaxLosses
    OBVIOUS
  <2> QED BY <1>1, <1>2, <2>1, <2>2, <2>3, Zenon DEF TypeOK
<1>5. EarlyArrivalsBeyondGap
  BY <1>3 DEF EarlyArrivalsBeyondGap
<1> QED
  BY <1>1, <1>2, <1>4, <1>5
  DEF IInv, NoPacketForgotten, WindowsAgree, QueueOnlyBehindClosedWindow, TimerOrExhausted,
      BufferInWindow, DataWasIssued, ControlWasTrue

(* Numbering and transmitting a new packet.                                *)
LEMMA SendNowInv == IInv /\ SendNow => IInv'
<1> SUFFICES ASSUME IInv, SendNow PROVE IInv'
  OBVIOUS
<1> USE DEF IInv, TypeOK
<1>1. IsABag(net') /\ InFlight' \subseteq InFlight \cup {Data(nextSend)}
  BY ExchangeEffect DEF SendNow
<1>2. /\ nextSend' = nextSend + 1 /\ Buffered' = Buffered \cup {nextSend}
      /\ sendBuffer'[nextSend] = 0 /\ armed' = armed \cup {nextSend}
      /\ \A s \in Buffered \ {nextSend} : sendBuffer'[s] = sendBuffer[s]
  BY DEF SendNow, Buffered
<1>3. UNCHANGED <<base, queued, receiverVars, losses>> /\ Received' = Received
  BY DEF SendNow, receiverVars, Received
<1>4. TypeOK'
  <2>1. ackPending' \in BOOLEAN
    BY <1>3, Zenon DEF receiverVars
  <2>2. InFlight' \subseteq DataPacket \cup ControlPacket
    BY <1>1, PacketKinds
  <2> QED BY <1>1, <1>2, <1>3, <2>1, <2>2 DEF receiverVars
<1>5. NoPacketForgotten'
  BY <1>2, <1>3 DEF NoPacketForgotten
<1>6. WindowsAgree' /\ QueueOnlyBehindClosedWindow'
  BY <1>2, <1>3 DEF WindowsAgree, QueueOnlyBehindClosedWindow, SendNow, InSendWindow, receiverVars
<1>7. TimerOrExhausted'
  BY <1>2 DEF TimerOrExhausted
<1>8. EarlyArrivalsBeyondGap'
  BY <1>2, <1>3 DEF EarlyArrivalsBeyondGap, receiverVars
<1>9. BufferInWindow'
  BY <1>2, <1>3 DEF BufferInWindow, SendNow, InSendWindow
<1>10. DataWasIssued'
  BY <1>1, <1>2, PacketKinds DEF DataWasIssued
<1>11. ControlWasTrue'
  BY <1>1, <1>3, PacketKinds DEF ControlWasTrue, receiverVars
<1> QED BY <1>4, <1>5, <1>6, <1>7, <1>8, <1>9, <1>10, <1>11

(* Queueing a packet behind a closed window.                               *)
LEMMA SendLaterInv == IInv /\ SendLater => IInv'
<1> SUFFICES ASSUME IInv, SendLater PROVE IInv'
  OBVIOUS
<1> USE DEF IInv, TypeOK, SendLater, receiverVars
<1>1. InFlight' = InFlight /\ Buffered' = Buffered /\ Received' = Received
  BY DEF InFlight, Buffered, Received
<1>2. TypeOK'
  BY <1>1
<1>3. NoPacketForgotten' /\ TimerOrExhausted' /\ BufferInWindow'
  BY <1>1 DEF NoPacketForgotten, TimerOrExhausted, BufferInWindow
<1>4. WindowsAgree' /\ QueueOnlyBehindClosedWindow'
  BY DEF WindowsAgree, QueueOnlyBehindClosedWindow, InSendWindow
<1>5. EarlyArrivalsBeyondGap'
  BY DEF EarlyArrivalsBeyondGap
<1>6. DataWasIssued' /\ ControlWasTrue'
  BY <1>1 DEF DataWasIssued, ControlWasTrue
<1> QED BY <1>2, <1>3, <1>4, <1>5, <1>6

(* A timeout: a retransmission, or the budget is spent.                    *)
LEMMA RtoTimeoutInv == ASSUME IInv, NEW s \in armed, RtoTimeout(s) PROVE IInv'
<1> USE DEF IInv, TypeOK
<1>1. IsABag(net') /\ InFlight' \subseteq InFlight \cup {Data(s)}
  BY ExchangeEffect DEF RtoTimeout, InFlight
<1>2. /\ Buffered' = Buffered
      /\ armed' \subseteq armed
      /\ \A k \in Buffered : sendBuffer'[k] \in 0 .. MaxRetx
  BY DEF RtoTimeout, Buffered, MayRetransmit
<1>3. \A k \in Buffered : k \in armed' \/ sendBuffer'[k] = MaxRetx
  BY DEF RtoTimeout, Buffered, MayRetransmit, TimerOrExhausted
<1>4. UNCHANGED <<nextSend, base, queued, receiverVars, losses>> /\ Received' = Received
  BY DEF RtoTimeout, receiverVars, Received
<1>5. TypeOK'
  <2>1. ackPending' \in BOOLEAN
    BY <1>4, Zenon DEF receiverVars
  <2>2. InFlight' \subseteq DataPacket \cup ControlPacket
    BY <1>1, PacketKinds
  <2> QED BY <1>1, <1>2, <1>4, <2>1, <2>2 DEF receiverVars
<1>6. NoPacketForgotten' /\ BufferInWindow' /\ WindowsAgree' /\ QueueOnlyBehindClosedWindow'
  BY <1>2, <1>4
  DEF NoPacketForgotten, BufferInWindow, WindowsAgree, QueueOnlyBehindClosedWindow, receiverVars
<1>7. TimerOrExhausted'
  BY <1>2, <1>3 DEF TimerOrExhausted
<1>8. EarlyArrivalsBeyondGap'
  BY <1>4 DEF EarlyArrivalsBeyondGap, receiverVars
<1>9. DataWasIssued'
  BY <1>1, <1>4, PacketKinds DEF DataWasIssued, BufferInWindow
<1>10. ControlWasTrue'
  BY <1>1, <1>4, PacketKinds DEF ControlWasTrue, receiverVars
<1> QED BY <1>5, <1>6, <1>7, <1>8, <1>9, <1>10
(* A control packet: the prefix it frees and the number it selects are in  *)
(* the receiver's hands, so nothing else is forgotten.                     *)
LEMMA ReceiveControlInv ==
  ASSUME IInv, NEW c \in InFlight, c \in ControlPacket, ReceiveControl(c)
  PROVE  IInv'
<1> USE DEF IInv, TypeOK
<1>1. /\ base' = NewBase(c)
      /\ nextSend' = nextSend + Drained(c)
      /\ queued' = queued - Drained(c)
      /\ armed' = ((armed \cap Kept(c)) \cup Nacked(c) \cup Fresh(c)) \ {c.sack}
      /\ UNCHANGED <<receiverVars, losses>>
  BY DEF ReceiveControl
<1>2. /\ c.cum \in Nat /\ c.sack \in Nat /\ c.nack \in Nat
      /\ c.cum < nextRecv
      /\ c.sack # 0 => c.sack \in Received
  BY PacketKinds DEF ControlWasTrue
<1>3. /\ NewBase(c) \in Nat /\ base <= NewBase(c) /\ NewBase(c) <= nextRecv
      /\ Drained(c) \in Nat /\ Drained(c) <= queued
      /\ nextSend + Drained(c) <= NewBase(c) + SendWindow
      /\ Drained(c) < queued => nextSend + Drained(c) = NewBase(c) + SendWindow
  <2>1. /\ NewBase(c) \in Nat /\ base <= NewBase(c) /\ NewBase(c) <= nextRecv
        /\ Duplicate(c) => NewBase(c) = base
    BY <1>2 DEF MaxOf, NewBase, Duplicate, WindowsAgree
  <2>2. nextSend <= base + SendWindow /\ (queued > 0 => nextSend = base + SendWindow)
    BY DEF WindowsAgree, QueueOnlyBehindClosedWindow
  <2>3. CASE Duplicate(c) /\ c.sack = 0
    BY <2>1, <2>2, <2>3 DEF Drained
  <2>4. CASE ~(Duplicate(c) /\ c.sack = 0)
    BY <2>1, <2>2, <2>4 DEF Drained, MinOf, MaxOf
  <2> QED BY <2>1, <2>3, <2>4
<1>4. /\ Nacked(c) \subseteq Kept(c) /\ \A s \in Nacked(c) : MayRetransmit(s)
      /\ Kept(c) \subseteq Buffered /\ \A s \in Buffered : s >= NewBase(c) => s \in Kept(c)
      /\ \A s \in Kept(c) : s >= NewBase(c)
  BY DEF Nacked, Kept
<1>5. Received' = Received /\ Received \subseteq 1 .. (nextSend - 1)
  <2>1. nextRecv' = nextRecv /\ recvBuffer' = recvBuffer
    BY <1>1 DEF receiverVars
  <2>2. Received \subseteq 1 .. (nextSend - 1)
    BY DEF Received, WindowsAgree, EarlyArrivalsBeyondGap
  <2> QED BY <2>1, <2>2 DEF Received
<1>6. /\ Buffered' = (Kept(c) \cup Fresh(c)) \ {c.sack}
      /\ \A s \in Buffered' : sendBuffer'[s] = IF s \in Fresh(c) THEN 0
                                               ELSE IF s \in Nacked(c) THEN sendBuffer[s] + 1
                                               ELSE sendBuffer[s]
  <2> HIDE DEF IInv, TypeOK
  <2> QED BY DEF ReceiveControl, Buffered
<1>7. IsABag(net') /\ InFlight' \subseteq InFlight \cup {Data(s) : s \in Nacked(c) \cup Fresh(c)}
  BY ExchangeEffect DEF ReceiveControl
<1>8. /\ nextSend' >= nextSend
      /\ \A s \in Kept(c) : s \in Nat /\ 1 <= s /\ s < nextSend'
      /\ \A s \in Fresh(c) : s \in Nat /\ nextSend <= s /\ s < nextSend'
      /\ \A s \in Nat : nextSend <= s /\ s < nextSend' => s \in Fresh(c)
  <2>1. /\ nextSend \in Nat /\ nextSend' \in Nat /\ nextSend <= nextSend'
        /\ base \in Nat /\ base >= 1 /\ base' >= base
    BY <1>1, <1>3
  <2>2. \A s \in Kept(c) : s \in Nat /\ base <= s /\ s < nextSend
    BY <1>4 DEF BufferInWindow
  <2>3. nextSend' = nextSend + Drained(c) /\ Drained(c) \in Nat
    BY <1>1, <1>3
  <2> HIDE DEF IInv, TypeOK
  <2>4. \A s \in Kept(c) : s \in Nat /\ 1 <= s /\ s < nextSend'
    BY <2>1, <2>2
  <2>5. \A s \in Fresh(c) : s \in Nat /\ nextSend <= s /\ s < nextSend'
    BY <2>1, <2>3 DEF Fresh
  <2>6. ASSUME NEW s \in Nat, nextSend <= s, s < nextSend' PROVE s \in Fresh(c)
    BY <2>1, <2>3, <2>6 DEF Fresh
  <2> QED BY <2>1, <2>4, <2>5, <2>6
<1>9. TypeOK'
  <2>1. Buffered' \subseteq Nat /\ armed' \subseteq Buffered'
    BY <1>1, <1>4, <1>6, <1>8
  <2>2. \A s \in Buffered' : sendBuffer'[s] \in 0 .. MaxRetx
    <3> SUFFICES ASSUME NEW s \in Buffered' PROVE sendBuffer'[s] \in 0 .. MaxRetx
      OBVIOUS
    <3>1. CASE s \in Fresh(c)
      BY <1>6, <3>1
    <3>2. CASE s \notin Fresh(c) /\ s \in Nacked(c)
      <4>1. sendBuffer'[s] = sendBuffer[s] + 1 /\ sendBuffer[s] < MaxRetx /\ s \in Buffered
        BY <1>4, <1>6, <3>2 DEF MayRetransmit
      <4> QED BY <4>1
    <3>3. CASE s \notin Fresh(c) /\ s \notin Nacked(c)
      BY <1>4, <1>6, <3>3
    <3> QED BY <3>1, <3>2, <3>3
  <2>3. ackPending' \in BOOLEAN
    BY <1>1, Zenon DEF receiverVars
  <2>4. InFlight' \subseteq DataPacket \cup ControlPacket
    BY <1>4, <1>7, <1>8, PacketKinds
  <2>5. UNCHANGED <<nextRecv, recvBuffer, highest, losses>>
    BY <1>1 DEF receiverVars
  <2>6. base' \in Nat \ {0} /\ nextSend' \in Nat \ {0} /\ queued' \in Nat
    BY <1>1, <1>3
  <2> QED BY <1>7, <2>1, <2>2, <2>3, <2>4, <2>5, <2>6
<1>10. NoPacketForgotten'
  <2> SUFFICES ASSUME NEW s \in 1 .. (nextSend' - 1), s \notin Received' PROVE s \in Buffered'
    BY DEF NoPacketForgotten
  <2>1. s # c.sack /\ s >= NewBase(c)
    BY <1>1, <1>2, <1>3, <1>5 DEF Received
  <2>2. CASE s < nextSend
    BY <1>4, <1>5, <1>6, <2>1, <2>2 DEF NoPacketForgotten
  <2>3. CASE s >= nextSend
    BY <1>1, <1>3, <1>6, <1>8, <2>1, <2>3
  <2> QED BY <1>1, <1>3, <2>2, <2>3
<1>11. WindowsAgree' /\ QueueOnlyBehindClosedWindow'
  BY <1>1, <1>3 DEF WindowsAgree, QueueOnlyBehindClosedWindow, receiverVars
<1>12. TimerOrExhausted'
  BY <1>1, <1>4, <1>6 DEF TimerOrExhausted
<1>13. EarlyArrivalsBeyondGap'
  BY <1>1, <1>3 DEF EarlyArrivalsBeyondGap, receiverVars
<1>14. BufferInWindow'
  BY <1>1, <1>3, <1>4, <1>6, <1>8 DEF BufferInWindow, WindowsAgree
<1>15. DataWasIssued'
  BY <1>1, <1>3, <1>4, <1>7, <1>8, PacketKinds DEF DataWasIssued
<1>16. ControlWasTrue'
  BY <1>1, <1>4, <1>5, <1>7, <1>8, PacketKinds DEF ControlWasTrue, receiverVars
<1> QED BY <1>9, <1>10, <1>11, <1>12, <1>13, <1>14, <1>15, <1>16

(* A data packet: the receiver takes in an issued number or ignores it, and *)
(* never gives one back.                                                    *)
LEMMA ReceiveDataInv ==
  ASSUME IInv, NEW s \in Nat, Data(s) \in InFlight, ReceiveData(s)
  PROVE  IInv' /\ Received \subseteq Received' /\ nextRecv <= nextRecv'
<1> USE DEF IInv, TypeOK
<1>1. IsABag(net') /\ InFlight' \subseteq InFlight
  BY ExchangeEffect DEF ReceiveData
<1>2. UNCHANGED <<senderVars, losses>> /\ Buffered' = Buffered
  BY DEF ReceiveData, senderVars, Buffered
<1>3. 1 <= s /\ s < nextSend
  BY PacketKinds DEF DataWasIssued
<1>4. IsFiniteSet(recvBuffer) /\ Cardinality(recvBuffer) \in Nat
  <2>1. \A k \in recvBuffer : k <= highest
    BY DEF EarlyArrivalsBeyondGap
  <2>2. IsFiniteSet(recvBuffer)
    BY <2>1, FS_BoundedSetOfNaturals
  <2> QED BY <2>2, FS_CardinalityType
<1>5. /\ nextRecv' \in Nat \ {0} /\ recvBuffer' \subseteq Nat /\ highest' \in Nat
      /\ nextRecv <= nextRecv' /\ nextRecv' <= nextSend /\ highest' < nextSend
      /\ \A k \in recvBuffer' : nextRecv' < k /\ k <= highest' /\ k < nextRecv' + RecvWindow
      /\ Cardinality(recvBuffer') <= MaxRecvBuffer
      /\ Received \subseteq Received'
  <2> USE DEF EarlyArrivalsBeyondGap, WindowsAgree, Received
  <2>1. CASE ReceiveDuplicate(s)
    BY <2>1 DEF ReceiveDuplicate
  <2>2. CASE ReceiveInOrder(s)
    <3>1. highest' = MaxOf(highest, s) /\ s = nextRecv
      BY <2>2 DEF ReceiveInOrder
    <3>2. PICK m \in (nextRecv + 1) .. (highest' + 1) :
            /\ (nextRecv + 1) .. (m - 1) \subseteq recvBuffer
            /\ m \notin recvBuffer
            /\ nextRecv' = m
            /\ recvBuffer' = {k \in recvBuffer : k > m}
      BY <2>2 DEF ReceiveInOrder
    <3>3. m <= nextSend
      BY <1>3, <3>1, <3>2 DEF MaxOf
    <3>4. Cardinality(recvBuffer') <= MaxRecvBuffer
      <4>1. recvBuffer' \subseteq recvBuffer
        BY <3>2
      <4>2. IsFiniteSet(recvBuffer') /\ Cardinality(recvBuffer') <= Cardinality(recvBuffer)
        BY <1>4, <4>1, FS_Subset
      <4>3. Cardinality(recvBuffer') \in Nat
        BY <4>2, FS_CardinalityType
      <4> QED BY <1>4, <4>2, <4>3
    <3>5. nextRecv' = m /\ m \in Nat /\ nextRecv < m /\ m <= nextSend
      BY <3>2, <3>3
    <3>6. highest' \in Nat /\ highest <= highest' /\ highest' < nextSend
      BY <1>3, <3>1 DEF MaxOf
    <3>7. \A k \in recvBuffer' : m < k /\ k <= highest' /\ k < m + RecvWindow
      BY <3>2, <3>5, <3>6
    <3>8. Received \subseteq Received'
      <4>1. \A k \in recvBuffer : k < m \/ k \in recvBuffer'
        BY <3>2
      <4>2. \A k \in recvBuffer : k >= 1
        OBVIOUS
      <4> QED BY <3>5, <4>1, <4>2
    <3>9. recvBuffer' \subseteq Nat
      BY <3>2
    <3> HIDE DEF Received
    <3> QED BY <3>4, <3>5, <3>6, <3>7, <3>8, <3>9
  <2>3. CASE ReceiveEarly(s)
    <3>1. \/ recvBuffer' = recvBuffer
          \/ Cardinality(recvBuffer) < MaxRecvBuffer /\ recvBuffer' = recvBuffer \cup {s}
      BY <2>3, Zenon DEF ReceiveEarly
    <3>2. Cardinality(recvBuffer') <= MaxRecvBuffer
      <4>1. CASE recvBuffer' = recvBuffer
        BY <4>1
      <4>2. CASE Cardinality(recvBuffer) < MaxRecvBuffer /\ recvBuffer' = recvBuffer \cup {s}
        <5>1. \/ Cardinality(recvBuffer') = Cardinality(recvBuffer)
              \/ Cardinality(recvBuffer') = Cardinality(recvBuffer) + 1
          BY <1>4, <4>2, FS_AddElement, Zenon
        <5>2. IsFiniteSet(recvBuffer')
          BY <1>4, <4>2, FS_AddElement, Zenon
        <5>3. Cardinality(recvBuffer') \in Nat
          BY <5>2, FS_CardinalityType
        <5> QED BY <1>4, <4>2, <5>1, <5>3
      <4> QED BY <3>1, <4>1, <4>2
    <3>3. /\ nextRecv' = nextRecv /\ nextRecv < s /\ s < nextRecv + RecvWindow
          /\ highest' = MaxOf(highest, s)
      BY <2>3 DEF ReceiveEarly
    <3>4. highest' \in Nat /\ highest <= highest' /\ s <= highest' /\ highest' < nextSend
      BY <1>3, <3>3 DEF MaxOf
    <3>5. \A k \in recvBuffer' : nextRecv < k /\ k <= highest' /\ k < nextRecv + RecvWindow
      <4>1. \A k \in recvBuffer' : k \in recvBuffer \/ k = s
        BY <3>1
      <4>2. \A k \in recvBuffer : /\ k \in Nat /\ nextRecv < k /\ k <= highest
                                  /\ k < nextRecv + RecvWindow
        OBVIOUS
      <4>3. highest \in Nat /\ highest' \in Nat
        BY <3>4
      <4> HIDE DEF IInv, TypeOK, EarlyArrivalsBeyondGap, WindowsAgree
      <4> QED BY <3>3, <3>4, <4>1, <4>2, <4>3
    <3>6. recvBuffer \subseteq recvBuffer' /\ recvBuffer' \subseteq Nat
      BY <3>1
    <3>7. Received \subseteq Received'
      BY <3>3, <3>6, Zenon
    <3> HIDE DEF Received
    <3> QED BY <3>2, <3>3, <3>4, <3>5, <3>6, <3>7
  <2>4. CASE ReceiveOutside(s)
    BY <2>4 DEF ReceiveOutside
  <2> QED BY <2>1, <2>2, <2>3, <2>4 DEF ReceiveData
<1>6. ackPending' \in BOOLEAN
  <2>1. ackPending' = TRUE \/ ackPending' = ackPending
    BY Zenon DEF ReceiveData, ReceiveDuplicate, ReceiveInOrder, ReceiveEarly, ReceiveOutside
  <2> QED BY <2>1, Zenon
<1>7. TypeOK'
  BY <1>1, <1>2, <1>5, <1>6 DEF senderVars
<1>8. NoPacketForgotten' /\ BufferInWindow' /\ QueueOnlyBehindClosedWindow' /\ TimerOrExhausted'
  BY <1>2, <1>5
  DEF NoPacketForgotten, BufferInWindow, QueueOnlyBehindClosedWindow, TimerOrExhausted, senderVars
<1>9. WindowsAgree' /\ EarlyArrivalsBeyondGap'
  <2>1. base' = base /\ nextSend' = nextSend
    BY <1>2 DEF senderVars
  <2>2. WindowsAgree'
    BY <1>5, <2>1 DEF WindowsAgree
  <2>3. EarlyArrivalsBeyondGap'
    <3> HIDE DEF IInv, TypeOK
    <3> QED BY <1>5, <2>1 DEF EarlyArrivalsBeyondGap
  <2> QED BY <2>2, <2>3
<1>10. DataWasIssued' /\ ControlWasTrue'
  BY <1>1, <1>2, <1>5, PacketKinds DEF DataWasIssued, ControlWasTrue, senderVars
<1> QED BY <1>5, <1>7, <1>8, <1>9, <1>10

(* An acknowledgment: what the control packet says is true when it leaves. *)
LEMMA SendAcknowledgmentInv == IInv /\ SendAcknowledgment => IInv'
<1> SUFFICES ASSUME IInv, SendAcknowledgment PROVE IInv'
  OBVIOUS
<1> USE DEF IInv, TypeOK
<1>1. PICK sack \in Selective : Exchange({}, {Acknowledgment(sack)})
  BY DEF SendAcknowledgment
<1>2. IsABag(net') /\ InFlight' \subseteq InFlight \cup {Acknowledgment(sack)}
  BY <1>1, ExchangeEffect
<1>3. /\ UNCHANGED <<senderVars, nextRecv, recvBuffer, highest, losses>>
      /\ Buffered' = Buffered /\ Received' = Received
  BY DEF SendAcknowledgment, senderVars, Buffered, Received
<1>4. sack \in Nat /\ (sack # 0 => sack \in recvBuffer)
  BY DEF Selective, Lowest
<1>5. /\ Acknowledgment(sack) \in ControlPacket
      /\ Acknowledgment(sack).cum < nextRecv
      /\ Acknowledgment(sack).sack = sack
  BY <1>4 DEF Acknowledgment, ControlPacket
<1>6. TypeOK'
  <2>1. ackPending' \in BOOLEAN
    BY Zenon DEF SendAcknowledgment
  <2>2. InFlight' \subseteq DataPacket \cup ControlPacket
    BY <1>2, <1>5
  <2> QED BY <1>2, <1>3, <2>1, <2>2 DEF senderVars
<1>7. /\ NoPacketForgotten' /\ BufferInWindow' /\ QueueOnlyBehindClosedWindow'
      /\ TimerOrExhausted' /\ WindowsAgree' /\ EarlyArrivalsBeyondGap'
  BY <1>3
  DEF NoPacketForgotten, BufferInWindow, QueueOnlyBehindClosedWindow, TimerOrExhausted,
      WindowsAgree, EarlyArrivalsBeyondGap, senderVars
<1>8. DataWasIssued'
  BY <1>2, <1>3, <1>5, PacketKinds DEF DataWasIssued, senderVars
<1>9. ControlWasTrue'
  BY <1>2, <1>3, <1>4, <1>5, PacketKinds DEF ControlWasTrue, senderVars, Received
<1> QED BY <1>6, <1>7, <1>8, <1>9

(* A loss takes a packet away and changes nothing else.                    *)
LEMMA LoseInv == ASSUME IInv, NEW p \in InFlight, Lose(p) PROVE IInv'
<1> USE DEF IInv, TypeOK
<1>1. IsABag(net') /\ InFlight' \subseteq InFlight
  BY ExchangeEffect DEF Lose
<1>2. /\ UNCHANGED <<nextSend, base, sendBuffer, armed, queued>>
      /\ UNCHANGED <<nextRecv, recvBuffer, highest, ackPending>>
      /\ Buffered' = Buffered /\ Received' = Received
  BY DEF Lose, senderVars, receiverVars, Buffered, Received
<1>3. losses' \in 0 .. MaxLosses
  BY DEF Lose
<1>4. TypeOK'
  BY <1>1, <1>2, <1>3
<1>5. /\ NoPacketForgotten' /\ BufferInWindow' /\ QueueOnlyBehindClosedWindow'
      /\ TimerOrExhausted' /\ WindowsAgree' /\ EarlyArrivalsBeyondGap'
  BY <1>2
  DEF NoPacketForgotten, BufferInWindow, QueueOnlyBehindClosedWindow, TimerOrExhausted,
      WindowsAgree, EarlyArrivalsBeyondGap
<1>6. DataWasIssued' /\ ControlWasTrue'
  BY <1>1, <1>2 DEF DataWasIssued, ControlWasTrue
<1> QED BY <1>4, <1>5, <1>6

(* A step that changes nothing preserves it.                               *)
LEMMA StutterInv == IInv /\ UNCHANGED vars => IInv'
<1> SUFFICES ASSUME IInv, UNCHANGED vars PROVE IInv'
  OBVIOUS
<1>1. /\ UNCHANGED <<nextSend, base, sendBuffer, armed, queued, nextRecv, recvBuffer>>
      /\ UNCHANGED <<highest, ackPending, net, losses>>
  BY DEF vars, senderVars, receiverVars
<1>2. InFlight' = InFlight /\ Buffered' = Buffered /\ Received' = Received
  BY <1>1 DEF InFlight, Buffered, Received
<1> QED
  BY <1>1, <1>2
  DEF IInv, TypeOK, NoPacketForgotten, BufferInWindow, QueueOnlyBehindClosedWindow,
      TimerOrExhausted, WindowsAgree, EarlyArrivalsBeyondGap, DataWasIssued, ControlWasTrue

(* A delivery is the arrival of a data packet or of a control packet.      *)
LEMMA DeliverKinds ==
  ASSUME TypeOK, NEW p \in InFlight, Deliver(p)
  PROVE  \/ p.seq \in Nat /\ Data(p.seq) \in InFlight /\ ReceiveData(p.seq)
         \/ p \in ControlPacket /\ ReceiveControl(p)
<1>1. CASE p \in DataPacket
  <2>1. p = Data(p.seq) /\ p.seq \in Nat /\ p.type = "data"
    BY <1>1 DEF DataPacket, Data
  <2> QED BY <2>1 DEF Deliver
<1>2. CASE p \in ControlPacket
  BY <1>2, PacketKinds DEF Deliver
<1> QED BY <1>1, <1>2 DEF TypeOK

(* Every handler preserves it.                                             *)
LEMMA NextInv == IInv /\ [Next]_vars => IInv'
<1> SUFFICES ASSUME IInv, [Next]_vars PROVE IInv'
  OBVIOUS
<1>1. CASE SendNow
  BY <1>1, SendNowInv
<1>2. CASE SendLater
  BY <1>2, SendLaterInv
<1>3. ASSUME NEW s \in armed, RtoTimeout(s) PROVE IInv'
  BY <1>3, RtoTimeoutInv
<1>4. CASE SendAcknowledgment
  BY <1>4, SendAcknowledgmentInv
<1>5. ASSUME NEW p \in InFlight, Deliver(p) PROVE IInv'
  BY <1>5, DeliverKinds, ReceiveDataInv, ReceiveControlInv DEF IInv
<1>6. ASSUME NEW p \in InFlight, Lose(p) PROVE IInv'
  BY <1>6, LoseInv
<1>7. CASE UNCHANGED vars
  BY <1>7, StutterInv
<1> QED BY <1>1, <1>2, <1>3, <1>4, <1>5, <1>6, <1>7 DEF Next

-----------------------------------------------------------------------------
(* Invariance.                                                             *)

(* IInv holds in every reachable state.                                    *)
THEOREM Invariance == Spec => []IInv
  BY InitInv, NextInv, PTL DEF Spec

(* The two Tpdc objects and the channel keep well-typed state.             *)
THEOREM TypeCorrect == Spec => []TypeOK
<1>1. IInv => TypeOK
  BY DEF IInv
<1> QED BY <1>1, Invariance, PTL

(* CleanupAcknowledgedPackets never deletes the last copy of a packet.     *)
THEOREM NothingForgotten == Spec => []NoPacketForgotten
<1>1. IInv => NoPacketForgotten
  BY DEF IInv
<1> QED BY <1>1, Invariance, PTL

(* m_sendWindowBase, m_nextReceiveSequence and m_nextSendSequence stay in   *)
(* this order, at most one window apart.                                    *)
THEOREM WindowAgreement == Spec => []WindowsAgree
<1>1. IInv => WindowsAgree
  BY DEF IInv
<1> QED BY <1>1, Invariance, PTL

(* ProcessSendQueue leaves packets waiting only behind a closed window.    *)
THEOREM QueueWaitsForWindow == Spec => []QueueOnlyBehindClosedWindow
<1>1. IInv => QueueOnlyBehindClosedWindow
  BY DEF IInv
<1> QED BY <1>1, Invariance, PTL

(* An unacknowledged packet has a pending timeout or no retransmission left. *)
THEOREM TimersStayArmed == Spec => []TimerOrExhausted
<1>1. IInv => TimerOrExhausted
  BY DEF IInv
<1> QED BY <1>1, Invariance, PTL

(* BufferPacketForReceiving keeps early arrivals only, within its limits.  *)
THEOREM EarlyArrivals == Spec => []EarlyArrivalsBeyondGap
<1>1. IInv => EarlyArrivalsBeyondGap
  BY DEF IInv
<1> QED BY <1>1, Invariance, PTL

(* No control packet in flight claims a number the receiver does not hold. *)
THEOREM TrueAcks == Spec => []AcksAreTrue
<1>1. IInv => AcksAreTrue
  BY PacketKinds DEF IInv, TypeOK, ControlWasTrue, AcksAreTrue, Received
<1> QED BY <1>1, Invariance, PTL

-----------------------------------------------------------------------------
(* Steps.                                                                  *)

(* A data packet adds its own number to what the receiver holds, or none.  *)
LEMMA ReceiveDataTakes ==
  ASSUME IInv, NEW s \in Nat, ReceiveData(s)
  PROVE  Received' = Received \/ Received' = Received \cup {s}
<1> USE DEF Received
<1>1. CASE ReceiveDuplicate(s)
  BY <1>1 DEF ReceiveDuplicate
<1>2. CASE ReceiveInOrder(s)
  <2>1. s = nextRecv
    BY <1>2 DEF ReceiveInOrder
  <2>2. PICK m \in (nextRecv + 1) .. (highest' + 1) :
          /\ (nextRecv + 1) .. (m - 1) \subseteq recvBuffer
          /\ m \notin recvBuffer
          /\ nextRecv' = m
          /\ recvBuffer' = {k \in recvBuffer : k > m}
    BY <1>2 DEF ReceiveInOrder
  <2>3. m \in Int /\ nextRecv \in Nat /\ nextRecv < m
    BY <2>2 DEF IInv, TypeOK
  <2>4. \A k \in recvBuffer : k \in Nat /\ 1 <= k
    BY DEF IInv, TypeOK, EarlyArrivalsBeyondGap
  <2>5. ASSUME NEW k \in Received' PROVE k \in Received \cup {s}
    BY <2>1, <2>2, <2>3, <2>5
  <2>6. ASSUME NEW k \in Received \cup {s} PROVE k \in Received'
    <3>1. CASE k \in 1 .. (nextRecv - 1) \/ k = s
      BY <2>1, <2>2, <2>3, <3>1 DEF IInv, TypeOK
    <3>2. CASE k \in recvBuffer
      BY <2>2, <2>3, <2>4, <3>2
    <3> QED BY <2>6, <3>1, <3>2
  <2> QED BY <2>5, <2>6
<1>3. CASE ReceiveEarly(s)
  <2>1. nextRecv' = nextRecv /\ (recvBuffer' = recvBuffer \/ recvBuffer' = recvBuffer \cup {s})
    BY <1>3, Zenon DEF ReceiveEarly
  <2> QED BY <2>1
<1>4. CASE ReceiveOutside(s)
  BY <1>4 DEF ReceiveOutside
<1> QED BY <1>1, <1>2, <1>3, <1>4 DEF ReceiveData

(* A control packet confirms nothing the receiver does not hold, and fills *)
(* the window from the queue only when it confirms something.              *)
LEMMA ReceiveControlConfirms ==
  ASSUME IInv, NEW c \in InFlight, c \in ControlPacket, ReceiveControl(c)
  PROVE  /\ base' \in Nat /\ nextSend' \in Nat
         /\ UNCHANGED receiverVars /\ Received' = Received
         /\ base <= base' /\ base' <= nextRecv
         /\ nextSend <= nextSend' /\ nextSend' <= base' + SendWindow
         /\ base' = base => nextSend' = nextSend
<1> USE DEF IInv, TypeOK, WindowsAgree
<1>1. c.cum \in Nat /\ c.cum < nextRecv
  BY PacketKinds DEF ControlWasTrue
<1>2. base' = MaxOf(base, c.cum + 1) /\ base' \in Nat /\ base <= base' /\ base' <= nextRecv
  BY <1>1 DEF ReceiveControl, NewBase, MaxOf
<1>3. /\ nextSend' = nextSend + Drained(c)
      /\ Drained(c) \in Nat /\ Drained(c) <= queued
      /\ Drained(c) > 0 => nextSend + Drained(c) <= base' + SendWindow
  BY <1>2 DEF ReceiveControl, Drained, NewBase, MinOf, MaxOf
<1>4. UNCHANGED receiverVars /\ Received' = Received
  <2>1. UNCHANGED receiverVars
    BY DEF ReceiveControl
  <2> QED BY <2>1 DEF receiverVars, Received
<1>5. base' = base => nextSend' = nextSend
  BY <1>3 DEF QueueOnlyBehindClosedWindow
<1> QED BY <1>2, <1>3, <1>4, <1>5

(* What the receiver has taken in and both windows only grow.              *)
LEMMA StepNeverReneges ==
  ASSUME IInv, [Next]_vars
  PROVE  Received \subseteq Received' /\ base <= base' /\ nextRecv <= nextRecv'
<1> USE DEF IInv, TypeOK
<1>1. CASE UNCHANGED <<nextRecv, recvBuffer, base>>
  BY <1>1 DEF Received
<1>2. ASSUME NEW s \in Nat, Data(s) \in InFlight, ReceiveData(s)
      PROVE  Received \subseteq Received' /\ base <= base' /\ nextRecv <= nextRecv'
  <2>1. base' = base
    BY <1>2 DEF ReceiveData, senderVars
  <2>2. Received \subseteq Received' /\ nextRecv <= nextRecv'
    BY <1>2, ReceiveDataInv
  <2> QED BY <2>1, <2>2
<1>3. ASSUME NEW c \in InFlight, c \in ControlPacket, ReceiveControl(c)
      PROVE  Received \subseteq Received' /\ base <= base' /\ nextRecv <= nextRecv'
  BY <1>3, ReceiveControlConfirms DEF receiverVars
<1>4. ASSUME NEW p \in InFlight, Deliver(p)
      PROVE  Received \subseteq Received' /\ base <= base' /\ nextRecv <= nextRecv'
  BY <1>2, <1>3, <1>4, DeliverKinds
<1>5. CASE SendNow
  BY <1>1, <1>5 DEF SendNow, receiverVars
<1>6. CASE SendLater
  BY <1>1, <1>6 DEF SendLater, receiverVars
<1>7. ASSUME NEW s \in armed, RtoTimeout(s) PROVE UNCHANGED <<nextRecv, recvBuffer, base>>
  BY <1>7 DEF RtoTimeout, receiverVars
<1>8. CASE SendAcknowledgment
  BY <1>1, <1>8 DEF SendAcknowledgment, senderVars
<1>9. ASSUME NEW p \in InFlight, Lose(p) PROVE UNCHANGED <<nextRecv, recvBuffer, base>>
  BY <1>9 DEF Lose, senderVars, receiverVars
<1>10. CASE UNCHANGED vars
  BY <1>1, <1>10 DEF vars, senderVars, receiverVars
<1> QED BY <1>1, <1>4, <1>5, <1>6, <1>7, <1>8, <1>9, <1>10 DEF Next

(* Late acknowledgments and late copies never move either window back.     *)
THEOREM NoReneging == Spec => NeverReneges
<1>1. IInv /\ [Next]_vars => [/\ Received \subseteq Received'
                              /\ base' >= base
                              /\ nextRecv' >= nextRecv]_vars
  <2> SUFFICES ASSUME IInv, [Next]_vars
               PROVE  Received \subseteq Received' /\ base' >= base /\ nextRecv' >= nextRecv
    OBVIOUS
  <2>1. Received \subseteq Received' /\ base <= base' /\ nextRecv <= nextRecv'
    BY StepNeverReneges
  <2>2. base \in Nat /\ base' \in Nat /\ nextRecv \in Nat /\ nextRecv' \in Nat
    BY NextInv DEF IInv, TypeOK
  <2> QED BY <2>1, <2>2
<1> QED BY <1>1, Invariance, PTL DEF Spec, NeverReneges

-----------------------------------------------------------------------------
(* Refinement.                                                             *)

(* The interval a confirmation adds, from both ends.                       *)
LEMMA ConfirmArithmetic ==
  ASSUME NEW b \in Nat, NEW b2 \in Nat, NEW r \in Nat, NEW n \in Nat, NEW n2 \in Nat,
         b <= b2, b2 # b, b2 <= r, r <= n, n <= n2, n2 <= b2 + SendWindow
  PROVE  /\ b2 - 1 \in (b - 1 + 1) .. (n - 1)
         /\ 1 .. (b2 - 1) \subseteq 1 .. (r - 1)
         /\ n2 - 1 \in (n - 1) .. (b2 - 1 + SendWindow)
  OBVIOUS

(* Every step is a step of the abstract window, or leaves it as it is.     *)
LEMMA StepRefines == IInv /\ [Next]_vars => [Stream!Next]_(Stream!vars)
<1> SUFFICES ASSUME IInv, [Next]_vars PROVE [Stream!Next]_(Stream!vars)
  OBVIOUS
<1> USE DEF IInv, TypeOK
<1>1. CASE UNCHANGED <<nextSend, nextRecv, recvBuffer, base>>
  BY <1>1 DEF Stream!vars, Received
<1>2. CASE SendNow
  <2>1. /\ nextSend' = nextSend + 1 /\ base' = base /\ Received' = Received
        /\ nextSend < base + SendWindow
    BY <1>2 DEF SendNow, InSendWindow, receiverVars, Received
  <2>2. Stream!Issue
    BY <2>1 DEF Stream!Issue
  <2> QED BY <2>2 DEF Stream!Next
<1>3. ASSUME NEW s \in Nat, Data(s) \in InFlight, ReceiveData(s)
      PROVE  [Stream!Next]_(Stream!vars)
  <2>1. base' = base /\ nextSend' = nextSend
    BY <1>3 DEF ReceiveData, senderVars
  <2>2. s \in 1 .. (nextSend - 1)
    BY <1>3, PacketKinds DEF DataWasIssued
  <2>3. CASE Received' = Received
    BY <2>1, <2>3 DEF Stream!vars
  <2>4. CASE Received' = Received \cup {s} /\ s \notin Received
    <3>1. Stream!Take
      BY <2>1, <2>2, <2>4 DEF Stream!Take
    <3> QED BY <3>1 DEF Stream!Next
  <2> QED BY <1>3, <2>3, <2>4, ReceiveDataTakes
<1>4. ASSUME NEW c \in InFlight, c \in ControlPacket, ReceiveControl(c)
      PROVE  [Stream!Next]_(Stream!vars)
  <2>1. /\ base' \in Nat /\ nextSend' \in Nat /\ Received' = Received
        /\ base <= base' /\ base' <= nextRecv
        /\ nextSend <= nextSend' /\ nextSend' <= base' + SendWindow
        /\ base' = base => nextSend' = nextSend
    BY <1>4, ReceiveControlConfirms
  <2>2. CASE base' = base
    BY <2>1, <2>2 DEF Stream!vars
  <2>3. CASE base' # base
    <3>0. /\ base \in Nat /\ base' \in Nat /\ nextRecv \in Nat
          /\ nextSend \in Nat /\ nextSend' \in Nat /\ nextRecv <= nextSend
          /\ base <= base' /\ base' <= nextRecv
          /\ nextSend <= nextSend' /\ nextSend' <= base' + SendWindow
      BY <2>1 DEF WindowsAgree
    <3>1. base' - 1 \in (base - 1 + 1) .. (nextSend - 1)
      BY <3>0, <2>3, ConfirmArithmetic
    <3>2. 1 .. (base' - 1) \subseteq Received
      BY <3>0, <2>3, ConfirmArithmetic DEF Received
    <3>3. nextSend' - 1 \in (nextSend - 1) .. (base' - 1 + SendWindow)
      BY <3>0, <2>3, ConfirmArithmetic
    <3>4. Stream!Confirm
      BY <2>1, <3>1, <3>2, <3>3 DEF Stream!Confirm
    <3> QED BY <3>4 DEF Stream!Next
  <2> QED BY <2>2, <2>3
<1>5. ASSUME NEW p \in InFlight, Deliver(p) PROVE [Stream!Next]_(Stream!vars)
  BY <1>3, <1>4, <1>5, DeliverKinds
<1>6. CASE SendLater
  BY <1>1, <1>6 DEF SendLater, receiverVars
<1>7. ASSUME NEW s \in armed, RtoTimeout(s) PROVE UNCHANGED <<nextSend, nextRecv, recvBuffer, base>>
  BY <1>7 DEF RtoTimeout, receiverVars
<1>8. CASE SendAcknowledgment
  BY <1>1, <1>8 DEF SendAcknowledgment, senderVars
<1>9. ASSUME NEW p \in InFlight, Lose(p) PROVE UNCHANGED <<nextSend, nextRecv, recvBuffer, base>>
  BY <1>9 DEF Lose, senderVars, receiverVars
<1>10. CASE UNCHANGED vars
  BY <1>1, <1>10 DEF vars, senderVars, receiverVars
<1> QED BY <1>1, <1>2, <1>5, <1>6, <1>7, <1>8, <1>9, <1>10 DEF Next

(* Timers, retransmissions, duplicate and reordered control packets add up *)
(* to the reliable window service of ReliableWindow.                       *)
THEOREM Refinement == Spec => StreamSpec
<1>1. Init => Stream!Init
  BY DEF Init, Stream!Init, Received
<1> QED BY <1>1, StepRefines, Invariance, PTL DEF Spec, StreamSpec, Stream!Spec

-----------------------------------------------------------------------------
(* The layer above: TpdcDelivery takes no step that Tpdc does not take, and *)
(* what the receive context has taken in, the layer above has.             *)

TakenWasHandedUp == Received \subseteq handed

DInv == IInv /\ TakenWasHandedUp

(* Handing packets up adds no step to the protocol.                        *)
LEMMA DeliveryStep == DeliveryNext => Next
  BY DEF DeliveryNext, HandUp, Next

LEMMA HandUpTakes ==
  ASSUME DInv, NEW p \in InFlight, HandUp(p) PROVE TakenWasHandedUp'
  <1>1. IInv /\ TypeOK /\ Received \subseteq handed
    BY DEF DInv, IInv, TakenWasHandedUp
  <1>2. Deliver(p) /\ handed \subseteq handed'  BY DEF HandUp
  <1>3. CASE p \in ControlPacket /\ ReceiveControl(p)
    <2>1. Received' = Received  BY <1>1, <1>3, ReceiveControlConfirms
    <2> QED  BY <1>1, <1>2, <2>1 DEF TakenWasHandedUp
  <1>4. CASE p.type = "data" /\ ReceiveData(p.seq)
    <2>1. p \in DataPacket
      BY <1>1, <1>4, PacketKinds DEF TypeOK
    <2>2. p.seq \in Nat  BY <2>1, PacketKinds
    <2>3. Received' = Received \/ Received' = Received \cup {p.seq}
      BY <1>1, <1>4, <2>2, ReceiveDataTakes
    <2>4. p.seq \in handed'  BY <1>4 DEF HandUp
    <2> QED  BY <1>1, <1>2, <2>3, <2>4 DEF TakenWasHandedUp
  <1>5. p.type = "control" => p \in ControlPacket
    BY <1>1, PacketKinds DEF TypeOK
  <1> QED  BY <1>2, <1>3, <1>4, <1>5 DEF Deliver

LEMMA DInvStep == DInv /\ [DeliveryNext]_deliveryVars => DInv'
  <1> SUFFICES ASSUME DInv, [DeliveryNext]_deliveryVars PROVE DInv'  OBVIOUS
  <1>1. IInv'
    BY DeliveryStep, NextInv DEF DInv, deliveryVars
  <1>2. TakenWasHandedUp'
    <2>1. ASSUME UNCHANGED <<nextRecv, recvBuffer, handed>> PROVE TakenWasHandedUp'
      BY <2>1 DEF DInv, TakenWasHandedUp, Received
    <2>2. CASE \E p \in InFlight : HandUp(p)  BY <2>2, HandUpTakes
    <2>3. CASE UNCHANGED deliveryVars
      BY <2>1, <2>3 DEF deliveryVars, vars, receiverVars
    <2>4. ASSUME UNCHANGED handed,
                 \/ SendNow \/ SendLater \/ SendAcknowledgment
                 \/ \E s \in armed : RtoTimeout(s)
                 \/ \E p \in InFlight : Lose(p)
          PROVE  TakenWasHandedUp'
      BY <2>1, <2>4 DEF SendNow, SendLater, SendAcknowledgment, RtoTimeout, Lose,
                        receiverVars
    <2> QED  BY <2>2, <2>3, <2>4 DEF DeliveryNext
  <1> QED  BY <1>1, <1>2 DEF DInv

(* An acknowledged packet is with the layer above the receiver: whatever    *)
(* the Tpdc takes in, ProcessReceivedPacket has passed up.                  *)
THEOREM HandedUp == DeliverySpec => []ForgottenWasHandedUp
  <1>1. DeliveryInit => DInv
    BY InitInv DEF DeliveryInit, DInv, TakenWasHandedUp, Received, Init
  <1>2. DInv => ForgottenWasHandedUp
    BY DEF DInv, IInv, TakenWasHandedUp, NoPacketForgotten, ForgottenWasHandedUp
  <1> QED  BY <1>1, <1>2, DInvStep, PTL DEF DeliverySpec

(* Every behaviour with the layer above is a behaviour of the context, so   *)
(* all that is proved of Tpdc holds of it.                                  *)
THEOREM DeliveryIsTpdc == DeliverySpec => Spec
  <1>1. DeliveryInit => Init  BY DEF DeliveryInit
  <1>2. [DeliveryNext]_deliveryVars => [Next]_vars
    BY DeliveryStep DEF deliveryVars
  <1> QED  BY <1>1, <1>2, PTL DEF DeliverySpec, Spec
=============================================================================
