------------------------------- MODULE SueLink -------------------------------
(***************************************************************************)
(* Credit-based flow control of the SUE fabric (src/src/sue-sim-module/    *)
(* model): the PointToPointSueNetDevices of XPUs and of one switch, each   *)
(* with its VC queue, main queue, processing queue and CbfcManager.  XPU x *)
(* is linked to switch port x and sends all its packets to XPU Dest[x], so *)
(* a flow is named by its source.  A device spends credits when it         *)
(* transmits a data packet and gets them back in credit packets when the   *)
(* packet has left the receiver; inside the switch the ingress port spends *)
(* credits of its own for the VC queue of the egress port.                 *)
(*                                                                         *)
(* One virtual channel, link-level retry off, no receive errors (both are  *)
(* the default configuration).  Packets have one size, so a queue is the   *)
(* number of packets in it; which flow the next packet of an egress VC     *)
(* queue belongs to is left open.  Pending events of one kind on one       *)
(* device are one flag: a second TryTransmit or StartProcessing finds      *)
(* nothing that the first has left for it.  Times are abstracted: pending  *)
(* events run in any order.                                                *)
(***************************************************************************)
EXTENDS Integers, FiniteSets

CONSTANTS
  Xpus,                 \* the XPUs, and the switch ports they are linked to
  Dest,                 \* the XPU that the packets of an XPU go to
  Bytes,                \* size of a data packet in a VC queue and on the link
  BytesPerCredit,       \* m_bytesPerCredit
  LinkCredits,          \* m_initialCredits
  SwitchCredits,        \* m_switchCredits
  Batch,                \* m_creditBatchSize
  VcRoom,               \* packets that fit in m_vcQueueMaxBytes
  ProcRoom,             \* packets that fit in m_processingQueueMaxBytes
  MainRoom,             \* packets that fit in the main queue
  Load                  \* bound: packets each XPU is given to send

PppBytes == 2           \* SuePppHeader
EthBytes == 14          \* EthernetHeader

ASSUME SueLinkAssumption ==
  /\ IsFiniteSet(Xpus)
  /\ Dest \in [Xpus -> Xpus]
  /\ \A x \in Xpus : Dest[x] # x
  /\ Bytes \in Nat /\ Bytes > PppBytes + EthBytes
  /\ BytesPerCredit \in Nat \ {0}
  /\ LinkCredits \in Nat
  /\ SwitchCredits \in Nat
  /\ Batch \in Nat \ {0}
  /\ VcRoom \in Nat /\ ProcRoom \in Nat /\ MainRoom \in Nat
  /\ Load \in [Xpus -> Nat]

(* The two ends of link x.                                                 *)
Devices == {"xpu", "port"} \X Xpus
XpuOf(x)  == <<"xpu", x>>
PortOf(x) == <<"port", x>>
Peer(d)   == IF d[1] = "xpu" THEN PortOf(d[2]) ELSE XpuOf(d[2])
FlowsTo(x) == {f \in Xpus : Dest[f] = x}

VARIABLES
  given,                \* per flow: packets handed to the source XPU
  src,                  \* per flow: packets in the VC queue of the source XPU
  forwarding,           \* per flow: m_forwardingBusy of its ingress port
  out,                  \* per flow: packets in the VC queue of its egress port
  sending,              \* per flow: the egress port is transmitting its packet
  inner,                \* per flow: m_txCreditsMap of ingress port for egress port
  innerOwed,            \* per flow: packets the egress port owes credits for
  inside,               \* per flow: credit packets between the two ports
  credits,              \* per device: m_txCreditsMap for its link peer
  owed,                 \* per device: packets it owes its link peer credits for
  made,                 \* per device: pending SendCreditPacket events
  main,                 \* per device: credit packets in m_queue
  busy,                 \* per device: m_txMachineState is BUSY
  tryPending,           \* per device: a TryTransmit event is pending
  data,                 \* per device: its data packets on the wire
  notes,                \* per device: its credit packets on the wire
  proc,                 \* per device: packets in m_processingQueue
  startPending,         \* per device: a StartProcessing event is pending
  serving,              \* per device: m_processingScheduled
  got,                  \* per XPU: packets passed to m_rxCallback
  dropped               \* the reasons for which packets have been dropped

flowVars == <<given, src, forwarding, out, sending, inner, innerOwed, inside>>
linkVars == <<credits, owed, made, main, busy, tryPending, data, notes>>
procVars == <<proc, startPending, serving, got, dropped>>
vars == <<flowVars, linkVars, procVars>>

-----------------------------------------------------------------------------
(* Credits.                                                                *)

MaxOf(a, b) == IF a > b THEN a ELSE b

(* CalculateCreditsForPacket, with m_baseCredit = 1.                       *)
Cost(bytes) == MaxOf((bytes + BytesPerCredit - 1) \div BytesPerCredit, 1)

(* What a transmission on a link costs, and forwarding inside the switch,  *)
(* where the packet has lost its PPP header.                               *)
LinkCost  == Cost(Bytes)
InnerCost == Cost(Bytes - PppBytes)

(* What comes back: an XPU counts the packet without its PPP and Ethernet  *)
(* headers, an ingress port without its PPP header, and an egress port     *)
(* counts the packet it has transmitted.                                   *)
ReturnedBy(d) == IF d[1] = "xpu" THEN Cost(Bytes - PppBytes - EthBytes)
                 ELSE Cost(Bytes - PppBytes)
InnerReturn == Cost(Bytes)

(* CreditReturn waits until the credits owed reach the batch size: after   *)
(* this many packets of the given cost.                                    *)
BatchPackets(cost) == (Batch + cost - 1) \div cost

(* The credits of one credit packet: its header field is a uint8_t.        *)
NoteCredits(cost) == (BatchPackets(cost) * cost) % 256

(* Mutant: the credits owed are not cleared when a batch is sent.          *)
OwedAfterUncleared(n, cost) == IF n + 1 = BatchPackets(cost) THEN n ELSE n + 1

(* HandleCreditReturn and CreditReturn: one more packet is owed for, and a *)
(* full batch is cleared and becomes a credit packet.                      *)
OwedAfter(n, cost) == IF n + 1 = BatchPackets(cost) THEN 0 ELSE n + 1
MadeAfter(m, n, cost) == IF n + 1 = BatchPackets(cost) THEN m + 1 ELSE m

(* How many packets the flows to XPU x have in the queues counted.         *)
Total(x, count) == Cardinality(UNION {{f} \X (1 .. count[f]) : f \in FlowsTo(x)})

(* IsVcQueueEmpty, for the one VC queue of a device.                       *)
VcQueueEmpty(d) ==
  \/ d[1] = "xpu" /\ src[d[2]] = 0
  \/ d[1] = "port" /\ \A f \in FlowsTo(d[2]) : out[f] = 0

Init ==
  /\ given = [x \in Xpus |-> 0] /\ src = [x \in Xpus |-> 0]
  /\ forwarding = [x \in Xpus |-> FALSE] /\ out = [x \in Xpus |-> 0]
  /\ sending = [x \in Xpus |-> FALSE] /\ inner = [x \in Xpus |-> SwitchCredits]
  /\ innerOwed = [x \in Xpus |-> 0] /\ inside = [x \in Xpus |-> 0]
  /\ credits = [d \in Devices |-> LinkCredits]
  /\ owed = [d \in Devices |-> 0] /\ made = [d \in Devices |-> 0]
  /\ main = [d \in Devices |-> 0] /\ busy = [d \in Devices |-> FALSE]
  /\ tryPending = [d \in Devices |-> FALSE]
  /\ data = [d \in Devices |-> 0] /\ notes = [d \in Devices |-> 0]
  /\ proc = [d \in Devices |-> 0] /\ startPending = [d \in Devices |-> FALSE]
  /\ serving = [d \in Devices |-> FALSE]
  /\ got = [x \in Xpus |-> 0] /\ dropped = {}

-----------------------------------------------------------------------------
(* Sending.                                                                *)

(* Mutant: new work schedules nothing.                                     *)
WakeNever(d) == UNCHANGED tryPending

(* A device that is READY schedules a TryTransmit when it gets new work.   *)
Wake(d) == tryPending' = [tryPending EXCEPT ![d] = @ \/ ~busy[d]]

(* Send at an XPU: the client has reserved room in the VC queue.           *)
Submit(x) ==
  /\ given[x] < Load[x]
  /\ src[x] < VcRoom
  /\ given' = [given EXCEPT ![x] = @ + 1]
  /\ src' = [src EXCEPT ![x] = @ + 1]
  /\ Wake(XpuOf(x))
  /\ UNCHANGED <<forwarding, out, sending, inner, innerOwed, inside, credits,
                 owed, made, main, busy, data, notes, procVars>>

(* Mutants: credits are spent without being checked, or checked without    *)
(* being spent.                                                            *)
TransmitUnchecked(d) ==
  /\ credits' = [credits EXCEPT ![d] = @ - LinkCost]
  /\ data' = [data EXCEPT ![d] = @ + 1]
  /\ busy' = [busy EXCEPT ![d] = TRUE]
  /\ UNCHANGED <<main, notes>>
TransmitUnpaid(d) ==
  /\ credits[d] >= LinkCost
  /\ data' = [data EXCEPT ![d] = @ + 1]
  /\ busy' = [busy EXCEPT ![d] = TRUE]
  /\ UNCHANGED <<credits, main, notes>>

(* TransmitStart of a data packet, paid for by the caller.                 *)
SpendAndTransmit(d) ==
  /\ credits[d] >= LinkCost
  /\ credits' = [credits EXCEPT ![d] = @ - LinkCost]
  /\ data' = [data EXCEPT ![d] = @ + 1]
  /\ busy' = [busy EXCEPT ![d] = TRUE]
  /\ UNCHANGED <<main, notes>>

(* TryTransmit takes a credit packet from the main queue first ...         *)
TransmitNote(d) ==
  /\ ~busy[d] /\ main[d] > 0
  /\ main' = [main EXCEPT ![d] = @ - 1]
  /\ notes' = [notes EXCEPT ![d] = @ + 1]
  /\ busy' = [busy EXCEPT ![d] = TRUE]
  /\ UNCHANGED <<src, out, sending, credits, data>>

(* ... and a data packet of an XPU or of a port only when there is none.   *)
TransmitFromXpu(d) ==
  /\ ~busy[d] /\ main[d] = 0 /\ d[1] = "xpu" /\ src[d[2]] > 0
  /\ SpendAndTransmit(d)
  /\ src' = [src EXCEPT ![d[2]] = @ - 1]
  /\ UNCHANGED <<out, sending>>

TransmitFromPort(d) ==
  /\ ~busy[d] /\ main[d] = 0 /\ d[1] = "port"
  /\ SpendAndTransmit(d)
  /\ \E f \in FlowsTo(d[2]) :
       /\ out[f] > 0
       /\ out' = [out EXCEPT ![f] = @ - 1]
       /\ sending' = [sending EXCEPT ![f] = TRUE]
  /\ UNCHANGED src

MayTransmit(d) ==
  /\ ~busy[d]
  /\ main[d] > 0 \/ (~VcQueueEmpty(d) /\ credits[d] >= LinkCost)

TryTransmit(d) ==
  /\ tryPending[d]
  /\ tryPending' = [tryPending EXCEPT ![d] = FALSE]
  /\ \/ TransmitNote(d)
     \/ TransmitFromXpu(d)
     \/ TransmitFromPort(d)
     \/ ~MayTransmit(d) /\ UNCHANGED <<src, out, sending, credits, main, busy, data, notes>>
  /\ UNCHANGED <<given, forwarding, inner, innerOwed, inside, owed, made, procVars>>

(* The flow whose packet an egress port has finished transmitting: the     *)
(* ingress port is owed the credits of that packet.                        *)
Finished(d) == {f \in Xpus : sending[f] /\ d = PortOf(Dest[f])}

(* TransmitComplete, and the credit return scheduled for the same instant. *)
TransmitComplete(d) ==
  /\ busy[d]
  /\ busy' = [busy EXCEPT ![d] = FALSE]
  /\ tryPending' = [tryPending EXCEPT ![d] = @ \/ main[d] > 0 \/ ~VcQueueEmpty(d)]
  /\ sending' = [f \in Xpus |-> sending[f] /\ f \notin Finished(d)]
  /\ inside' = [f \in Xpus |-> IF f \in Finished(d)
                                 THEN MadeAfter(inside[f], innerOwed[f], InnerReturn)
                                 ELSE inside[f]]
  /\ innerOwed' = [f \in Xpus |-> IF f \in Finished(d)
                                    THEN OwedAfter(innerOwed[f], InnerReturn)
                                    ELSE innerOwed[f]]
  /\ UNCHANGED <<given, src, forwarding, out, inner, credits, owed, made, main,
                 data, notes, procVars>>

-----------------------------------------------------------------------------
(* Receiving.                                                              *)

(* Receive of a data packet that d has sent.                               *)
DataArrives(d) ==
  /\ data[d] > 0
  /\ data' = [data EXCEPT ![d] = @ - 1]
  /\ \/ /\ proc[Peer(d)] < ProcRoom
        /\ proc' = [proc EXCEPT ![Peer(d)] = @ + 1]
        /\ startPending' = [startPending EXCEPT ![Peer(d)] = @ \/ ~serving[Peer(d)]]
        /\ UNCHANGED dropped
     \/ /\ proc[Peer(d)] >= ProcRoom
        /\ dropped' = dropped \cup {"ProcessingQueueFull"}
        /\ UNCHANGED <<proc, startPending>>
  /\ UNCHANGED <<flowVars, credits, owed, made, main, busy, tryPending, notes, serving, got>>

(* Receive of a credit packet that d has sent to its link peer.            *)
NoteArrives(d) ==
  /\ notes[d] > 0
  /\ notes' = [notes EXCEPT ![d] = @ - 1]
  /\ credits' = [credits EXCEPT ![Peer(d)] = @ + NoteCredits(ReturnedBy(d))]
  /\ \/ NoteCredits(ReturnedBy(d)) > 0 /\ Wake(Peer(d))
     \/ NoteCredits(ReturnedBy(d)) = 0 /\ UNCHANGED tryPending
  /\ UNCHANGED <<flowVars, owed, made, main, busy, data, procVars>>

(* Receive of a credit packet by the ingress port of flow f, straight from *)
(* the egress port.                                                        *)
InsideArrives(f) ==
  /\ inside[f] > 0
  /\ inside' = [inside EXCEPT ![f] = @ - 1]
  /\ inner' = [inner EXCEPT ![f] = @ + NoteCredits(InnerReturn)]
  /\ \/ NoteCredits(InnerReturn) > 0 /\ Wake(PortOf(f))
     \/ NoteCredits(InnerReturn) = 0 /\ UNCHANGED tryPending
  /\ UNCHANGED <<given, src, forwarding, out, sending, innerOwed, credits, owed,
                 made, main, busy, data, notes, procVars>>

(* StartProcessing: the packet at the head of the queue, one at a time.    *)
StartProcessing(d) ==
  /\ startPending[d]
  /\ startPending' = [startPending EXCEPT ![d] = FALSE]
  /\ serving' = [serving EXCEPT ![d] = @ \/ proc[d] > 0]
  /\ UNCHANGED <<flowVars, linkVars, proc, got, dropped>>

(* d owes its link peer the credits of one more packet.                    *)
ReturnCredit(d) ==
  /\ owed' = [owed EXCEPT ![d] = OwedAfter(@, ReturnedBy(d))]
  /\ made' = [made EXCEPT ![d] = MadeAfter(@, owed[d], ReturnedBy(d))]

(* Mutant: a packet left in the queue is not looked at again.              *)
EndProcessingOnce(d, left) ==
  /\ serving[d]
  /\ serving' = [serving EXCEPT ![d] = FALSE]
  /\ proc' = [proc EXCEPT ![d] = left]
  /\ UNCHANGED startPending

(* The packet leaves the processing queue, or stays at its head: what is   *)
(* left is looked at again after the scheduling delay.                     *)
EndProcessing(d, left) ==
  /\ serving[d]
  /\ serving' = [serving EXCEPT ![d] = FALSE]
  /\ proc' = [proc EXCEPT ![d] = left]
  /\ startPending' = [startPending EXCEPT ![d] = @ \/ left > 0]

(* ProcessingReceivedPacket at an XPU: delivered, and credits returned.    *)
Deliver(x) ==
  /\ EndProcessing(XpuOf(x), proc[XpuOf(x)] - 1)
  /\ got' = [got EXCEPT ![x] = @ + 1]
  /\ ReturnCredit(XpuOf(x))
  /\ UNCHANGED <<flowVars, credits, main, busy, tryPending, data, notes, dropped>>

(* ProcessingReceivedPacket at an ingress port, ProcessSwitchForwarding    *)
(* accepting the packet ...                                                *)
Forward(f) ==
  /\ ~forwarding[f] /\ inner[f] >= InnerCost
  /\ EndProcessing(PortOf(f), proc[PortOf(f)] - 1)
  /\ forwarding' = [forwarding EXCEPT ![f] = TRUE]
  /\ inner' = [inner EXCEPT ![f] = @ - InnerCost]
  /\ UNCHANGED <<given, src, out, sending, innerOwed, inside, linkVars, got, dropped>>

(* ... or refusing it, busy or without credits: head-of-line blocking.     *)
ForwardLater(f) ==
  /\ forwarding[f] \/ inner[f] < InnerCost
  /\ EndProcessing(PortOf(f), proc[PortOf(f)])
  /\ UNCHANGED <<flowVars, linkVars, got, dropped>>

(* ForwardingComplete: into the VC queue of the egress port (which drops   *)
(* it when full), and the credits of the link go back to the source XPU.   *)
ForwardingComplete(f) ==
  /\ forwarding[f]
  /\ forwarding' = [forwarding EXCEPT ![f] = FALSE]
  /\ \/ /\ Total(Dest[f], out) < VcRoom
        /\ out' = [out EXCEPT ![f] = @ + 1]
        /\ UNCHANGED dropped
     \/ /\ Total(Dest[f], out) >= VcRoom
        /\ dropped' = dropped \cup {"VCQueueFull"}
        /\ UNCHANGED out
  /\ Wake(PortOf(Dest[f]))
  /\ ReturnCredit(PortOf(f))
  /\ UNCHANGED <<given, src, sending, inner, innerOwed, inside, credits, main,
                 busy, data, notes, proc, startPending, serving, got>>

(* The scheduled SendCreditPacket: into the main queue, or dropped.        *)
SendCreditPacket(d) ==
  /\ made[d] > 0
  /\ made' = [made EXCEPT ![d] = @ - 1]
  /\ \/ /\ main[d] < MainRoom
        /\ main' = [main EXCEPT ![d] = @ + 1]
        /\ Wake(d)
        /\ UNCHANGED dropped
     \/ /\ main[d] >= MainRoom
        /\ dropped' = dropped \cup {"MainQueueFull"}
        /\ UNCHANGED <<main, tryPending>>
  /\ UNCHANGED <<flowVars, credits, owed, busy, data, notes, proc, startPending,
                 serving, got>>

Next ==
  \/ \E x \in Xpus : Submit(x) \/ InsideArrives(x) \/ ForwardingComplete(x)
                     \/ Deliver(x) \/ Forward(x) \/ ForwardLater(x)
  \/ \E d \in Devices : TryTransmit(d) \/ TransmitComplete(d) \/ DataArrives(d)
                        \/ NoteArrives(d) \/ StartProcessing(d) \/ SendCreditPacket(d)

Spec == Init /\ [][Next]_vars

(* The simulator runs every scheduled event.  Nothing forces the client to *)
(* send.                                                                   *)
Fairness ==
  /\ \A x \in Xpus : /\ WF_vars(InsideArrives(x))
                     /\ WF_vars(ForwardingComplete(x))
                     /\ WF_vars(Deliver(x))
                     /\ WF_vars(Forward(x) \/ ForwardLater(x))
  /\ \A d \in Devices : /\ WF_vars(TryTransmit(d))
                        /\ WF_vars(TransmitComplete(d))
                        /\ WF_vars(DataArrives(d))
                        /\ WF_vars(NoteArrives(d))
                        /\ WF_vars(StartProcessing(d))
                        /\ WF_vars(SendCreditPacket(d))

FairSpec == Spec /\ Fairness

-----------------------------------------------------------------------------
(* Correctness.                                                            *)

(* Type correctness of the queues, credits and pending events.             *)
TypeOK ==
  /\ given \in [Xpus -> Nat] /\ src \in [Xpus -> Nat]
  /\ forwarding \in [Xpus -> BOOLEAN] /\ out \in [Xpus -> Nat]
  /\ sending \in [Xpus -> BOOLEAN] /\ inner \in [Xpus -> Nat]
  /\ innerOwed \in [Xpus -> Nat] /\ inside \in [Xpus -> Nat]
  /\ credits \in [Devices -> Nat] /\ owed \in [Devices -> Nat]
  /\ made \in [Devices -> Nat] /\ main \in [Devices -> Nat]
  /\ busy \in [Devices -> BOOLEAN] /\ tryPending \in [Devices -> BOOLEAN]
  /\ data \in [Devices -> Nat] /\ notes \in [Devices -> Nat]
  /\ proc \in [Devices -> Nat] /\ startPending \in [Devices -> BOOLEAN]
  /\ serving \in [Devices -> BOOLEAN] /\ got \in [Xpus -> Nat]
  /\ dropped \subseteq {"ProcessingQueueFull", "VCQueueFull", "MainQueueFull"}

Count(b) == IF b THEN 1 ELSE 0

(* The packets d has paid for that are still on the link or in the         *)
(* receiver, and likewise the packets of a flow inside the switch.         *)
Held(d) == data[d] + proc[Peer(d)]
             + Count(Peer(d)[1] = "port" /\ forwarding[Peer(d)[2]])
HeldInside(f) == Count(forwarding[f]) + out[f] + Count(sending[f])

(* The credits of every link add up (HandleCreditReturn says it counts a   *)
(* packet as the sender did): what the sender has, what the packets it has *)
(* paid for hold, what the receiver owes, and what is on its way back, in  *)
(* credit packets scheduled, queued or on the wire.                        *)
LinkCreditsConserved ==
  \A d \in Devices :
    credits[d] + LinkCost * Held(d) + ReturnedBy(Peer(d)) * owed[Peer(d)]
      + NoteCredits(ReturnedBy(Peer(d)))
          * (made[Peer(d)] + main[Peer(d)] + notes[Peer(d)])
    = LinkCredits

(* So do the credits between two ports of the switch, as long as no VC     *)
(* queue has dropped a packet and with it the credits it held.             *)
SwitchCreditsConserved ==
  \A f \in Xpus :
    "VCQueueFull" \notin dropped =>
      inner[f] + InnerCost * HeldInside(f) + InnerReturn * innerOwed[f]
        + NoteCredits(InnerReturn) * inside[f]
      = SwitchCredits

(* Credits add up everywhere: on every link and inside the switch.         *)
CreditsConserved == LinkCreditsConserved /\ SwitchCreditsConserved

(* Credits protect every queue: no processing queue, VC queue or main      *)
(* queue of the fabric ever drops a packet.                                *)
Lossless == dropped = {}

(* A device that could transmit now has an event pending that makes it     *)
(* try, and a processing queue that holds packets is being worked on or    *)
(* will be: no order of enqueues, arrivals, credits and completions loses  *)
(* the event that the next step depends on.                                *)
WorkNotForgotten ==
  \A d \in Devices : /\ MayTransmit(d) => tryPending[d]
                     /\ proc[d] > 0 => startPending[d] \/ serving[d]

(* Every packet given to an XPU reaches the XPU it is meant for: again and *)
(* again, what each XPU has received is all that was given for it.         *)
PacketsDelivered ==
  []<>(\A x \in Xpus : got[x] = Total(x, given))
=============================================================================
