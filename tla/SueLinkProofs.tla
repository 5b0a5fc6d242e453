---------------------------- MODULE SueLinkProofs ----------------------------
(***************************************************************************)
(* Proofs about SueLink, for any number of XPUs, any destinations, sizes   *)
(* of packets, credits, batches and queues.                                *)
(***************************************************************************)
EXTENDS SueLink, FiniteSetTheorems, TLAPS

(* The head of the queue is there while it is processed, and a port whose  *)
(* packet is on its way out is BUSY.                                       *)
ServingHasWork == \A d \in Devices : serving[d] => proc[d] > 0
SendingIsBusy == \A f \in Xpus : sending[f] => busy[PortOf(Dest[f])]

(* Why a queue drops a packet.                                             *)
Reasons == {"ProcessingQueueFull", "VCQueueFull", "MainQueueFull"}

(* The two halves of WorkNotForgotten.                                     *)
TransmitPending == \A d \in Devices : MayTransmit(d) => tryPending[d]
QueueServed == \A d \in Devices : proc[d] > 0 => startPending[d] \/ serving[d]

IInv == TypeOK /\ ServingHasWork /\ SendingIsBusy /\ TransmitPending /\ QueueServed

-----------------------------------------------------------------------------
(* Costs and devices.                                                      *)

(* CalculateCreditsForPacket never answers less than one credit.           *)
LEMMA CostPositive ==
  ASSUME NEW b \in Int PROVE Cost(b) \in Nat /\ Cost(b) >= 1
  BY SueLinkAssumption DEF Cost, MaxOf

LEMMA QuotientPositive ==
  ASSUME NEW n \in Nat, NEW k \in Nat, k >= 1, n >= k
  PROVE  (n \div k) \in Nat /\ n \div k >= 1
  BY Z3

(* CreditReturn sends the credits of at least one packet.                  *)
LEMMA BatchPositive ==
  ASSUME NEW k \in Nat, k >= 1
  PROVE  BatchPackets(k) \in Nat /\ BatchPackets(k) >= 1
  BY SueLinkAssumption, QuotientPositive DEF BatchPackets

LEMMA CostTypes ==
  /\ LinkCost \in Nat /\ LinkCost >= 1
  /\ InnerCost \in Nat /\ InnerCost >= 1
  /\ InnerReturn \in Nat /\ InnerReturn >= 1
  /\ \A d \in Devices : ReturnedBy(d) \in Nat /\ ReturnedBy(d) >= 1
  <1>1. /\ Bytes \in Int /\ Bytes - PppBytes \in Int
        /\ Bytes - PppBytes - EthBytes \in Int
    BY SueLinkAssumption DEF PppBytes, EthBytes
  <1> QED  BY <1>1, CostPositive DEF LinkCost, InnerCost, InnerReturn, ReturnedBy

LEMMA NoteTypes == \A k \in Nat : k >= 1 => NoteCredits(k) \in Nat
  <1> SUFFICES ASSUME NEW k \in Nat, k >= 1 PROVE NoteCredits(k) \in Nat
    OBVIOUS
  <1>1. BatchPackets(k) \in Nat  BY BatchPositive
  <1>2. \A n \in Nat : n % 256 \in Nat  OBVIOUS
  <1>3. BatchPackets(k) * k \in Nat  BY <1>1
  <1> QED  BY <1>2, <1>3 DEF NoteCredits

LEMMA ReturnTypes ==
  \A n, m, k \in Nat : OwedAfter(n, k) \in Nat /\ MadeAfter(m, n, k) \in Nat
  BY DEF OwedAfter, MadeAfter

(* The two ends of a link.                                                 *)
LEMMA Ends ==
  /\ \A d \in Devices : /\ Peer(d) \in Devices /\ Peer(Peer(d)) = d /\ Peer(d) # d
                        /\ d[1] = "xpu" \/ d[1] = "port"
                        /\ d[2] \in Xpus
                        /\ d[1] = "xpu" => d = XpuOf(d[2])
                        /\ d[1] = "port" => d = PortOf(d[2])
  /\ \A x \in Xpus : /\ XpuOf(x) \in Devices /\ PortOf(x) \in Devices
                     /\ Peer(XpuOf(x)) = PortOf(x) /\ Peer(PortOf(x)) = XpuOf(x)
                     /\ XpuOf(x)[1] = "xpu" /\ XpuOf(x)[2] = x
                     /\ PortOf(x)[1] = "port" /\ PortOf(x)[2] = x
  /\ \A x, y \in Xpus : /\ XpuOf(x) # PortOf(y)
                        /\ PortOf(x) = PortOf(y) => x = y
                        /\ XpuOf(x) = XpuOf(y) => x = y
  BY DEF Devices, Peer, XpuOf, PortOf

LEMMA DestTypes == \A f \in Xpus : Dest[f] \in Xpus
  BY SueLinkAssumption

-----------------------------------------------------------------------------
(* Type correctness.                                                       *)

LEMMA InitHolds == Init => IInv
  <1> SUFFICES ASSUME Init PROVE IInv  OBVIOUS
  <1>1. TypeOK  BY SueLinkAssumption DEF Init, TypeOK
  <1>2. ServingHasWork /\ SendingIsBusy
    BY DestTypes, Ends DEF Init, ServingHasWork, SendingIsBusy
  <1>3. TransmitPending /\ QueueServed
    BY Ends DEF Init, TransmitPending, QueueServed, MayTransmit, VcQueueEmpty, FlowsTo
  <1> QED  BY <1>1, <1>2, <1>3 DEF IInv

LEMMA TypeStep ==
  ASSUME TypeOK, ServingHasWork, Next PROVE TypeOK'
  <1>a. \A f \in Xpus : /\ XpuOf(f) \in Devices /\ PortOf(f) \in Devices
                        /\ PortOf(Dest[f]) \in Devices
    BY Ends, DestTypes
  <1>b. \A d \in Devices : Peer(d) \in Devices /\ d[2] \in Xpus  BY Ends
  <1>c. LinkCost \in Nat /\ InnerCost \in Nat  BY CostTypes
  <1>d. NoteCredits(InnerReturn) \in Nat  BY CostTypes, NoteTypes
  <1>e. \A d \in Devices : NoteCredits(ReturnedBy(d)) \in Nat
    BY CostTypes, NoteTypes
  <1>f. \A d \in Devices : ReturnCredit(d) => /\ owed' \in [Devices -> Nat]
                                              /\ made' \in [Devices -> Nat]
    <2> TAKE d \in Devices
    <2>1. ReturnedBy(d) \in Nat  BY CostTypes
    <2>2. owed[d] \in Nat /\ made[d] \in Nat  BY DEF TypeOK
    <2>3. /\ OwedAfter(owed[d], ReturnedBy(d)) \in Nat
          /\ MadeAfter(made[d], owed[d], ReturnedBy(d)) \in Nat
      BY <2>1, <2>2, ReturnTypes
    <2> QED  BY <2>3 DEF ReturnCredit, TypeOK
  <1>g. \A d \in Devices : Wake(d) => tryPending' \in [Devices -> BOOLEAN]
    BY DEF Wake, TypeOK
  <1>1. ASSUME NEW x \in Xpus, Submit(x) PROVE TypeOK'
    BY <1>1, <1>a, <1>g DEF Submit, TypeOK, procVars
  <1>2. ASSUME NEW f \in Xpus, InsideArrives(f) PROVE TypeOK'
    BY <1>2, <1>a, <1>d, <1>g DEF InsideArrives, TypeOK, procVars
  <1>3. ASSUME NEW f \in Xpus, ForwardingComplete(f) PROVE TypeOK'
    <2>1. dropped' \subseteq Reasons
      BY <1>3 DEF ForwardingComplete, TypeOK, Reasons
    <2>2. out' \in [Xpus -> Nat] /\ forwarding' \in [Xpus -> BOOLEAN]
      BY <1>3 DEF ForwardingComplete, TypeOK
    <2> QED  BY <1>3, <1>a, <1>f, <1>g, <2>1, <2>2 DEF ForwardingComplete, TypeOK, Reasons
  <1>4. ASSUME NEW x \in Xpus, Deliver(x) PROVE TypeOK'
    BY <1>4, <1>a, <1>f DEF Deliver, EndProcessing, TypeOK, flowVars, ServingHasWork
  <1>5. ASSUME NEW f \in Xpus, Forward(f) PROVE TypeOK'
    BY <1>5, <1>a, <1>c DEF Forward, EndProcessing, TypeOK, linkVars, ServingHasWork
  <1>6. ASSUME NEW f \in Xpus, ForwardLater(f) PROVE TypeOK'
    BY <1>6, <1>a DEF ForwardLater, EndProcessing, TypeOK, flowVars, linkVars
  <1>7. ASSUME NEW d \in Devices, TryTransmit(d) PROVE TypeOK'
    <2> USE <1>7, <1>b, <1>c DEF TryTransmit, TypeOK, procVars
    <2>1. CASE TransmitNote(d)  BY <2>1 DEF TransmitNote
    <2>2. CASE TransmitFromXpu(d)  BY <2>2 DEF TransmitFromXpu, SpendAndTransmit
    <2>3. CASE TransmitFromPort(d)
      BY <2>3 DEF TransmitFromPort, SpendAndTransmit, FlowsTo
    <2>4. CASE UNCHANGED <<src, out, sending, credits, main, busy, data, notes>>
      BY <2>4
    <2> QED  BY <2>1, <2>2, <2>3, <2>4
  <1>8. ASSUME NEW d \in Devices, TransmitComplete(d) PROVE TypeOK'
    <2>1. inside' \in [Xpus -> Nat] /\ innerOwed' \in [Xpus -> Nat]
      BY <1>8, CostTypes, ReturnTypes DEF TransmitComplete, TypeOK
    <2>2. sending' \in [Xpus -> BOOLEAN]
      BY <1>8 DEF TransmitComplete, TypeOK
    <2>3. busy' \in [Devices -> BOOLEAN] /\ tryPending' \in [Devices -> BOOLEAN]
      BY <1>8 DEF TransmitComplete, TypeOK
    <2> QED  BY <1>8, <2>1, <2>2, <2>3 DEF TransmitComplete, TypeOK, procVars
  <1>9. ASSUME NEW d \in Devices, DataArrives(d) PROVE TypeOK'
    <2>1. dropped' \subseteq Reasons
      BY <1>9 DEF DataArrives, TypeOK, Reasons
    <2>2. Peer(d) \in Devices  BY <1>b
    <2>3. proc' \in [Devices -> Nat]
      BY <1>9, <2>2 DEF DataArrives, TypeOK
    <2>4. (startPending[Peer(d)] \/ ~serving[Peer(d)]) \in BOOLEAN  OBVIOUS
    <2>5. startPending' \in [Devices -> BOOLEAN]
      BY <1>9, <2>2, <2>4, Zenon DEF DataArrives, TypeOK
    <2>6. data' \in [Devices -> Nat]
      BY <1>9 DEF DataArrives, TypeOK
    <2> QED
      BY <1>9, <2>1, <2>3, <2>5, <2>6, Zenon DEF DataArrives, TypeOK, flowVars, Reasons
  <1>10. ASSUME NEW d \in Devices, NoteArrives(d) PROVE TypeOK'
    BY <1>10, <1>b, <1>e, <1>g DEF NoteArrives, TypeOK, flowVars, procVars
  <1>11. ASSUME NEW d \in Devices, StartProcessing(d) PROVE TypeOK'
    BY <1>11 DEF StartProcessing, TypeOK, flowVars, linkVars
  <1>12. ASSUME NEW d \in Devices, SendCreditPacket(d) PROVE TypeOK'
    <2>1. dropped' \subseteq Reasons
      BY <1>12 DEF SendCreditPacket, TypeOK, Reasons
    <2>2. main' \in [Devices -> Nat] /\ tryPending' \in [Devices -> BOOLEAN]
      BY <1>12, <1>g DEF SendCreditPacket, TypeOK
    <2>3. made' \in [Devices -> Nat]
      BY <1>12 DEF SendCreditPacket, TypeOK
    <2> QED
      BY <1>12, <2>1, <2>2, <2>3, Zenon DEF SendCreditPacket, TypeOK, flowVars, Reasons
  <1> QED
    BY <1>1, <1>2, <1>3, <1>4, <1>5, <1>6, <1>7, <1>8, <1>9, <1>10, <1>11, <1>12 DEF Next
-----------------------------------------------------------------------------
(* The receive side: no packet is left in a processing queue.              *)

LEMMA ServingStep ==
  ASSUME TypeOK, ServingHasWork, QueueServed, Next
  PROVE  ServingHasWork' /\ QueueServed'
  <1> USE DEF ServingHasWork, QueueServed
  <1>1. ASSUME UNCHANGED <<proc, startPending, serving>>
        PROVE  ServingHasWork' /\ QueueServed'
    BY <1>1
  <1>2. ASSUME NEW e \in Devices, NEW left \in Nat, EndProcessing(e, left)
        PROVE  ServingHasWork' /\ QueueServed'
    BY <1>2 DEF EndProcessing, TypeOK
  <1>3. ASSUME NEW x \in Xpus, Submit(x) \/ InsideArrives(x) \/ ForwardingComplete(x)
        PROVE  ServingHasWork' /\ QueueServed'
    BY <1>1, <1>3 DEF Submit, InsideArrives, ForwardingComplete, procVars
  <1>4. ASSUME NEW x \in Xpus, Deliver(x) \/ Forward(x) \/ ForwardLater(x)
        PROVE  ServingHasWork' /\ QueueServed'
    <2>1. XpuOf(x) \in Devices /\ PortOf(x) \in Devices  BY Ends
    <2>2. \A e \in Devices : serving[e] => proc[e] - 1 \in Nat /\ proc[e] \in Nat
      BY DEF TypeOK
    <2> QED
      BY <1>2, <1>4, <2>1, <2>2 DEF Deliver, Forward, ForwardLater, EndProcessing
  <1>5. ASSUME NEW d \in Devices, TryTransmit(d) \/ TransmitComplete(d)
                                    \/ NoteArrives(d) \/ SendCreditPacket(d)
        PROVE  ServingHasWork' /\ QueueServed'
    BY <1>1, <1>5 DEF TryTransmit, TransmitComplete, NoteArrives, SendCreditPacket,
                      procVars
  <1>6. ASSUME NEW d \in Devices, DataArrives(d)
        PROVE  ServingHasWork' /\ QueueServed'
    <2>1. Peer(d) \in Devices  BY Ends
    <2>2. CASE UNCHANGED <<proc, startPending>>
      BY <1>1, <1>6, <2>2 DEF DataArrives
    <2>3. CASE /\ proc' = [proc EXCEPT ![Peer(d)] = @ + 1]
               /\ startPending' = [startPending EXCEPT ![Peer(d)] = @ \/ ~serving[Peer(d)]]
      <3>1. serving' = serving  BY <1>6 DEF DataArrives
      <3>2. ServingHasWork'  BY <2>1, <2>3, <3>1 DEF TypeOK
      <3>3. \A e \in Devices : startPending[e] => startPending'[e]
        BY <2>1, <2>3, Zenon DEF TypeOK
      <3>4. ~serving[Peer(d)] => startPending'[Peer(d)]
        BY <2>1, <2>3, Zenon DEF TypeOK
      <3>5. \A e \in Devices \ {Peer(d)} : proc'[e] = proc[e]
        BY <2>1, <2>3 DEF TypeOK
      <3> QED  BY <3>1, <3>2, <3>3, <3>4, <3>5, Zenon
    <2> QED  BY <1>6, <2>2, <2>3 DEF DataArrives
  <1>7. ASSUME NEW d \in Devices, StartProcessing(d)
        PROVE  ServingHasWork' /\ QueueServed'
    <2>1. (serving[d] \/ proc[d] > 0) \in BOOLEAN  OBVIOUS
    <2>2. serving'[d] = (serving[d] \/ proc[d] > 0) /\ startPending'[d] = FALSE
      BY <1>7, <2>1, Zenon DEF StartProcessing, TypeOK
    <2>3. \A e \in Devices \ {d} : /\ serving'[e] = serving[e]
                                   /\ startPending'[e] = startPending[e]
      BY <1>7, Zenon DEF StartProcessing, TypeOK
    <2>4. proc' = proc  BY <1>7 DEF StartProcessing
    <2> QED  BY <2>2, <2>3, <2>4, Zenon
  <1> QED  BY <1>3, <1>4, <1>5, <1>6, <1>7 DEF Next

-----------------------------------------------------------------------------
(* The transmit side.                                                      *)

LEMMA SendingStep ==
  ASSUME TypeOK, SendingIsBusy, Next PROVE SendingIsBusy'
  <1> USE DEF SendingIsBusy
  <1>1. ASSUME UNCHANGED <<sending, busy>> PROVE SendingIsBusy'
    BY <1>1
  <1>2. ASSUME NEW x \in Xpus,
               Submit(x) \/ InsideArrives(x) \/ ForwardingComplete(x)
                 \/ Deliver(x) \/ Forward(x) \/ ForwardLater(x)
        PROVE  SendingIsBusy'
    BY <1>1, <1>2 DEF Submit, InsideArrives, ForwardingComplete, Deliver, Forward,
                      ForwardLater, flowVars, linkVars
  <1>3. ASSUME NEW d \in Devices, DataArrives(d) \/ NoteArrives(d)
                                    \/ StartProcessing(d) \/ SendCreditPacket(d)
        PROVE  SendingIsBusy'
    BY <1>1, <1>3 DEF DataArrives, NoteArrives, StartProcessing, SendCreditPacket,
                      flowVars, linkVars
  <1>4. ASSUME NEW d \in Devices, TransmitComplete(d) PROVE SendingIsBusy'
    <2>1. \A f \in Xpus : sending'[f] => sending[f] /\ d # PortOf(Dest[f])
      BY <1>4, Zenon DEF TransmitComplete, Finished
    <2>2. \A e \in Devices \ {d} : busy'[e] = busy[e]
      BY <1>4 DEF TransmitComplete, TypeOK
    <2>3. \A f \in Xpus : PortOf(Dest[f]) \in Devices  BY DestTypes, Ends
    <2> QED  BY <2>1, <2>2, <2>3, Zenon
  <1>5. ASSUME NEW d \in Devices, TryTransmit(d) PROVE SendingIsBusy'
    <2>1. CASE TransmitNote(d)  BY <2>1 DEF TransmitNote, TypeOK
    <2>2. CASE TransmitFromXpu(d)
      BY <2>2 DEF TransmitFromXpu, SpendAndTransmit, TypeOK
    <2>3. CASE TransmitFromPort(d)
      <3>1. PICK f \in FlowsTo(d[2]) : sending' = [sending EXCEPT ![f] = TRUE]
        BY <2>3 DEF TransmitFromPort
      <3>2. f \in Xpus /\ PortOf(Dest[f]) = d
        BY <2>3, Ends DEF FlowsTo, TransmitFromPort
      <3>3. busy' = [busy EXCEPT ![d] = TRUE]
        BY <2>3 DEF TransmitFromPort, SpendAndTransmit
      <3> QED  BY <3>1, <3>2, <3>3, DestTypes, Ends DEF TypeOK
    <2>4. CASE UNCHANGED <<src, out, sending, credits, main, busy, data, notes>>
      BY <1>1, <2>4
    <2> QED  BY <1>5, <2>1, <2>2, <2>3, <2>4 DEF TryTransmit
  <1> QED  BY <1>2, <1>3, <1>4, <1>5 DEF Next
(* What TryTransmit of e looks at is as before.                            *)
SameView(e) ==
  /\ busy'[e] = busy[e] /\ main'[e] = main[e] /\ credits'[e] = credits[e]
  /\ e[1] = "xpu" => src'[e[2]] = src[e[2]]
  /\ e[1] = "port" => \A f \in FlowsTo(e[2]) : out'[f] = out[f]

LEMMA SameViewMayTransmit ==
  \A e : SameView(e) /\ MayTransmit(e)' => MayTransmit(e)
  BY DEF SameView, MayTransmit, VcQueueEmpty

(* A step that concerns one device leaves the others as they were.         *)
LEMMA OneDevice ==
  ASSUME TransmitPending
  PROVE  \A d \in Devices :
           /\ \A e \in Devices \ {d} : SameView(e) /\ (tryPending[e] => tryPending'[e])
           /\ MayTransmit(d)' => tryPending'[d]
           => TransmitPending'
  BY SameViewMayTransmit DEF TransmitPending

(* Wake is enough for whatever became of the device it wakes.              *)
LEMMA WakeSuffices ==
  ASSUME TypeOK, TransmitPending
  PROVE  \A d \in Devices :
           /\ Wake(d) /\ busy' = busy
           /\ \A e \in Devices \ {d} : SameView(e)
           => TransmitPending'
  <1> SUFFICES ASSUME NEW d \in Devices, Wake(d), busy' = busy,
                      \A e \in Devices \ {d} : SameView(e)
               PROVE  TransmitPending'
    OBVIOUS
  <1>1. \A e \in Devices \ {d} : tryPending[e] => tryPending'[e]
    BY Zenon DEF Wake, TypeOK
  <1>2. ~busy[d] => tryPending'[d]  BY Zenon DEF Wake, TypeOK
  <1>3. MayTransmit(d)' => tryPending'[d]  BY <1>2 DEF MayTransmit
  <1> QED  BY <1>1, <1>3, OneDevice, Zenon

LEMMA PendingStep ==
  ASSUME TypeOK, TransmitPending, Next PROVE TransmitPending'
  <1>1. ASSUME UNCHANGED <<src, out, credits, main, busy>>,
               \A e \in Devices : tryPending[e] => tryPending'[e]
        PROVE  TransmitPending'
    BY <1>1, SameViewMayTransmit DEF SameView, TransmitPending
  <1>2. ASSUME NEW x \in Xpus, Deliver(x) \/ Forward(x) \/ ForwardLater(x)
        PROVE  TransmitPending'
    BY <1>1, <1>2 DEF Deliver, Forward, ForwardLater, flowVars, linkVars
  <1>3. ASSUME NEW d \in Devices, DataArrives(d) \/ StartProcessing(d)
        PROVE  TransmitPending'
    BY <1>1, <1>3 DEF DataArrives, StartProcessing, flowVars, linkVars
  <1>4. ASSUME NEW x \in Xpus, Submit(x) PROVE TransmitPending'
    <2>1. XpuOf(x) \in Devices  BY Ends
    <2>2. Wake(XpuOf(x)) /\ busy' = busy  BY <1>4 DEF Submit
    <2>3. \A e \in Devices \ {XpuOf(x)} : SameView(e)
      BY <1>4, Ends DEF Submit, SameView, TypeOK
    <2> QED  BY <2>1, <2>2, <2>3, WakeSuffices, Zenon
  <1>5. ASSUME NEW f \in Xpus, InsideArrives(f) PROVE TransmitPending'
    <2>1. PortOf(f) \in Devices  BY Ends
    <2>2. UNCHANGED <<src, out, credits, main, busy>>
      BY <1>5 DEF InsideArrives
    <2>3. \A e \in Devices : tryPending[e] => tryPending'[e]
      BY <1>5, <2>1, Zenon DEF InsideArrives, Wake, TypeOK
    <2> QED  BY <1>1, <2>2, <2>3
  <1>6. ASSUME NEW f \in Xpus, ForwardingComplete(f) PROVE TransmitPending'
    <2> DEFINE d == PortOf(Dest[f])
    <2>1. d \in Devices /\ d[1] = "port" /\ d[2] = Dest[f]  BY Ends, DestTypes
    <2>2. Wake(d) /\ busy' = busy  BY <1>6 DEF ForwardingComplete
    <2>3. UNCHANGED <<src, credits, main>>  BY <1>6 DEF ForwardingComplete
    <2>4. \A g \in Xpus \ {f} : out'[g] = out[g]
      BY <1>6 DEF ForwardingComplete, TypeOK
    <2>5. \A e \in Devices \ {d} : SameView(e)
      BY <2>2, <2>3, <2>4, Ends DEF SameView, FlowsTo
    <2> HIDE DEF d
    <2> QED  BY <2>1, <2>2, <2>5, WakeSuffices, Zenon
  <1>7. ASSUME NEW d \in Devices, NoteArrives(d) PROVE TransmitPending'
    <2>1. Peer(d) \in Devices  BY Ends
    <2>2. UNCHANGED <<src, out, main, busy>>
      BY <1>7 DEF NoteArrives, flowVars
    <2>3. \A e \in Devices \ {Peer(d)} : credits'[e] = credits[e]
      BY <1>7, <2>1 DEF NoteArrives, TypeOK
    <2>4. CASE Wake(Peer(d))
      <3>1. \A e \in Devices \ {Peer(d)} : SameView(e)
        BY <2>2, <2>3 DEF SameView
      <3> QED  BY <2>1, <2>2, <2>4, <3>1, WakeSuffices, Zenon
    <2>5. CASE NoteCredits(ReturnedBy(d)) = 0 /\ UNCHANGED tryPending
      <3>1. credits' = credits  BY <1>7, <2>1, <2>5 DEF NoteArrives, TypeOK
      <3> QED  BY <1>1, <2>2, <2>5, <3>1
    <2> QED  BY <1>7, <2>4, <2>5 DEF NoteArrives
  <1>8. ASSUME NEW d \in Devices, SendCreditPacket(d) PROVE TransmitPending'
    <2>1. UNCHANGED <<src, out, credits, busy>>
      BY <1>8 DEF SendCreditPacket, flowVars
    <2>2. CASE main' = main /\ UNCHANGED tryPending  BY <1>1, <2>1, <2>2
    <2>3. CASE main' = [main EXCEPT ![d] = @ + 1] /\ Wake(d)
      <3>1. \A e \in Devices \ {d} : SameView(e)
        BY <2>1, <2>3 DEF SameView, TypeOK
      <3> QED  BY <2>1, <2>3, <3>1, WakeSuffices, Zenon
    <2> QED  BY <1>8, <2>2, <2>3 DEF SendCreditPacket
  <1>9. ASSUME NEW d \in Devices, TransmitComplete(d) PROVE TransmitPending'
    <2>1. UNCHANGED <<src, out, credits, main>>
      BY <1>9 DEF TransmitComplete
    <2>2. \A e \in Devices \ {d} : SameView(e)
      BY <1>9, <2>1 DEF TransmitComplete, SameView, TypeOK
    <2>3. \A e \in Devices \ {d} : tryPending[e] => tryPending'[e]
      BY <1>9, Zenon DEF TransmitComplete, TypeOK
    <2>4. main[d] > 0 \/ ~VcQueueEmpty(d) => tryPending'[d]
      BY <1>9, Zenon DEF TransmitComplete, TypeOK
    <2>5. MayTransmit(d)' => main[d] > 0 \/ ~VcQueueEmpty(d)
      BY <2>1 DEF MayTransmit, VcQueueEmpty
    <2> QED  BY <2>2, <2>3, <2>4, <2>5, OneDevice, Zenon
  <1>10. ASSUME NEW d \in Devices, TryTransmit(d) PROVE TransmitPending'
    <2>1. \A e \in Devices \ {d} : tryPending[e] => tryPending'[e]
      BY <1>10 DEF TryTransmit, TypeOK
    <2>2. ASSUME busy' = [busy EXCEPT ![d] = TRUE] PROVE ~MayTransmit(d)'
      BY <2>2 DEF MayTransmit, TypeOK
    <2>3. CASE TransmitNote(d)
      <3>1. \A e \in Devices \ {d} : SameView(e)
        BY <2>3 DEF TransmitNote, SameView, TypeOK
      <3> QED  BY <2>1, <2>2, <2>3, <3>1, OneDevice, Zenon DEF TransmitNote
    <2>4. CASE TransmitFromXpu(d)
      <3>1. \A e \in Devices \ {d} : SameView(e)
        BY <2>4, Ends DEF TransmitFromXpu, SpendAndTransmit, SameView, TypeOK
      <3> QED
        BY <2>1, <2>2, <2>4, <3>1, OneDevice, Zenon DEF TransmitFromXpu, SpendAndTransmit
    <2>5. CASE TransmitFromPort(d)
      <3>1. \A e \in Devices \ {d} : SameView(e)
        <4>1. PICK f \in FlowsTo(d[2]) : out' = [out EXCEPT ![f] = @ - 1]
          BY <2>5 DEF TransmitFromPort
        <4>2. \A g \in Xpus : Dest[g] # d[2] => out'[g] = out[g]
          BY <4>1 DEF FlowsTo, TypeOK
        <4>3. /\ UNCHANGED <<src, main>>
              /\ \A e \in Devices \ {d} : busy'[e] = busy[e] /\ credits'[e] = credits[e]
          BY <2>5 DEF TransmitFromPort, SpendAndTransmit, TypeOK
        <4>4. \A e \in Devices \ {d} : e[1] = "port" => e[2] # d[2]
          BY <2>5, Ends DEF TransmitFromPort
        <4> QED  BY <4>2, <4>3, <4>4 DEF SameView, FlowsTo
      <3> QED
        BY <2>1, <2>2, <2>5, <3>1, OneDevice, Zenon DEF TransmitFromPort, SpendAndTransmit
    <2>6. CASE /\ ~MayTransmit(d)
               /\ UNCHANGED <<src, out, sending, credits, main, busy, data, notes>>
      BY <2>1, <2>6, OneDevice, SameViewMayTransmit DEF SameView
    <2> QED  BY <1>10, <2>3, <2>4, <2>5, <2>6 DEF TryTransmit
  <1> QED
    BY <1>2, <1>3, <1>4, <1>5, <1>6, <1>7, <1>8, <1>9, <1>10 DEF Next

-----------------------------------------------------------------------------
(* The invariant holds for every choice of the constants.                  *)
THEOREM Invariance == Spec => []IInv
  <1>1. Init => IInv  BY InitHolds
  <1>2. IInv /\ [Next]_vars => IInv'
    <2> SUFFICES ASSUME IInv, [Next]_vars PROVE IInv'  OBVIOUS
    <2>1. CASE Next
      BY <2>1, TypeStep, ServingStep, SendingStep, PendingStep DEF IInv
    <2>2. CASE UNCHANGED vars
      BY <2>2 DEF vars, flowVars, linkVars, procVars, IInv, TypeOK, ServingHasWork,
                  SendingIsBusy, TransmitPending, QueueServed, MayTransmit, VcQueueEmpty
    <2> QED  BY <2>1, <2>2
  <1> QED  BY <1>1, <1>2, PTL DEF Spec

(* No queue, credit count or pending event takes a value it cannot have: in *)
(* particular no credits are spent that are not there (HasEnoughCredits     *)
(* before every transmission and forwarding).                               *)
THEOREM TypeCorrect == Spec => []TypeOK
  <1>1. IInv => TypeOK  BY DEF IInv
  <1> QED  BY <1>1, Invariance, PTL

(* A device that could transmit has a TryTransmit pending, and a processing *)
(* queue with packets in it is looked at or will be (the conditions under   *)
(* which TransmitComplete, EnqueueToVcQueue, Receive and StartProcessing    *)
(* schedule the next event are enough).                                     *)
THEOREM WorkRemembered == Spec => []WorkNotForgotten
  <1>1. IInv => WorkNotForgotten
    BY DEF IInv, TransmitPending, QueueServed, WorkNotForgotten
  <1> QED  BY <1>1, Invariance, PTL
-----------------------------------------------------------------------------
(* Conservation of credits.  It needs packets that cost the same with and   *)
(* without their link headers, and credit packets whose field does not wrap.*)

SameCost == /\ Cost(Bytes - PppBytes) = LinkCost
            /\ Cost(Bytes - PppBytes - EthBytes) = LinkCost
NoteFits == BatchPackets(LinkCost) * LinkCost < 256

(* The packets of a full batch.                                            *)
P == BatchPackets(LinkCost)

LEMMA Fits ==
  ASSUME SameCost, NoteFits
  PROVE  /\ LinkCost \in Nat /\ LinkCost >= 1 /\ P \in Nat /\ P >= 1
         /\ InnerCost = LinkCost /\ InnerReturn = LinkCost
         /\ \A d \in Devices : ReturnedBy(d) = LinkCost
         /\ NoteCredits(LinkCost) = LinkCost * P
  <1>1. /\ LinkCost \in Nat /\ LinkCost >= 1 /\ P \in Nat /\ P >= 1
    BY CostTypes, BatchPositive DEF P
  <1>2. /\ InnerCost = LinkCost /\ InnerReturn = LinkCost
        /\ \A d \in Devices : ReturnedBy(d) = LinkCost
    BY DEF SameCost, InnerCost, InnerReturn, ReturnedBy, LinkCost
  <1>3. P * LinkCost \in Nat /\ P * LinkCost < 256 /\ P * LinkCost = LinkCost * P
    BY <1>1 DEF NoteFits, P
  <1>4. \A n \in Nat : n < 256 => n % 256 = n  OBVIOUS
  <1> QED  BY <1>1, <1>2, <1>3, <1>4 DEF NoteCredits, P

(* What the sender of a link has paid for, in packets: those held by the   *)
(* link and the receiver, those it is owed for, and batches on their way.  *)
Front(d) == Held(d) + owed[Peer(d)]
Back(d) == made[Peer(d)] + main[Peer(d)] + notes[Peer(d)]
LinkUnits ==
  \A d \in Devices : credits[d] + LinkCost * (Front(d) + P * Back(d)) = LinkCredits

FrontInside(f) == HeldInside(f) + innerOwed[f]
SwitchUnits ==
  \A f \in Xpus : "VCQueueFull" \notin dropped =>
    inner[f] + LinkCost * (FrontInside(f) + P * inside[f]) = SwitchCredits

(* How the parts of such a sum may move: a packet is paid for, a batch is  *)
(* completed, a batch arrives.                                             *)
Moves(c, f, b, c1, f1, b1) ==
  \/ c1 = c /\ f1 = f /\ b1 = b
  \/ c1 = c - LinkCost /\ f1 = f + 1 /\ b1 = b
  \/ c1 = c /\ f1 = f - P /\ b1 = b + 1
  \/ c1 = c + LinkCost * P /\ f1 = f /\ b1 = b - 1

LEMMA Arithmetic ==
  \A l, p, c, f, b \in Int :
    /\ c - l + l * (f + 1 + p * b) = c + l * (f + p * b)
    /\ f - p + p * (b + 1) = f + p * b
    /\ c + l * p + l * (f + p * (b - 1)) = c + l * (f + p * b)
  BY Z3

LEMMA Distribution ==
  \A c, l, p, h, o, b \in Int :
    c + l * (h + o + p * b) = c + l * h + l * o + (l * p) * b
  BY Z3

LEMMA MovesKeep ==
  ASSUME SameCost, NoteFits
  PROVE  \A c, f, b, c1, f1, b1 \in Int :
           Moves(c, f, b, c1, f1, b1) =>
             c1 + LinkCost * (f1 + P * b1) = c + LinkCost * (f + P * b)
  <1> SUFFICES ASSUME NEW c \in Int, NEW f \in Int, NEW b \in Int,
                      NEW c1 \in Int, NEW f1 \in Int, NEW b1 \in Int,
                      Moves(c, f, b, c1, f1, b1)
               PROVE  c1 + LinkCost * (f1 + P * b1) = c + LinkCost * (f + P * b)
    OBVIOUS
  <1>1. LinkCost \in Int /\ P \in Int  BY Fits
  <1>2. CASE c1 = c /\ f1 = f /\ b1 = b  BY <1>2
  <1>3. CASE c1 = c - LinkCost /\ f1 = f + 1 /\ b1 = b  BY <1>1, <1>3, Arithmetic
  <1>4. CASE c1 = c /\ f1 = f - P /\ b1 = b + 1  BY <1>1, <1>4, Arithmetic
  <1>5. CASE c1 = c + LinkCost * P /\ f1 = f /\ b1 = b - 1  BY <1>1, <1>5, Arithmetic
  <1> QED  BY <1>2, <1>3, <1>4, <1>5 DEF Moves
LEMMA Monotone ==
  \A l, a, b \in Nat : /\ l * a \in Nat
                       /\ a <= b => l * a <= l * b
  BY Z3

(* Credits for no more packets than a processing queue has room for, and   *)
(* for no more batches than a main queue has room for.                     *)
RoomEnough == /\ LinkCredits < LinkCost * (ProcRoom + 1)
              /\ LinkCredits < LinkCost * (P * (MainRoom + 1))

LEMMA PartTypes ==
  ASSUME TypeOK
  PROVE  /\ \A d \in Devices : /\ Held(d) \in Nat /\ Held(d) >= data[d] + proc[Peer(d)]
                               /\ Front(d) \in Nat /\ Front(d) >= Held(d)
                               /\ Back(d) \in Nat
                               /\ Back(d) >= made[Peer(d)] + main[Peer(d)]
         /\ \A f \in Xpus : /\ HeldInside(f) \in Nat
                            /\ FrontInside(f) \in Nat /\ FrontInside(f) >= HeldInside(f)
  <1>1. \A b : Count(b) \in Nat  BY DEF Count
  <1>2. \A d \in Devices : /\ data[d] \in Nat /\ proc[Peer(d)] \in Nat
                           /\ owed[Peer(d)] \in Nat /\ made[Peer(d)] \in Nat
                           /\ main[Peer(d)] \in Nat /\ notes[Peer(d)] \in Nat
    BY Ends DEF TypeOK
  <1>3. \A d \in Devices : /\ Held(d) \in Nat /\ Held(d) >= data[d] + proc[Peer(d)]
    BY <1>1, <1>2 DEF Held
  <1>4. \A f \in Xpus : HeldInside(f) \in Nat /\ innerOwed[f] \in Nat
    BY <1>1 DEF HeldInside, TypeOK
  <1> QED  BY <1>2, <1>3, <1>4 DEF Front, Back, FrontInside

LEMMA PrimedTypes ==
  ASSUME TypeOK'
  PROVE  /\ \A d \in Devices : Front(d)' \in Nat /\ Back(d)' \in Nat
         /\ \A f \in Xpus : FrontInside(f)' \in Nat
  <1>1. \A b : Count(b) \in Nat  BY DEF Count
  <1>2. \A d \in Devices : /\ data'[d] \in Nat /\ proc'[Peer(d)] \in Nat
                           /\ owed'[Peer(d)] \in Nat /\ made'[Peer(d)] \in Nat
                           /\ main'[Peer(d)] \in Nat /\ notes'[Peer(d)] \in Nat
    BY Ends DEF TypeOK
  <1>3. \A f \in Xpus : out'[f] \in Nat /\ innerOwed'[f] \in Nat  BY DEF TypeOK
  <1> QED  BY <1>1, <1>2, <1>3 DEF Front, Back, Held, FrontInside, HeldInside

(* A drop is remembered.                                                   *)
LEMMA DroppedGrows == ASSUME Next PROVE dropped \subseteq dropped'
  BY DEF Next, Submit, InsideArrives, ForwardingComplete, Deliver, Forward, ForwardLater,
         TryTransmit, TransmitComplete, DataArrives, NoteArrives, StartProcessing,
         SendCreditPacket, procVars

LEMMA RoomLeft ==
  ASSUME SameCost, NoteFits, RoomEnough, TypeOK, LinkUnits, NEW d \in Devices
  PROVE  /\ data[d] > 0 => proc[Peer(d)] < ProcRoom
         /\ made[Peer(d)] > 0 => main[Peer(d)] < MainRoom
  <1> DEFINE u == Front(d) + P * Back(d)
  <1>1. LinkCost \in Nat /\ P \in Nat /\ P >= 1  BY Fits
  <1>2. /\ Front(d) \in Nat /\ Front(d) >= data[d] + proc[Peer(d)]
        /\ Back(d) \in Nat /\ Back(d) >= made[Peer(d)] + main[Peer(d)]
        /\ data[d] \in Nat /\ proc[Peer(d)] \in Nat
        /\ made[Peer(d)] \in Nat /\ main[Peer(d)] \in Nat /\ credits[d] \in Nat
    BY PartTypes, Ends DEF TypeOK
  <1>3. P * Back(d) \in Nat /\ u \in Nat /\ u >= Front(d) /\ u >= P * Back(d)
    BY <1>1, <1>2, Monotone
  <1>4. LinkCost * u \in Nat /\ LinkCost * u <= LinkCredits
    BY <1>1, <1>2, <1>3, Monotone, SueLinkAssumption DEF LinkUnits
  <1> HIDE DEF u
  <1>5. ASSUME data[d] > 0, ~(proc[Peer(d)] < ProcRoom) PROVE FALSE
    <2>1. ProcRoom + 1 \in Nat /\ ProcRoom + 1 <= u
      BY <1>2, <1>3, <1>5, SueLinkAssumption
    <2>2. LinkCost * (ProcRoom + 1) <= LinkCost * u
      BY <1>1, <1>3, <2>1, Monotone
    <2>3. LinkCost * (ProcRoom + 1) \in Nat  BY <1>1, <2>1, Monotone
    <2> QED  BY <1>4, <2>2, <2>3, SueLinkAssumption DEF RoomEnough
  <1>6. ASSUME made[Peer(d)] > 0, ~(main[Peer(d)] < MainRoom) PROVE FALSE
    <2>1. MainRoom + 1 \in Nat /\ MainRoom + 1 <= Back(d)
      BY <1>2, <1>6, SueLinkAssumption
    <2>2. P * (MainRoom + 1) \in Nat /\ P * (MainRoom + 1) <= u
      BY <1>1, <1>2, <1>3, <2>1, Monotone
    <2>3. LinkCost * (P * (MainRoom + 1)) <= LinkCost * u
      BY <1>1, <1>3, <2>2, Monotone
    <2>4. LinkCost * (P * (MainRoom + 1)) \in Nat  BY <1>1, <2>2, Monotone
    <2> QED  BY <1>4, <2>3, <2>4, SueLinkAssumption DEF RoomEnough
  <1> QED  BY <1>5, <1>6

(* HandleCreditReturn and CreditReturn, when a packet costs LinkCost.       *)
LEMMA ReturnEffect ==
  ASSUME SameCost, NoteFits, TypeOK
  PROVE  \A e \in Devices : ReturnCredit(e) =>
           /\ \A g \in Devices \ {e} : owed'[g] = owed[g] /\ made'[g] = made[g]
           /\ \/ owed'[e] = owed[e] + 1 /\ made'[e] = made[e]
              \/ owed'[e] = owed[e] + 1 - P /\ made'[e] = made[e] + 1
  <1> SUFFICES ASSUME NEW e \in Devices, ReturnCredit(e)
               PROVE  /\ \A g \in Devices \ {e} : owed'[g] = owed[g] /\ made'[g] = made[g]
                      /\ \/ owed'[e] = owed[e] + 1 /\ made'[e] = made[e]
                         \/ owed'[e] = owed[e] + 1 - P /\ made'[e] = made[e] + 1
    OBVIOUS
  <1>1. ReturnedBy(e) = LinkCost /\ P \in Nat  BY Fits
  <1>2. owed[e] \in Nat /\ made[e] \in Nat  BY DEF TypeOK
  <1>3. /\ owed' = [owed EXCEPT ![e] = OwedAfter(owed[e], LinkCost)]
        /\ made' = [made EXCEPT ![e] = MadeAfter(made[e], owed[e], LinkCost)]
    BY <1>1 DEF ReturnCredit
  <1>4. CASE owed[e] + 1 = P
    BY <1>1, <1>2, <1>3, <1>4 DEF OwedAfter, MadeAfter, P, TypeOK
  <1>5. CASE owed[e] + 1 # P
    BY <1>1, <1>2, <1>3, <1>5 DEF OwedAfter, MadeAfter, P, TypeOK
  <1> QED  BY <1>4, <1>5
LinkMoves(d) == Moves(credits[d], Front(d), Back(d), credits'[d], Front(d)', Back(d)')

LEMMA LinkStep ==
  ASSUME SameCost, NoteFits, RoomEnough, IInv, LinkUnits, Next
  PROVE  /\ \A d \in Devices : LinkMoves(d)
         /\ dropped' \subseteq dropped \cup {"VCQueueFull"}
  <1> DEFINE Goal == /\ \A d \in Devices : LinkMoves(d)
                     /\ dropped' \subseteq dropped \cup {"VCQueueFull"}
  <1> USE DEF LinkMoves, Moves, Front, Back, Held
  <1>a. TypeOK  BY DEF IInv
  <1>b. /\ \A d \in Devices : Peer(d) \in Devices /\ Peer(Peer(d)) = d
        /\ \A x \in Xpus : /\ XpuOf(x) \in Devices /\ PortOf(x) \in Devices
                           /\ Peer(XpuOf(x)) = PortOf(x) /\ Peer(PortOf(x)) = XpuOf(x)
    BY Ends
  <1>c. \A d \in Devices : /\ credits[d] \in Nat /\ data[d] \in Nat /\ proc[d] \in Nat
                           /\ owed[d] \in Nat /\ made[d] \in Nat /\ main[d] \in Nat
                           /\ notes[d] \in Nat
    BY <1>a DEF TypeOK
  <1>d. \A b : Count(b) \in Nat  BY DEF Count
  <1>1. ASSUME UNCHANGED <<credits, data, proc, forwarding, owed, made, main, notes>>,
               dropped' = dropped
        PROVE  Goal
    BY <1>1
  <1>2. ASSUME NEW x \in Xpus, Submit(x) \/ InsideArrives(x) \/ ForwardLater(x)
        PROVE  Goal
    <2>1. [proc EXCEPT ![PortOf(x)] = proc[PortOf(x)]] = proc
      BY <1>a, <1>b DEF TypeOK
    <2> QED
      BY <1>1, <1>2, <2>1 DEF Submit, InsideArrives, ForwardLater, EndProcessing,
                              flowVars, linkVars, procVars
  <1>3. ASSUME NEW d \in Devices, StartProcessing(d) \/ TransmitComplete(d)
        PROVE  Goal
    BY <1>1, <1>3 DEF StartProcessing, TransmitComplete, flowVars, linkVars, procVars
  <1>4. ASSUME NEW d \in Devices, TryTransmit(d) PROVE Goal
    <2>1. UNCHANGED <<proc, forwarding, owed, made, dropped>>
      BY <1>4 DEF TryTransmit, procVars
    <2>2. CASE TransmitNote(d)
      BY <1>a, <1>b, <1>c, <2>1, <2>2 DEF TransmitNote, TypeOK
    <2>3. CASE SpendAndTransmit(d)
      <3>1. LinkCost \in Nat  BY CostTypes
      <3>2. /\ credits'[d] = credits[d] - LinkCost /\ data'[d] = data[d] + 1
            /\ \A e \in Devices \ {d} : credits'[e] = credits[e] /\ data'[e] = data[e]
            /\ UNCHANGED <<main, notes>>
        BY <1>a, <2>3 DEF SpendAndTransmit, TypeOK
      <3>3. \A e \in Devices \ {d} : LinkMoves(e)  BY <2>1, <3>2
      <3>4. LinkMoves(d)  BY <1>b, <1>c, <1>d, <2>1, <3>2
      <3> QED  BY <2>1, <3>3, <3>4
    <2>4. CASE UNCHANGED <<src, out, sending, credits, main, busy, data, notes>>
      BY <1>1, <2>1, <2>4
    <2> QED
      BY <1>4, <2>2, <2>3, <2>4 DEF TryTransmit, TransmitFromXpu, TransmitFromPort
  <1>5. ASSUME NEW d \in Devices, DataArrives(d) PROVE Goal
    <2>1. proc[Peer(d)] < ProcRoom
      BY <1>a, <1>5, RoomLeft DEF DataArrives
    <2>2. /\ data'[d] = data[d] - 1 /\ proc'[Peer(d)] = proc[Peer(d)] + 1
          /\ \A e \in Devices \ {d} : data'[e] = data[e]
          /\ \A e \in Devices \ {Peer(d)} : proc'[e] = proc[e]
          /\ UNCHANGED <<credits, forwarding, owed, made, main, notes, dropped>>
      BY <1>a, <1>b, <1>c, <1>5, <2>1, SueLinkAssumption DEF DataArrives, TypeOK, flowVars
    <2>3. \A e \in Devices \ {d} : LinkMoves(e)  BY <1>b, <2>2
    <2>4. LinkMoves(d)  BY <1>b, <1>c, <1>d, <2>2
    <2> QED  BY <2>2, <2>3, <2>4
  <1>6. ASSUME NEW d \in Devices, NoteArrives(d) PROVE Goal
    <2>1. /\ credits'[Peer(d)] = credits[Peer(d)] + LinkCost * P
          /\ notes'[d] = notes[d] - 1
          /\ \A e \in Devices \ {Peer(d)} : credits'[e] = credits[e]
          /\ \A e \in Devices \ {d} : notes'[e] = notes[e]
          /\ UNCHANGED <<data, proc, forwarding, owed, made, main, dropped>>
      BY <1>a, <1>b, <1>6, Fits DEF NoteArrives, TypeOK, flowVars, procVars
    <2>2. \A e \in Devices \ {Peer(d)} : LinkMoves(e)  BY <1>b, <2>1
    <2>3. LinkMoves(Peer(d))  BY <1>b, <1>c, <1>d, <2>1
    <2> QED  BY <1>b, <2>1, <2>2, <2>3
  <1>7. ASSUME NEW d \in Devices, SendCreditPacket(d) PROVE Goal
    <2>1. main[d] < MainRoom
      BY <1>a, <1>b, <1>7, RoomLeft DEF SendCreditPacket
    <2>2. /\ made'[d] = made[d] - 1 /\ main'[d] = main[d] + 1
          /\ \A e \in Devices \ {d} : made'[e] = made[e] /\ main'[e] = main[e]
          /\ UNCHANGED <<credits, data, proc, forwarding, owed, notes, dropped>>
      BY <1>a, <1>c, <1>7, <2>1, SueLinkAssumption DEF SendCreditPacket, TypeOK, flowVars
    <2>3. \A e \in Devices : LinkMoves(e)  BY <1>b, <1>c, <1>d, <2>2
    <2> QED  BY <2>2, <2>3
  <1>8. ASSUME NEW x \in Xpus, Deliver(x) PROVE Goal
    <2> DEFINE e == XpuOf(x)
               d == PortOf(x)
    <2>1. e \in Devices /\ d \in Devices /\ Peer(d) = e /\ Peer(e) = d  BY <1>b
    <2>2. /\ proc'[e] = proc[e] - 1
          /\ \A g \in Devices \ {e} : proc'[g] = proc[g]
          /\ UNCHANGED <<credits, data, forwarding, main, notes, dropped>>
      BY <1>a, <1>8, <2>1 DEF Deliver, EndProcessing, TypeOK, flowVars
    <2>3. /\ \A g \in Devices \ {e} : owed'[g] = owed[g] /\ made'[g] = made[g]
          /\ \/ owed'[e] = owed[e] + 1 /\ made'[e] = made[e]
             \/ owed'[e] = owed[e] + 1 - P /\ made'[e] = made[e] + 1
      BY <1>a, <1>8, <2>1, ReturnEffect DEF Deliver
    <2> HIDE DEF e, d
    <2>4. P \in Nat  BY Fits
    <2>5. \A g \in Devices \ {d} : LinkMoves(g)  BY <1>b, <2>1, <2>2, <2>3
    <2>6. LinkMoves(d)  BY <1>c, <1>d, <2>1, <2>2, <2>3, <2>4
    <2> QED  BY <2>2, <2>5, <2>6
  <1>9. ASSUME NEW f \in Xpus, Forward(f) PROVE Goal
    <2> DEFINE e == PortOf(f)
               d == XpuOf(f)
    <2>1. /\ e \in Devices /\ d \in Devices /\ Peer(d) = e /\ Peer(e) = d
          /\ \A g \in Devices \ {d} :
               Peer(g)[1] = "port" => Peer(g)[2] \in Xpus \ {f}
          /\ e[1] = "port" /\ e[2] = f
      BY Ends
    <2>2. /\ proc'[e] = proc[e] - 1 /\ forwarding'[f] = TRUE /\ forwarding[f] = FALSE
          /\ \A g \in Devices \ {e} : proc'[g] = proc[g]
          /\ \A g \in Xpus \ {f} : forwarding'[g] = forwarding[g]
          /\ UNCHANGED <<credits, data, owed, made, main, notes, dropped>>
      BY <1>a, <1>9, <2>1 DEF Forward, EndProcessing, TypeOK, linkVars
    <2> HIDE DEF e, d
    <2>3. \A g \in Devices \ {d} : LinkMoves(g)  BY <1>b, <2>1, <2>2 DEF Count
    <2>4. LinkMoves(d)  BY <1>c, <2>1, <2>2 DEF Count
    <2> QED  BY <2>2, <2>3, <2>4
  <1>10. ASSUME NEW f \in Xpus, ForwardingComplete(f) PROVE Goal
    <2> DEFINE e == PortOf(f)
               d == XpuOf(f)
    <2>1. /\ e \in Devices /\ d \in Devices /\ Peer(d) = e /\ Peer(e) = d
          /\ \A g \in Devices \ {d} :
               Peer(g)[1] = "port" => Peer(g)[2] \in Xpus \ {f}
          /\ e[1] = "port" /\ e[2] = f
      BY Ends
    <2>2. /\ forwarding'[f] = FALSE /\ forwarding[f] = TRUE
          /\ \A g \in Xpus \ {f} : forwarding'[g] = forwarding[g]
          /\ UNCHANGED <<credits, data, proc, main, notes>>
          /\ dropped' \subseteq dropped \cup {"VCQueueFull"}
      BY <1>a, <1>10 DEF ForwardingComplete, TypeOK
    <2>3. /\ \A g \in Devices \ {e} : owed'[g] = owed[g] /\ made'[g] = made[g]
          /\ \/ owed'[e] = owed[e] + 1 /\ made'[e] = made[e]
             \/ owed'[e] = owed[e] + 1 - P /\ made'[e] = made[e] + 1
      BY <1>a, <1>10, <2>1, ReturnEffect DEF ForwardingComplete
    <2> HIDE DEF e, d
    <2>4. P \in Nat  BY Fits
    <2>5. \A g \in Devices \ {d} : LinkMoves(g)  BY <1>b, <2>1, <2>2, <2>3 DEF Count
    <2>6. LinkMoves(d)  BY <1>c, <2>1, <2>2, <2>3, <2>4 DEF Count
    <2> QED  BY <2>2, <2>5, <2>6
  <1> QED
    BY <1>2, <1>3, <1>4, <1>5, <1>6, <1>7, <1>8, <1>9, <1>10 DEF Next
SwitchMoves(f) ==
  Moves(inner[f], FrontInside(f), inside[f], inner'[f], FrontInside(f)', inside'[f])

LEMMA SwitchStep ==
  ASSUME SameCost, NoteFits, IInv, Next
  PROVE  \A f \in Xpus : SwitchMoves(f) \/ "VCQueueFull" \in dropped'
  <1> DEFINE Goal == \A f \in Xpus : SwitchMoves(f) \/ "VCQueueFull" \in dropped'
  <1> USE DEF SwitchMoves, Moves, FrontInside, HeldInside
  <1>a. TypeOK /\ SendingIsBusy  BY DEF IInv
  <1>b. \A f \in Xpus : /\ inner[f] \in Nat /\ out[f] \in Nat
                        /\ innerOwed[f] \in Nat /\ inside[f] \in Nat
    BY <1>a DEF TypeOK
  <1>c. \A b : Count(b) \in Nat  BY DEF Count
  <1>1. ASSUME UNCHANGED <<inner, forwarding, out, sending, innerOwed, inside>>
        PROVE  Goal
    BY <1>1
  <1>2. ASSUME NEW x \in Xpus, Submit(x) \/ Deliver(x) \/ ForwardLater(x)
        PROVE  Goal
    BY <1>1, <1>2 DEF Submit, Deliver, ForwardLater, flowVars
  <1>3. ASSUME NEW d \in Devices, DataArrives(d) \/ NoteArrives(d)
                                    \/ StartProcessing(d) \/ SendCreditPacket(d)
        PROVE  Goal
    BY <1>1, <1>3 DEF DataArrives, NoteArrives, StartProcessing, SendCreditPacket,
                      flowVars
  <1>4. ASSUME NEW g \in Xpus, InsideArrives(g) PROVE Goal
    <2>1. /\ inner'[g] = inner[g] + LinkCost * P /\ inside'[g] = inside[g] - 1
          /\ \A f \in Xpus \ {g} : inner'[f] = inner[f] /\ inside'[f] = inside[f]
          /\ UNCHANGED <<forwarding, out, sending, innerOwed>>
      BY <1>a, <1>4, Fits DEF InsideArrives, TypeOK
    <2> QED  BY <2>1
  <1>5. ASSUME NEW g \in Xpus, Forward(g) PROVE Goal
    <2>1. /\ inner'[g] = inner[g] - LinkCost
          /\ forwarding[g] = FALSE /\ forwarding'[g] = TRUE
          /\ \A f \in Xpus \ {g} : inner'[f] = inner[f] /\ forwarding'[f] = forwarding[f]
          /\ UNCHANGED <<inside, out, sending, innerOwed>>
      BY <1>a, <1>5, Fits DEF Forward, TypeOK
    <2>2. \A f \in Xpus \ {g} : SwitchMoves(f)  BY <2>1
    <2>3. FrontInside(g)' = FrontInside(g) + 1
      BY <1>b, <1>c, <2>1 DEF Count
    <2> QED  BY <2>1, <2>2, <2>3
  <1>6. ASSUME NEW g \in Xpus, ForwardingComplete(g) PROVE Goal
    <2>1. CASE dropped' = dropped \cup {"VCQueueFull"}  BY <2>1
    <2>2. CASE out' = [out EXCEPT ![g] = @ + 1]
      <3>1. /\ out'[g] = out[g] + 1
            /\ forwarding[g] = TRUE /\ forwarding'[g] = FALSE
            /\ \A f \in Xpus \ {g} : out'[f] = out[f] /\ forwarding'[f] = forwarding[f]
            /\ UNCHANGED <<inner, inside, sending, innerOwed>>
        BY <1>a, <1>6, <2>2 DEF ForwardingComplete, TypeOK
      <3>2. \A f \in Xpus \ {g} : SwitchMoves(f)  BY <3>1
      <3>3. FrontInside(g)' = FrontInside(g)
        BY <1>b, <1>c, <3>1 DEF Count
      <3> QED  BY <3>1, <3>2, <3>3
    <2> QED  BY <1>6, <2>1, <2>2 DEF ForwardingComplete
  <1>7. ASSUME NEW d \in Devices, TryTransmit(d) PROVE Goal
    <2>1. UNCHANGED <<inner, forwarding, innerOwed, inside>>
      BY <1>7 DEF TryTransmit
    <2>2. CASE TransmitFromPort(d)
      <3>1. PICK g \in FlowsTo(d[2]) : /\ out' = [out EXCEPT ![g] = @ - 1]
                                       /\ sending' = [sending EXCEPT ![g] = TRUE]
        BY <2>2 DEF TransmitFromPort
      <3>2. g \in Xpus /\ PortOf(Dest[g]) = d /\ ~busy[d]
        BY <2>2, Ends DEF FlowsTo, TransmitFromPort
      <3>3. sending[g] = FALSE  BY <1>a, <3>2 DEF SendingIsBusy, TypeOK
      <3>4. /\ out'[g] = out[g] - 1 /\ sending'[g] = TRUE
            /\ \A f \in Xpus \ {g} : out'[f] = out[f] /\ sending'[f] = sending[f]
        BY <1>a, <3>1, <3>2 DEF TypeOK
      <3>5. \A f \in Xpus \ {g} : SwitchMoves(f)  BY <2>1, <3>4
      <3>6. FrontInside(g)' = FrontInside(g)
        BY <1>b, <1>c, <2>1, <3>2, <3>3, <3>4 DEF Count
      <3> QED  BY <2>1, <3>2, <3>5, <3>6
    <2>3. CASE UNCHANGED <<out, sending>>  BY <1>1, <2>1, <2>3
    <2> QED  BY <1>7, <2>2, <2>3 DEF TryTransmit, TransmitNote, TransmitFromXpu
  <1>8. ASSUME NEW d \in Devices, TransmitComplete(d) PROVE Goal
    <2>1. UNCHANGED <<inner, forwarding, out>>  BY <1>8 DEF TransmitComplete
    <2>2. ASSUME NEW f \in Xpus PROVE SwitchMoves(f)
      <3>1. CASE f \in Finished(d)
        <4>1. sending[f] = TRUE /\ sending'[f] = FALSE
          BY <1>a, <1>8, <3>1 DEF TransmitComplete, Finished, TypeOK
        <4>2. /\ innerOwed'[f] = OwedAfter(innerOwed[f], LinkCost)
              /\ inside'[f] = MadeAfter(inside[f], innerOwed[f], LinkCost)
          BY <1>8, <3>1, Fits DEF TransmitComplete
        <4>3. \/ innerOwed'[f] = innerOwed[f] + 1 /\ inside'[f] = inside[f]
              \/ innerOwed'[f] = innerOwed[f] + 1 - P /\ inside'[f] = inside[f] + 1
          BY <1>b, <4>2, Fits DEF OwedAfter, MadeAfter, P
        <4>4. HeldInside(f)' = HeldInside(f) - 1 /\ HeldInside(f) \in Int
          BY <1>b, <1>c, <2>1, <4>1 DEF Count
        <4>5. P \in Int  BY Fits
        <4> HIDE DEF HeldInside
        <4> QED  BY <1>b, <2>1, <4>3, <4>4, <4>5
      <3>2. CASE f \notin Finished(d)
        <4>1. (sending[f] /\ f \notin Finished(d)) = sending[f]
          BY <1>a, <3>2, Zenon DEF TypeOK
        <4>2. sending'[f] = sending[f]
          BY <1>8, <4>1, Zenon DEF TransmitComplete
        <4>3. innerOwed'[f] = innerOwed[f] /\ inside'[f] = inside[f]
          BY <1>8, <3>2 DEF TransmitComplete
        <4> QED  BY <2>1, <4>2, <4>3
      <3> QED  BY <3>1, <3>2
    <2> QED  BY <2>2
  <1> QED
    BY <1>2, <1>3, <1>4, <1>5, <1>6, <1>7, <1>8 DEF Next

-----------------------------------------------------------------------------
(* The conservation invariant.                                             *)
CInv == IInv /\ LinkUnits /\ SwitchUnits /\ dropped \subseteq {"VCQueueFull"}

LEMMA ConservationStep ==
  ASSUME SameCost, NoteFits, RoomEnough, CInv, [Next]_vars
  PROVE  CInv'
  <1>1. CASE Next
    <2>1. IInv'
      BY <1>1, TypeStep, ServingStep, SendingStep, PendingStep DEF CInv, IInv
    <2>2. TypeOK /\ TypeOK'  BY <2>1 DEF CInv, IInv
    <2>3. LinkUnits'
      <3> SUFFICES ASSUME NEW d \in Devices
                   PROVE  credits'[d] + LinkCost * (Front(d)' + P * Back(d)') = LinkCredits
        BY DEF LinkUnits
      <3>1. LinkMoves(d)  BY <1>1, LinkStep DEF CInv
      <3>2. credits[d] \in Int /\ Front(d) \in Int /\ Back(d) \in Int
        BY <2>2, PartTypes DEF TypeOK
      <3>3. Front(d)' \in Int /\ Back(d)' \in Int /\ credits'[d] \in Int
        BY <2>2, PrimedTypes DEF TypeOK
      <3>4. credits[d] + LinkCost * (Front(d) + P * Back(d)) = LinkCredits
        BY DEF CInv, LinkUnits
      <3> HIDE DEF LinkMoves
      <3> QED  BY <3>1, <3>2, <3>3, <3>4, MovesKeep DEF LinkMoves
    <2>4. SwitchUnits'
      <3> SUFFICES ASSUME NEW f \in Xpus, "VCQueueFull" \notin dropped'
                   PROVE  inner'[f] + LinkCost * (FrontInside(f)' + P * inside'[f])
                            = SwitchCredits
        BY DEF SwitchUnits
      <3>1. SwitchMoves(f)  BY <1>1, SwitchStep DEF CInv
      <3>2. inner[f] \in Int /\ FrontInside(f) \in Int /\ inside[f] \in Int
        BY <2>2, PartTypes DEF TypeOK
      <3>3. FrontInside(f)' \in Int /\ inside'[f] \in Int /\ inner'[f] \in Int
        BY <2>2, PrimedTypes DEF TypeOK
      <3>4. "VCQueueFull" \notin dropped  BY <1>1, DroppedGrows
      <3>5. inner[f] + LinkCost * (FrontInside(f) + P * inside[f]) = SwitchCredits
        BY <3>4 DEF CInv, SwitchUnits
      <3> QED  BY <3>1, <3>2, <3>3, <3>5, MovesKeep DEF SwitchMoves
    <2>5. dropped' \subseteq {"VCQueueFull"}  BY <1>1, LinkStep DEF CInv
    <2> QED  BY <2>1, <2>3, <2>4, <2>5 DEF CInv
  <1>2. CASE UNCHANGED vars
    BY <1>2 DEF vars, flowVars, linkVars, procVars, CInv, IInv, TypeOK, ServingHasWork,
                SendingIsBusy, TransmitPending, QueueServed, MayTransmit, VcQueueEmpty,
                LinkUnits, SwitchUnits, Front, Back, Held, FrontInside, HeldInside
  <1> QED  BY <1>1, <1>2
LEMMA InitConserved ==
  ASSUME SameCost, NoteFits, Init PROVE CInv
  <1>1. IInv  BY InitHolds
  <1>2. LinkCost \in Nat /\ P \in Nat /\ LinkCredits \in Nat /\ SwitchCredits \in Nat
    BY Fits, SueLinkAssumption
  <1>3. ASSUME NEW d \in Devices PROVE Front(d) = 0 /\ Back(d) = 0
    BY Ends DEF Init, Front, Back, Held, Count
  <1>4. ASSUME NEW f \in Xpus PROVE FrontInside(f) = 0
    BY DEF Init, FrontInside, HeldInside, Count
  <1>5. LinkUnits  BY <1>2, <1>3 DEF Init, LinkUnits
  <1>6. SwitchUnits  BY <1>2, <1>4 DEF Init, SwitchUnits
  <1> QED  BY <1>1, <1>5, <1>6 DEF Init, CInv

(* Credits of a flow inside the switch for at most limit packets, and an   *)
(* egress VC queue with room for that many packets of every flow into it.  *)
VcRoomEnough ==
  \E limit \in Nat :
    /\ SwitchCredits < LinkCost * (limit + 1)
    /\ \A x \in Xpus : Cardinality(FlowsTo(x)) * limit <= VcRoom

LEMMA VcRoomLeft ==
  ASSUME SameCost, NoteFits, VcRoomEnough, CInv, dropped = {},
         NEW f \in Xpus, forwarding[f]
  PROVE  Total(Dest[f], out) \in Nat /\ Total(Dest[f], out) < VcRoom
  <1>1. PICK limit \in Nat :
          /\ SwitchCredits < LinkCost * (limit + 1)
          /\ \A x \in Xpus : Cardinality(FlowsTo(x)) * limit <= VcRoom
    BY DEF VcRoomEnough
  <1>2. LinkCost \in Nat /\ P \in Nat  BY Fits
  <1>3. TypeOK  BY DEF CInv, IInv
  <1>4. ASSUME NEW g \in Xpus PROVE HeldInside(g) <= limit
    <2> DEFINE u == FrontInside(g) + P * inside[g]
    <2>1. /\ HeldInside(g) \in Nat /\ FrontInside(g) \in Nat
          /\ FrontInside(g) >= HeldInside(g)
          /\ inside[g] \in Nat /\ inner[g] \in Nat
      BY <1>3, PartTypes DEF TypeOK
    <2>2. P * inside[g] \in Nat  BY <1>2, <2>1, Monotone
    <2>3. u \in Nat /\ u >= HeldInside(g)  BY <2>1, <2>2
    <2>4. inner[g] + LinkCost * u = SwitchCredits  BY DEF CInv, SwitchUnits
    <2> HIDE DEF u
    <2>5. LinkCost * u \in Nat /\ LinkCost * u <= SwitchCredits
      BY <1>2, <2>1, <2>3, <2>4, Monotone, SueLinkAssumption
    <2>6. ~(limit + 1 <= u)
      <3> SUFFICES ASSUME limit + 1 <= u PROVE FALSE  OBVIOUS
      <3>1. limit + 1 \in Nat  OBVIOUS
      <3>2. /\ LinkCost * (limit + 1) <= LinkCost * u
            /\ LinkCost * (limit + 1) \in Nat
        BY <1>2, <2>3, <3>1, Monotone
      <3> QED  BY <1>1, <2>5, <3>2, SueLinkAssumption
    <2> QED  BY <2>1, <2>3, <2>6
  <1> DEFINE x == Dest[f]
             B == FlowsTo(x) \X (1 .. limit)
             T == UNION {{g} \X (1 .. out[g]) : g \in FlowsTo(x)}
  <1>5. x \in Xpus /\ f \in FlowsTo(x)  BY DestTypes DEF FlowsTo
  <1>6. /\ \A g \in Xpus : out[g] \in Nat /\ out[g] <= limit
        /\ out[f] < limit
    <2>1. ASSUME NEW g \in Xpus
          PROVE  out[g] \in Nat /\ out[g] <= HeldInside(g)
      BY <1>3 DEF HeldInside, Count, TypeOK
    <2>2. out[f] < HeldInside(f)
      BY <1>3 DEF HeldInside, Count, TypeOK
    <2>3. \A g \in Xpus : HeldInside(g) \in Nat  BY <1>3, PartTypes
    <2> QED  BY <1>4, <2>1, <2>2, <2>3
  <1>7. IsFiniteSet(FlowsTo(x))
    <2>1. FlowsTo(x) \in SUBSET Xpus  BY DEF FlowsTo
    <2> QED  BY <2>1, FS_Subset, SueLinkAssumption
  <1>8. IsFiniteSet(1 .. limit) /\ Cardinality(1 .. limit) = limit
    BY FS_Interval
  <1>9. IsFiniteSet(B) /\ Cardinality(B) = Cardinality(FlowsTo(x)) * limit
    BY <1>7, <1>8, FS_Product
  <1>10. <<f, limit>> \in B  BY <1>5, <1>6
  <1>11. T \in SUBSET (B \ {<<f, limit>>})  BY <1>5, <1>6 DEF FlowsTo
  <1>12. /\ IsFiniteSet(B \ {<<f, limit>>})
         /\ Cardinality(B \ {<<f, limit>>}) = Cardinality(B) - 1
    BY <1>9, <1>10, FS_RemoveElement
  <1>13. IsFiniteSet(T) /\ Cardinality(T) <= Cardinality(B) - 1
    BY <1>11, <1>12, FS_Subset
  <1>14. Cardinality(T) \in Nat /\ Cardinality(B) \in Nat
    BY <1>9, <1>13, FS_CardinalityType
  <1>15. Cardinality(B) <= VcRoom  BY <1>1, <1>5, <1>9
  <1>16. Cardinality(T) < VcRoom  BY <1>13, <1>14, <1>15, SueLinkAssumption
  <1> QED  BY <1>14, <1>16 DEF Total

LEMMA LosslessStep ==
  ASSUME SameCost, NoteFits, RoomEnough, VcRoomEnough, CInv, Lossless, [Next]_vars
  PROVE  Lossless'
  <1>1. dropped' \subseteq {"VCQueueFull"}
    BY ConservationStep DEF CInv
  <1>2. ASSUME NEW f \in Xpus, ForwardingComplete(f) PROVE dropped' = dropped
    <2>1. Total(Dest[f], out) \in Nat /\ Total(Dest[f], out) < VcRoom
      BY <1>2, VcRoomLeft DEF ForwardingComplete, Lossless
    <2> QED  BY <1>2, <2>1, SueLinkAssumption DEF ForwardingComplete
  <1>3. "VCQueueFull" \notin dropped'
    BY <1>2 DEF Lossless, Next, Submit, InsideArrives, Deliver, Forward, ForwardLater,
                TryTransmit, TransmitComplete, DataArrives, NoteArrives, StartProcessing,
                SendCreditPacket, vars, procVars
  <1> QED  BY <1>1, <1>3 DEF Lossless

-----------------------------------------------------------------------------
(* The theorems about credits.                                             *)

(* Together with the work that is not forgotten, credits are conserved on  *)
(* the links and inside the switch, and only VC queues may drop packets.   *)
THEOREM Conservation ==
  ASSUME SameCost, NoteFits, RoomEnough PROVE Spec => []CInv
  <1>1. Init => CInv  BY InitConserved
  <1>2. CInv /\ [Next]_vars => CInv'  BY ConservationStep
  <1> QED  BY <1>1, <1>2, PTL DEF Spec

(* HandleCreditReturn counts a packet as ConsumeCredits did, batches lose   *)
(* nothing, and no credit packet or data packet is dropped with the credits *)
(* it carries: the credits of every link always add up.                     *)
THEOREM LinksConserve ==
  ASSUME SameCost, NoteFits, RoomEnough PROVE Spec => []LinkCreditsConserved
  <1>1. CInv => LinkCreditsConserved
    <2> SUFFICES ASSUME CInv, NEW d \in Devices
                 PROVE  credits[d] + LinkCost * Held(d)
                          + ReturnedBy(Peer(d)) * owed[Peer(d)]
                          + NoteCredits(ReturnedBy(Peer(d)))
                              * (made[Peer(d)] + main[Peer(d)] + notes[Peer(d)])
                        = LinkCredits
      BY DEF LinkCreditsConserved
    <2>1. credits[d] + LinkCost * (Front(d) + P * Back(d)) = LinkCredits
      BY DEF CInv, LinkUnits
    <2>2. /\ ReturnedBy(Peer(d)) = LinkCost /\ NoteCredits(LinkCost) = LinkCost * P
          /\ LinkCost \in Int /\ P \in Int
      BY Ends, Fits
    <2>3. /\ credits[d] \in Int /\ Held(d) \in Int /\ owed[Peer(d)] \in Int
          /\ Back(d) \in Int
      BY PartTypes, Ends DEF CInv, IInv, TypeOK
    <2>4. LinkCost \in Int /\ P \in Int  BY <2>2
    <2>5. credits[d] + LinkCost * (Held(d) + owed[Peer(d)] + P * Back(d))
            = credits[d] + LinkCost * Held(d) + LinkCost * owed[Peer(d)]
                + (LinkCost * P) * Back(d)
      BY <2>3, <2>4, Distribution
    <2> QED  BY <2>1, <2>2, <2>5 DEF Front, Back
  <1> QED  BY <1>1, Conservation, PTL

(* So do the credits a flow has inside the switch (ProcessSwitchForwarding  *)
(* spends them, the egress port returns them after transmission).           *)
THEOREM SwitchConserves ==
  ASSUME SameCost, NoteFits, RoomEnough PROVE Spec => []SwitchCreditsConserved
  <1>1. CInv => SwitchCreditsConserved
    <2> SUFFICES ASSUME CInv, NEW f \in Xpus, "VCQueueFull" \notin dropped
                 PROVE  inner[f] + InnerCost * HeldInside(f)
                          + InnerReturn * innerOwed[f]
                          + NoteCredits(InnerReturn) * inside[f]
                        = SwitchCredits
      BY DEF SwitchCreditsConserved
    <2>1. inner[f] + LinkCost * (FrontInside(f) + P * inside[f]) = SwitchCredits
      BY DEF CInv, SwitchUnits
    <2>2. /\ InnerCost = LinkCost /\ InnerReturn = LinkCost
          /\ NoteCredits(LinkCost) = LinkCost * P
          /\ LinkCost \in Int /\ P \in Int
      BY Fits
    <2>3. /\ inner[f] \in Int /\ HeldInside(f) \in Int /\ innerOwed[f] \in Int
          /\ inside[f] \in Int
      BY PartTypes DEF CInv, IInv, TypeOK
    <2>4. LinkCost \in Int /\ P \in Int  BY <2>2
    <2>5. inner[f] + LinkCost * (HeldInside(f) + innerOwed[f] + P * inside[f])
            = inner[f] + LinkCost * HeldInside(f) + LinkCost * innerOwed[f]
                + (LinkCost * P) * inside[f]
      BY <2>3, <2>4, Distribution
    <2> QED  BY <2>1, <2>2, <2>5 DEF FrontInside
  <1> QED  BY <1>1, Conservation, PTL

(* Both together: no credit of the fabric is lost or made.                  *)
THEOREM AllCreditsConserved ==
  ASSUME SameCost, NoteFits, RoomEnough PROVE Spec => []CreditsConserved
  <1>1. Spec => []LinkCreditsConserved  BY LinksConserve
  <1>2. Spec => []SwitchCreditsConserved  BY SwitchConserves
  <1>3. LinkCreditsConserved /\ SwitchCreditsConserved => CreditsConserved
    BY DEF CreditsConserved
  <1> QED  BY <1>1, <1>2, <1>3, PTL

(* With an egress VC queue that holds what the credits of all the flows     *)
(* into it allow, no queue of the fabric ever drops a packet.               *)
THEOREM NothingDropped ==
  ASSUME SameCost, NoteFits, RoomEnough, VcRoomEnough PROVE Spec => []Lossless
  <1>1. Init => CInv /\ Lossless
    BY InitConserved DEF Init, Lossless
  <1>2. CInv /\ Lossless /\ [Next]_vars => (CInv /\ Lossless)'
    BY ConservationStep, LosslessStep
  <1> QED  BY <1>1, <1>2, PTL DEF Spec
=============================================================================
