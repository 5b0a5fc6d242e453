---------------------------- MODULE TpdcDelivery ----------------------------
(***************************************************************************)
(* What the layer above sees of a transactional context.  The context      *)
(* tracks which numbers arrived and answers with acknowledgments, but it   *)
(* hands nothing up: PdsManager::ProcessReceivedPacket gives the receive   *)
(* Tpdc a copy of every data packet, ignores whether the Tpdc took it, and *)
(* passes the packet itself to the semantic sublayer (or to the device).   *)
(***************************************************************************)
EXTENDS Tpdc

VARIABLE handed         \* the numbers ProcessReceivedPacket has passed up

deliveryVars == <<vars, handed>>

DeliveryInit == Init /\ handed = {}

(* Mutant: early arrivals are left to the context's receive buffer, whose  *)
(* packets nobody takes out.                                               *)
HandUpUnlessEarly(p) ==
  /\ Deliver(p)
  /\ handed' = handed \cup {s \in 1 .. nextRecv : p.type = "data" /\ s = p.seq}

(* A data packet goes up, whatever the context makes of it; a control      *)
(* packet goes to the outgoing context only.                               *)
HandUp(p) ==
  /\ Deliver(p)
  /\ handed' = IF p.type = "data" THEN handed \cup {p.seq} ELSE handed

DeliveryNext ==
  \/ /\ \/ SendNow
        \/ SendLater
        \/ \E s \in armed : RtoTimeout(s)
        \/ SendAcknowledgment
        \/ \E p \in InFlight : Lose(p)
     /\ UNCHANGED handed
  \/ \E p \in InFlight : HandUp(p)

DeliverySpec == DeliveryInit /\ [][DeliveryNext]_deliveryVars

-----------------------------------------------------------------------------
(* The sender forgets a packet, by cumulative ACK or by SACK, only after   *)
(* the layer above the receiver has been given it.                         *)
ForgottenWasHandedUp ==
  \A s \in 1 .. (nextSend - 1) : s \in Buffered \/ s \in handed
=============================================================================
