------------------------------- MODULE SueLlr -------------------------------
(***************************************************************************)
(* Link-level retry (src/src/sue-sim-module/model/sue-llr.cc) on one       *)
(* virtual channel of one link, with the device code that drives it        *)
(* (point-to-point-sue-net-device.cc): an LlrNodeManager at the NIC, an    *)
(* LlrSwitchPortManager at the switch port, data both ways.                *)
(*                                                                         *)
(* Two habits of the device decide what the managers can do.  It calls     *)
(* their Initialize, which empties the send list, in every Send, Receive   *)
(* and EnqueueToVcQueue.  And it never calls LlrResendPacket: what a       *)
(* timeout or a NACK asks for is the callback of InitializeLlr, which      *)
(* transmits m_currentPkt if the device is READY, and then there is none.  *)
(*                                                                         *)
(* Queues and the wire are one FIFO of data per direction; ACKs and NACKs  *)
(* overtake data in the main queue and are kept apart from them, in any    *)
(* order.  Sequence numbers do not wrap here.                              *)
(***************************************************************************)
EXTENDS Integers, SequencesExt

CONSTANTS
  nic, port,            \* the ends of the link
  MaxPackets,           \* bound: data packets per direction
  MaxLosses             \* bound: packets the receive error model corrupts

Ends == {nic, port}

ASSUME SueLlrAssumption ==
  nic # port /\ MaxPackets \in Nat /\ MaxLosses \in Nat

VARIABLES
  sendSeq,              \* m_sendSeq of each end
  sendList,             \* numbers in m_sendList
  waitSeq,              \* m_waitSeq: next number expected from the peer, and
                        \* oldest number the peer has not acknowledged
  resending,            \* ends with m_llrResending
  timers,               \* ends whose m_resendPkt is pending
  data,                 \* data on its way from each end
  due,                  \* control packets each end is about to send
  control,              \* control packets on their way from each end
  arrived,              \* control packets each end is about to process
  losses,               \* history: packets lost
  passed                \* history: numbers each end has passed up

llrVars == <<sendSeq, sendList, waitSeq, resending, timers>>
vars == <<llrVars, data, due, control, arrived, losses, passed>>

-----------------------------------------------------------------------------
Peer(s) == IF s = nic THEN port ELSE nic

Message == [type : {"ack", "nack"}, seq : Nat]
Ack(n)  == [type |-> "ack", seq |-> n]
Nack(n) == [type |-> "nack", seq |-> n]

Init ==
  /\ sendSeq = [s \in Ends |-> 0] /\ waitSeq = [s \in Ends |-> 0]
  /\ sendList = [s \in Ends |-> {}]
  /\ resending = {} /\ timers = {}
  /\ data = [s \in Ends |-> <<>>]
  /\ due = [s \in Ends |-> {}] /\ control = [s \in Ends |-> {}]
  /\ arrived = [s \in Ends |-> {}]
  /\ losses = 0 /\ passed = [s \in Ends |-> <<>>]

-----------------------------------------------------------------------------
(* Mutant: the managers are initialized once.                              *)
InitializedOnce(s) == sendList

(* Initialize, as every entry point of the device calls it: the lists are  *)
(* resized, which keeps their values, and the send list is cleared.        *)
Initialized(s) == [sendList EXCEPT ![s] = {}]

(* EnqueueToVcQueue and LlrSendPacket: the packet is numbered, kept, and   *)
(* queued for the link.  The window size is not looked at.                 *)
Enqueue(s) ==
  /\ sendSeq[s] < MaxPackets
  /\ sendSeq' = [sendSeq EXCEPT ![s] = @ + 1]
  /\ sendList' = [Initialized(s) EXCEPT ![s] = @ \cup {sendSeq[s]}]
  /\ timers' = timers \cup {s}
  /\ data' = [data EXCEPT ![s] = Append(@, sendSeq[s])]
  /\ UNCHANGED <<waitSeq, resending, due, control, arrived, losses, passed>>

(* Mutant: a number beyond the one expected is taken.                      *)
TakenFromGap(s, n) == n >= waitSeq[s]

(* LlrReceivePacket: the number expected is taken and acknowledged; one    *)
(* beyond it draws a NACK of the expected one, one before it an ACK.       *)
Taken(s, n) == n = waitSeq[s]

(* Mutant: the NACK names the last number received.                        *)
AnswerNamingLast(s, n) == IF n > waitSeq[s] THEN Nack(waitSeq[s] - 1) ELSE Ack(n)

Answer(s, n) == IF n > waitSeq[s] THEN Nack(waitSeq[s]) ELSE Ack(n)

(* Receive, for data.  The switch port passes up what LLR takes, the NIC   *)
(* everything.                                                             *)
ReceiveData(s) ==
  LET from == data[Peer(s)] IN
  /\ from # <<>>
  /\ data' = [data EXCEPT ![Peer(s)] = Tail(@)]
  /\ sendList' = Initialized(s)
  /\ waitSeq' = [waitSeq EXCEPT ![s] = IF Taken(s, Head(from)) THEN @ + 1 ELSE @]
  /\ due' = [due EXCEPT ![s] = @ \cup {Answer(s, Head(from))}]
  /\ passed' = [passed EXCEPT ![s] =
                  IF s = nic \/ Taken(s, Head(from)) THEN Append(@, Head(from)) ELSE @]
  /\ UNCHANGED <<sendSeq, resending, timers, control, arrived, losses>>

(* SendControlPacket and Send.                                             *)
SendControl(s, c) ==
  /\ due' = [due EXCEPT ![s] = @ \ {c}]
  /\ sendList' = Initialized(s)
  /\ control' = [control EXCEPT ![s] = @ \cup {c}]
  /\ UNCHANGED <<sendSeq, waitSeq, resending, timers, data, arrived, losses, passed>>

(* Receive, for an ACK or a NACK: its processing is scheduled.             *)
ReceiveControl(s, c) ==
  /\ control' = [control EXCEPT ![Peer(s)] = @ \ {c}]
  /\ sendList' = Initialized(s)
  /\ arrived' = [arrived EXCEPT ![s] = @ \cup {c}]
  /\ UNCHANGED <<sendSeq, waitSeq, resending, timers, data, due, losses, passed>>

(* The packet Receive looks at is corrupt.                                 *)
LoseData(s) ==
  /\ losses < MaxLosses /\ losses' = losses + 1
  /\ data[Peer(s)] # <<>>
  /\ data' = [data EXCEPT ![Peer(s)] = Tail(@)]
  /\ sendList' = Initialized(s)
  /\ UNCHANGED <<sendSeq, waitSeq, resending, timers, due, control, arrived, passed>>

LoseControl(s, c) ==
  /\ losses < MaxLosses /\ losses' = losses + 1
  /\ control' = [control EXCEPT ![Peer(s)] = @ \ {c}]
  /\ sendList' = Initialized(s)
  /\ UNCHANGED <<sendSeq, waitSeq, resending, timers, data, due, arrived, passed>>

-----------------------------------------------------------------------------
(* ProcessLlrAck and ProcessLlrNack on a number that is still kept: what   *)
(* is acknowledged leaves the list, and waitSeq moves.                     *)
Found(s, c) == c.seq >= waitSeq[s] /\ c.seq \in sendList[s]

ProcessAck(s, c) ==
  /\ c.type = "ack"
  /\ arrived' = [arrived EXCEPT ![s] = @ \ {c}]
  /\ IF Found(s, c)
       THEN /\ sendList' = [sendList EXCEPT ![s] = {n \in @ : n > c.seq}]
            /\ waitSeq' = [waitSeq EXCEPT ![s] = c.seq + 1]
            /\ resending' = resending \ {s}
            /\ timers' = timers \ {s}
       ELSE UNCHANGED <<sendList, waitSeq, resending, timers>>
  /\ UNCHANGED <<sendSeq, data, due, control, losses, passed>>

ProcessNack(s, c) ==
  /\ c.type = "nack"
  /\ arrived' = [arrived EXCEPT ![s] = @ \ {c}]
  /\ IF Found(s, c)
       THEN /\ sendList' = [sendList EXCEPT ![s] = {n \in @ : n >= c.seq}]
            /\ waitSeq' = [waitSeq EXCEPT ![s] = c.seq]
            /\ resending' = resending \cup {s}
            /\ timers' = timers \cup {s}
       ELSE UNCHANGED <<sendList, waitSeq, resending, timers>>
  /\ UNCHANGED <<sendSeq, data, due, control, losses, passed>>

(* Resend, when the timer fires.  It is not armed again.                   *)
Resend(s) ==
  /\ s \in timers /\ timers' = timers \ {s}
  /\ resending' = IF sendList[s] = {} THEN resending \ {s} ELSE resending \cup {s}
  /\ UNCHANGED <<sendSeq, sendList, waitSeq, data, due, control, arrived, losses, passed>>

Next ==
  \E s \in Ends :
    \/ Enqueue(s) \/ ReceiveData(s) \/ LoseData(s) \/ Resend(s)
    \/ \E c \in due[s] : SendControl(s, c)
    \/ \E c \in control[Peer(s)] : ReceiveControl(s, c) \/ LoseControl(s, c)
    \/ \E c \in arrived[s] : ProcessAck(s, c) \/ ProcessNack(s, c)

Spec == Init /\ [][Next]_vars

(* The simulator delivers what is on the wire, processes what has arrived  *)
(* and fires the timers.                                                   *)
FairSpec ==
  /\ Spec
  /\ \A s \in Ends :
       /\ WF_vars(ReceiveData(s)) /\ WF_vars(Resend(s))
       /\ WF_vars(\E c \in due[s] : SendControl(s, c))
       /\ WF_vars(\E c \in control[Peer(s)] : ReceiveControl(s, c))
       /\ WF_vars(\E c \in arrived[s] : ProcessAck(s, c) \/ ProcessNack(s, c))

-----------------------------------------------------------------------------
(* Correctness.                                                            *)

(* Type correctness.                                                       *)
TypeOK ==
  /\ sendSeq \in [Ends -> Nat] /\ waitSeq \in [Ends -> Nat]
  /\ sendList \in [Ends -> SUBSET Nat]
  /\ resending \subseteq Ends /\ timers \subseteq Ends
  /\ data \in [Ends -> Seq(Nat)] /\ passed \in [Ends -> Seq(Nat)]
  /\ due \in [Ends -> SUBSET Message] /\ control \in [Ends -> SUBSET Message]
  /\ arrived \in [Ends -> SUBSET Message]
  /\ losses \in Nat

(* One counter numbers what an end expects and what it has had             *)
(* acknowledged, and a NIC numbers nothing it passes up: still, whatever   *)
(* is lost, the switch port passes up 0, 1, 2, ... without a gap or a      *)
(* duplicate, whatever acknowledgments of its own data come in between.    *)
PortPassesInOrder ==
  /\ waitSeq[port] = Len(passed[port])
  /\ \A k \in DOMAIN passed[port] : passed[port][k] = k - 1

(* As long as nothing is lost, nothing is discarded: what is on its way is *)
(* exactly what the receiver expects next, in order.                       *)
NothingDiscarded ==
  losses = 0 => \A s \in Ends :
    /\ Len(data[Peer(s)]) = sendSeq[Peer(s)] - waitSeq[s]
    /\ \A k \in DOMAIN data[Peer(s)] : data[Peer(s)][k] = waitSeq[s] + k - 1
    /\ waitSeq[s] = Len(passed[s])

(* The link delivers every packet unless one is lost.                      *)
DeliveredUnlessLost ==
  \A s \in Ends, n \in 0 .. (MaxPackets - 1) :
    sendSeq[s] > n ~> losses > 0 \/ Contains(passed[Peer(s)], n)
=============================================================================
