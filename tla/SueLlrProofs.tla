------------------------------ MODULE SueLlrProofs ------------------------------
(***************************************************************************)
(* Theorems about link-level retry on one channel of a link, for any       *)
(* number of packets and of losses.                                        *)
(***************************************************************************)
EXTENDS SueLlr, TLAPS

USE SueLlrAssumption

(* The send list, emptied by every entry point of the device, holds the    *)
(* newest packet or nothing.                                               *)
ListIsNewest ==
  \A s \in Ends : \A n \in sendList[s] : n + 1 = sendSeq[s]

(* What is on the wire has been numbered.                                  *)
DataIsNumbered ==
  \A s \in Ends : \A k \in DOMAIN data[s] : data[s][k] < sendSeq[s]

(* So are the packets that answers name, and when an answer is processed   *)
(* its packet has left the list: the managers never learn anything from an *)
(* ACK or a NACK.                                                          *)
AnswersAreLate ==
  /\ \A s \in Ends : \A c \in due[s] \cup control[s] : c.seq < sendSeq[Peer(s)]
  /\ \A s \in Ends : \A c \in arrived[s] :
       c.seq < sendSeq[s] /\ c.seq \notin sendList[s]

IInv ==
  /\ TypeOK
  /\ ListIsNewest
  /\ DataIsNumbered
  /\ AnswersAreLate
  /\ PortPassesInOrder
  /\ NothingDiscarded

-----------------------------------------------------------------------------
(* Helpers.                                                                *)

LEMMA Peers ==
  /\ \A s \in Ends : /\ Peer(s) \in Ends /\ Peer(Peer(s)) = s /\ Peer(s) # s
                     /\ \A t \in Ends : t = s \/ t = Peer(s)
  /\ nic \in Ends /\ port \in Ends
  BY DEF Peer, Ends

(* The types of the fields of a message.                                   *)
LEMMA MessageFields ==
  /\ \A c \in Message : c.seq \in Nat
  /\ \A n \in Nat : Ack(n) \in Message /\ Nack(n) \in Message
                      /\ Ack(n).seq = n /\ Nack(n).seq = n
  BY DEF Message, Ack, Nack

(* What TypeOK says of the values at one end.                              *)
LEMMA EndTypes ==
  ASSUME TypeOK, NEW s \in Ends
  PROVE  /\ sendSeq[s] \in Nat /\ waitSeq[s] \in Nat
         /\ sendList[s] \subseteq Nat
         /\ data[s] \in Seq(Nat) /\ passed[s] \in Seq(Nat)
         /\ due[s] \subseteq Message /\ control[s] \subseteq Message
         /\ arrived[s] \subseteq Message
  BY DEF TypeOK

(* Initialized empties one list.                                           *)
LEMMA InitializedList ==
  ASSUME TypeOK, NEW s \in Ends
  PROVE  /\ Initialized(s) \in [Ends -> SUBSET Nat]
         /\ Initialized(s)[s] = {}
         /\ \A t \in Ends : Initialized(s)[t] \subseteq sendList[t]
         /\ \A t \in Ends : t # s => Initialized(s)[t] = sendList[t]
  BY DEF Initialized, TypeOK

(* Processing an answer changes nothing but the pile it came from.         *)
LEMMA NeverFound ==
  ASSUME IInv, NEW s \in Ends, NEW c \in arrived[s]
  PROVE  ~Found(s, c)
  BY DEF Found, IInv, AnswersAreLate

(* The first of a sequence that counts up from a.                          *)
LEMMA CountingTail ==
  ASSUME NEW q \in Seq(Nat), NEW a \in Nat, q # <<>>,
         \A k \in DOMAIN q : q[k] = a + k - 1
  PROVE  /\ Head(q) = a
         /\ Len(Tail(q)) = Len(q) - 1
         /\ \A k \in DOMAIN Tail(q) : Tail(q)[k] = (a + 1) + k - 1
<1>1. /\ Len(q) \in Nat /\ Len(q) > 0 /\ DOMAIN q = 1 .. Len(q)
      /\ Tail(q) \in Seq(Nat) /\ Len(Tail(q)) = Len(q) - 1
      /\ DOMAIN Tail(q) = 1 .. (Len(q) - 1)
      /\ \A k \in 1 .. (Len(q) - 1) : Tail(q)[k] = q[k + 1]
      /\ Head(q) = q[1]
  OBVIOUS
<1>2. Head(q) = a
  BY <1>1
<1>3. ASSUME NEW k \in DOMAIN Tail(q) PROVE Tail(q)[k] = (a + 1) + k - 1
  <2>1. k \in 1 .. (Len(q) - 1) /\ k + 1 \in DOMAIN q /\ k \in Nat
    BY <1>1
  <2>2. q[k + 1] = a + (k + 1) - 1
    BY <2>1
  <2> QED BY <1>1, <2>1, <2>2
<1> QED BY <1>1, <1>2, <1>3

(* One more number at its end.                                             *)
LEMMA AppendFacts ==
  ASSUME NEW q \in Seq(Nat), NEW x \in Nat
  PROVE  /\ Append(q, x) \in Seq(Nat) /\ Len(Append(q, x)) = Len(q) + 1
         /\ Len(q) \in Nat /\ DOMAIN q = 1 .. Len(q)
         /\ \A k \in DOMAIN q : Append(q, x)[k] = q[k]
         /\ Append(q, x)[Len(q) + 1] = x
         /\ \A k \in DOMAIN Append(q, x) :
              k \in Nat /\ (k \in DOMAIN q \/ k = Len(q) + 1)
  OBVIOUS

(* What stays of the data when its head has left.                          *)
LEMMA TailFacts ==
  ASSUME NEW q \in Seq(Nat), q # <<>>
  PROVE  /\ Head(q) \in Nat /\ 1 \in DOMAIN q /\ Head(q) = q[1]
         /\ Tail(q) \in Seq(Nat)
         /\ \A k \in DOMAIN Tail(q) : k + 1 \in DOMAIN q /\ Tail(q)[k] = q[k + 1]
  OBVIOUS

-----------------------------------------------------------------------------
(* The steps.                                                              *)

LEMMA InitHolds == Init => IInv
<1> SUFFICES ASSUME Init PROVE IInv
  OBVIOUS
<1>1. TypeOK
  BY DEF Init, TypeOK
<1>2. ListIsNewest /\ DataIsNumbered /\ AnswersAreLate
  BY Peers DEF Init, ListIsNewest, DataIsNumbered, AnswersAreLate
<1>3. PortPassesInOrder
  BY Peers DEF Init, PortPassesInOrder
<1>4. NothingDiscarded
  BY Peers DEF Init, NothingDiscarded
<1> QED BY <1>1, <1>2, <1>3, <1>4 DEF IInv

LEMMA EnqueueStep ==
  ASSUME IInv, NEW s \in Ends, Enqueue(s)
  PROVE  IInv'
<1> USE DEF IInv
<1>1. /\ sendSeq[s] \in Nat /\ sendSeq[Peer(s)] \in Nat
      /\ data[s] \in Seq(Nat) /\ Peer(s) \in Ends
      /\ sendSeq' = [sendSeq EXCEPT ![s] = sendSeq[s] + 1]
      /\ data' = [data EXCEPT ![s] = Append(data[s], sendSeq[s])]
      /\ sendList' = [Initialized(s) EXCEPT ![s] = {sendSeq[s]}]
  <2>1. Initialized(s) \in [Ends -> SUBSET Nat] /\ Initialized(s)[s] = {}
    BY InitializedList
  <2> QED BY <2>1, EndTypes, Peers DEF Enqueue
<1>2. /\ sendSeq'[s] = sendSeq[s] + 1
      /\ \A t \in Ends : t # s => sendSeq'[t] = sendSeq[t]
      /\ \A t \in Ends : sendSeq'[t] \in Nat /\ sendSeq[t] <= sendSeq'[t]
  BY <1>1 DEF TypeOK
<1>3. /\ sendList' \in [Ends -> SUBSET Nat] /\ sendList'[s] = {sendSeq[s]}
      /\ \A t \in Ends : t # s => sendList'[t] = sendList[t]
  BY <1>1, InitializedList
<1>4. /\ data'[s] = Append(data[s], sendSeq[s])
      /\ \A t \in Ends : t # s => data'[t] = data[t]
      /\ data' \in [Ends -> Seq(Nat)]
  BY <1>1, AppendFacts DEF TypeOK
<1>5. TypeOK'
  BY <1>1, <1>2, <1>3, <1>4 DEF Enqueue, TypeOK
<1>6. ListIsNewest'
  BY <1>1, <1>2, <1>3 DEF ListIsNewest
<1>7. DataIsNumbered'
  <2>1. ASSUME NEW k \in DOMAIN data'[s] PROVE data'[s][k] < sendSeq'[s]
    <3>1. CASE k \in DOMAIN data[s]
      <4>1. data'[s][k] = data[s][k]
        BY <1>1, <1>4, <3>1, AppendFacts
      <4>2. data[s][k] < sendSeq[s] /\ data[s][k] \in Nat
        BY <1>1, <3>1 DEF DataIsNumbered
      <4> QED BY <1>1, <1>2, <4>1, <4>2
    <3>2. CASE k = Len(data[s]) + 1
      BY <1>1, <1>2, <1>4, <3>2, AppendFacts
    <3> QED BY <1>1, <1>4, <2>1, <3>1, <3>2, AppendFacts
  <2>2. ASSUME NEW t \in Ends, t # s, NEW k \in DOMAIN data'[t]
        PROVE  data'[t][k] < sendSeq'[t]
    BY <1>2, <1>4, <2>2 DEF DataIsNumbered
  <2> QED BY <2>1, <2>2 DEF DataIsNumbered
<1>8. AnswersAreLate'
  <2>1. ASSUME NEW t \in Ends, NEW c \in due[t] \cup control[t]
        PROVE  c.seq < sendSeq'[Peer(t)]
    <3>1. c.seq \in Nat /\ c.seq < sendSeq[Peer(t)]
            /\ Peer(t) \in Ends /\ sendSeq[Peer(t)] \in Nat
      BY EndTypes, MessageFields, Peers DEF AnswersAreLate
    <3> QED BY <1>2, <3>1
  <2>2. ASSUME NEW t \in Ends, NEW c \in arrived[t]
        PROVE  c.seq < sendSeq'[t] /\ c.seq \notin sendList'[t]
    <3>1. c.seq \in Nat /\ c.seq < sendSeq[t] /\ c.seq \notin sendList[t]
            /\ sendSeq[t] \in Nat
      BY EndTypes, MessageFields DEF AnswersAreLate
    <3> QED BY <1>2, <1>3, <3>1
  <2> QED BY <2>1, <2>2 DEF Enqueue, AnswersAreLate
<1>9. PortPassesInOrder'
  BY DEF Enqueue, PortPassesInOrder
<1>10. NothingDiscarded'
  <2> SUFFICES ASSUME losses' = 0, NEW t \in Ends
               PROVE  /\ Len(data'[Peer(t)]) = sendSeq'[Peer(t)] - waitSeq[t]
                      /\ \A k \in DOMAIN data'[Peer(t)] :
                           data'[Peer(t)][k] = waitSeq[t] + k - 1
                      /\ waitSeq[t] = Len(passed[t])
    BY DEF Enqueue, NothingDiscarded
  <2>1. /\ Len(data[Peer(t)]) = sendSeq[Peer(t)] - waitSeq[t]
        /\ \A k \in DOMAIN data[Peer(t)] : data[Peer(t)][k] = waitSeq[t] + k - 1
        /\ waitSeq[t] = Len(passed[t]) /\ waitSeq[t] \in Nat
        /\ Peer(t) \in Ends
    BY EndTypes, Peers DEF Enqueue, NothingDiscarded
  <2>2. CASE Peer(t) # s
    BY <1>2, <1>4, <2>1, <2>2
  <2>3. CASE Peer(t) = s
    <3>1. Len(data'[s]) = sendSeq'[s] - waitSeq[t]
      BY <1>1, <1>2, <1>4, <2>1, <2>3, AppendFacts
    <3>2. ASSUME NEW k \in DOMAIN data'[s] PROVE data'[s][k] = waitSeq[t] + k - 1
      <4>1. CASE k \in DOMAIN data[s]
        BY <1>1, <1>4, <2>1, <2>3, <4>1, AppendFacts
      <4>2. CASE k = Len(data[s]) + 1
        <5>1. data'[s][k] = sendSeq[s] /\ Len(data[s]) \in Nat
          BY <1>1, <1>4, <4>2, AppendFacts
        <5>2. Len(data[s]) = sendSeq[s] - waitSeq[t]
          BY <2>1, <2>3
        <5> QED BY <1>1, <2>1, <4>2, <5>1, <5>2
      <4> QED BY <1>1, <1>4, <3>2, <4>1, <4>2, AppendFacts
    <3> QED BY <2>1, <2>3, <3>1, <3>2
  <2> QED BY <2>2, <2>3
<1> QED BY <1>5, <1>6, <1>7, <1>8, <1>9, <1>10

(* Data leave the wire.                                                    *)
LEMMA DataLeaves ==
  ASSUME IInv, NEW s \in Ends, data[Peer(s)] # <<>>,
         data' = [data EXCEPT ![Peer(s)] = Tail(data[Peer(s)])],
         UNCHANGED sendSeq
  PROVE  /\ data' \in [Ends -> Seq(Nat)]
         /\ data'[Peer(s)] = Tail(data[Peer(s)]) /\ data'[s] = data[s]
         /\ DataIsNumbered'
         /\ Head(data[Peer(s)]) \in Nat
         /\ Head(data[Peer(s)]) < sendSeq[Peer(s)]
<1> DEFINE q == data[Peer(s)]
<1>1. /\ q \in Seq(Nat) /\ q # <<>> /\ Peer(s) \in Ends
      /\ \A k \in DOMAIN q : q[k] < sendSeq[Peer(s)]
  BY EndTypes, Peers DEF IInv, DataIsNumbered
<1>2. /\ Head(q) \in Nat /\ Head(q) < sendSeq[Peer(s)] /\ Tail(q) \in Seq(Nat)
      /\ \A k \in DOMAIN Tail(q) : Tail(q)[k] < sendSeq[Peer(s)]
  BY <1>1, TailFacts
<1>3. /\ data' \in [Ends -> Seq(Nat)]
      /\ data'[Peer(s)] = Tail(q)
      /\ \A t \in Ends : t # Peer(s) => data'[t] = data[t]
  BY <1>1, <1>2 DEF IInv, TypeOK
<1>4. DataIsNumbered'
  <2> SUFFICES ASSUME NEW t \in Ends, NEW k \in DOMAIN data'[t]
               PROVE  data'[t][k] < sendSeq[t]
    BY DEF DataIsNumbered
  <2>1. CASE t = Peer(s)
    BY <1>2, <1>3, <2>1
  <2>2. CASE t # Peer(s)
    BY <1>3, <2>2 DEF IInv, DataIsNumbered
  <2> QED BY <2>1, <2>2
<1> QED BY <1>1, <1>2, <1>3, <1>4, Peers

(* The device has emptied the send list of one end.                        *)
LEMMA ListEmptied ==
  ASSUME IInv, NEW s \in Ends, sendList' = Initialized(s), UNCHANGED sendSeq
  PROVE  /\ sendList' \in [Ends -> SUBSET Nat] /\ sendList'[s] = {}
         /\ ListIsNewest'
         /\ \A t \in Ends : \A c \in arrived[t] :
              c.seq < sendSeq[t] /\ c.seq \notin sendList'[t]
<1>1. /\ sendList' \in [Ends -> SUBSET Nat] /\ sendList'[s] = {}
      /\ \A t \in Ends : sendList'[t] \subseteq sendList[t]
  BY InitializedList DEF IInv
<1>2. ListIsNewest'
  BY <1>1 DEF IInv, ListIsNewest
<1> QED BY <1>1, <1>2 DEF IInv, AnswersAreLate

LEMMA ReceiveDataStep ==
  ASSUME IInv, NEW s \in Ends, ReceiveData(s)
  PROVE  IInv'
<1> USE DEF IInv
<1> DEFINE r == Peer(s)
           x == Head(data[r])
<1>1. /\ r \in Ends /\ r # s /\ Peer(r) = s /\ \A t \in Ends : t = s \/ t = r
      /\ data[r] # <<>>
      /\ data' = [data EXCEPT ![r] = Tail(data[r])]
      /\ sendList' = Initialized(s)
      /\ waitSeq' = [waitSeq EXCEPT ![s] = IF Taken(s, x) THEN waitSeq[s] + 1 ELSE waitSeq[s]]
      /\ due' = [due EXCEPT ![s] = due[s] \cup {Answer(s, x)}]
      /\ passed' = [passed EXCEPT ![s] =
                      IF s = nic \/ Taken(s, x) THEN Append(passed[s], x) ELSE passed[s]]
      /\ UNCHANGED <<sendSeq, resending, timers, control, arrived, losses>>
  BY Peers DEF ReceiveData
<1> HIDE DEF r, x
<1>2. /\ data' \in [Ends -> Seq(Nat)] /\ data'[r] = Tail(data[r]) /\ data'[s] = data[s]
      /\ DataIsNumbered' /\ x \in Nat /\ x < sendSeq[r]
  BY <1>1, DataLeaves DEF r, x
<1>3. /\ sendList' \in [Ends -> SUBSET Nat] /\ ListIsNewest'
      /\ \A t \in Ends : \A c \in arrived[t] :
           c.seq < sendSeq[t] /\ c.seq \notin sendList'[t]
  BY <1>1, ListEmptied
<1>4. /\ waitSeq[s] \in Nat /\ waitSeq[r] \in Nat /\ sendSeq[r] \in Nat /\ sendSeq[s] \in Nat
      /\ passed[s] \in Seq(Nat) /\ due[s] \subseteq Message
      /\ data[r] \in Seq(Nat) /\ data[s] \in Seq(Nat)
  BY <1>1, EndTypes
<1>5. /\ Answer(s, x) \in Message /\ Answer(s, x).seq \in Nat
      /\ Answer(s, x).seq < sendSeq[r]
  <2>1. CASE x > waitSeq[s]
    BY <1>2, <1>4, <2>1, MessageFields DEF Answer
  <2>2. CASE ~(x > waitSeq[s])
    BY <1>2, <2>2, MessageFields DEF Answer
  <2> QED BY <2>1, <2>2
<1>6. /\ waitSeq'[s] = IF Taken(s, x) THEN waitSeq[s] + 1 ELSE waitSeq[s]
      /\ waitSeq'[r] = waitSeq[r] /\ waitSeq' \in [Ends -> Nat]
  BY <1>1, <1>4 DEF TypeOK
<1>7. /\ passed'[s] = IF s = nic \/ Taken(s, x) THEN Append(passed[s], x) ELSE passed[s]
      /\ passed'[r] = passed[r]
      /\ passed' \in [Ends -> Seq(Nat)]
  <2>1. Append(passed[s], x) \in Seq(Nat)
    BY <1>2, <1>4, AppendFacts
  <2> QED BY <1>1, <1>4, <2>1 DEF TypeOK
<1>8. /\ due'[s] = due[s] \cup {Answer(s, x)} /\ due'[r] = due[r]
      /\ due' \in [Ends -> SUBSET Message]
  BY <1>1, <1>4, <1>5 DEF TypeOK
<1>9. TypeOK'
  BY <1>1, <1>2, <1>3, <1>6, <1>7, <1>8 DEF TypeOK
<1>10. AnswersAreLate'
  <2>1. ASSUME NEW t \in Ends, NEW c \in due'[t] \cup control'[t]
        PROVE  c.seq < sendSeq[Peer(t)]
    <3>1. CASE c = Answer(s, x) /\ t = s
      BY <1>1, <1>5, <3>1 DEF r
    <3>2. CASE c \in due[t] \cup control[t]
      BY <3>2 DEF AnswersAreLate
    <3> QED BY <1>1, <1>8, <2>1, <3>1, <3>2
  <2> QED BY <1>1, <1>3, <2>1 DEF AnswersAreLate
<1>11. PortPassesInOrder'
  <2>1. CASE s # port
    <3>1. port = r
      BY <1>1, <2>1, Peers
    <3> QED BY <1>6, <1>7, <3>1 DEF PortPassesInOrder
  <2>2. CASE s = port /\ Taken(s, x)
    <3>1. /\ waitSeq'[port] = waitSeq[port] + 1 /\ passed'[port] = Append(passed[port], x)
          /\ x = waitSeq[port] /\ waitSeq[port] = Len(passed[port])
          /\ waitSeq[port] \in Nat /\ passed[port] \in Seq(Nat)
      BY <1>4, <1>6, <1>7, <2>2 DEF Taken, PortPassesInOrder
    <3>2. ASSUME NEW k \in DOMAIN passed'[port] PROVE passed'[port][k] = k - 1
      <4>1. CASE k \in DOMAIN passed[port]
        BY <1>2, <3>1, <4>1, AppendFacts DEF PortPassesInOrder
      <4>2. CASE k = Len(passed[port]) + 1
        BY <1>2, <3>1, <4>2, AppendFacts
      <4> QED BY <1>2, <3>1, <3>2, <4>1, <4>2, AppendFacts
    <3>3. waitSeq'[port] = Len(passed'[port])
      BY <1>2, <3>1, AppendFacts
    <3> QED BY <3>2, <3>3 DEF PortPassesInOrder
  <2>3. CASE s = port /\ ~Taken(s, x)
    <3>1. passed'[port] = passed[port] /\ waitSeq'[port] = waitSeq[port]
      BY <1>6, <1>7, <2>3, SueLlrAssumption
    <3> QED BY <3>1 DEF PortPassesInOrder
  <2> QED BY <2>1, <2>2, <2>3
<1>12. NothingDiscarded'
  <2> SUFFICES ASSUME losses = 0, NEW t \in Ends
               PROVE  /\ Len(data'[Peer(t)]) = sendSeq[Peer(t)] - waitSeq'[t]
                      /\ \A k \in DOMAIN data'[Peer(t)] :
                           data'[Peer(t)][k] = waitSeq'[t] + k - 1
                      /\ waitSeq'[t] = Len(passed'[t])
    BY <1>1 DEF NothingDiscarded
  <2>1. /\ Len(data[Peer(t)]) = sendSeq[Peer(t)] - waitSeq[t]
        /\ \A k \in DOMAIN data[Peer(t)] : data[Peer(t)][k] = waitSeq[t] + k - 1
        /\ waitSeq[t] = Len(passed[t])
    BY DEF NothingDiscarded
  <2>2. CASE t = r
    BY <1>1, <1>2, <1>6, <1>7, <2>1, <2>2
  <2>3. CASE t = s
    <3>1. /\ x = waitSeq[s] /\ Len(Tail(data[r])) = Len(data[r]) - 1
          /\ \A k \in DOMAIN Tail(data[r]) : Tail(data[r])[k] = (waitSeq[s] + 1) + k - 1
      BY <1>1, <1>4, <2>1, <2>3, CountingTail DEF r, x
    <3>2. waitSeq'[s] = waitSeq[s] + 1 /\ passed'[s] = Append(passed[s], x)
      BY <1>6, <1>7, <3>1 DEF Taken
    <3>3. Len(passed'[s]) = Len(passed[s]) + 1 /\ Len(data[r]) \in Nat
      BY <1>2, <1>4, <3>2, AppendFacts
    <3>4. /\ Len(data[r]) = sendSeq[r] - waitSeq[s] /\ waitSeq[s] = Len(passed[s])
          /\ Peer(t) = r
      BY <2>1, <2>3 DEF r
    <3>5. data'[Peer(t)] = Tail(data[r]) /\ sendSeq[Peer(t)] = sendSeq[r]
      BY <1>2, <3>4
    <3>6. Len(Tail(data[r])) = sendSeq[r] - (waitSeq[s] + 1)
      BY <1>4, <3>1, <3>3, <3>4
    <3>7. waitSeq'[s] = Len(passed'[s])
      BY <3>2, <3>3, <3>4
    <3> QED BY <2>3, <3>1, <3>2, <3>5, <3>6, <3>7
  <2> QED BY <1>1, <2>2, <2>3
<1> QED BY <1>2, <1>3, <1>9, <1>10, <1>11, <1>12

LEMMA LoseDataStep ==
  ASSUME IInv, NEW s \in Ends, LoseData(s)
  PROVE  IInv'
<1> USE DEF IInv
<1>1. /\ sendList' = Initialized(s) /\ data[Peer(s)] # <<>>
      /\ data' = [data EXCEPT ![Peer(s)] = Tail(data[Peer(s)])]
      /\ losses' = losses + 1 /\ losses \in Nat
      /\ UNCHANGED <<sendSeq, waitSeq, resending, timers, due, control, arrived, passed>>
  BY DEF LoseData, TypeOK
<1>2. TypeOK' /\ DataIsNumbered'
  <2>1. data' \in [Ends -> Seq(Nat)] /\ DataIsNumbered'
    BY <1>1, DataLeaves
  <2>2. sendList' \in [Ends -> SUBSET Nat]
    BY <1>1, ListEmptied
  <2>3. losses' \in Nat
    BY <1>1
  <2> QED BY <1>1, <2>1, <2>2, <2>3 DEF TypeOK
<1>3. ListIsNewest' /\ AnswersAreLate'
  BY <1>1, ListEmptied DEF AnswersAreLate
<1>4. PortPassesInOrder' /\ NothingDiscarded'
  BY <1>1 DEF PortPassesInOrder, NothingDiscarded
<1> QED BY <1>2, <1>3, <1>4

LEMMA LoseControlStep ==
  ASSUME IInv, NEW s \in Ends, NEW c \in control[Peer(s)], LoseControl(s, c)
  PROVE  IInv'
<1> USE DEF IInv
<1>1. /\ sendList' = Initialized(s) /\ Peer(s) \in Ends
      /\ control' = [control EXCEPT ![Peer(s)] = control[Peer(s)] \ {c}]
      /\ losses' = losses + 1 /\ losses \in Nat
      /\ UNCHANGED <<sendSeq, waitSeq, resending, timers, data, due, arrived, passed>>
  BY Peers DEF LoseControl, TypeOK
<1>2. /\ control' \in [Ends -> SUBSET Message]
      /\ \A t \in Ends : control'[t] \subseteq control[t]
  BY <1>1 DEF TypeOK
<1>3. TypeOK' /\ ListIsNewest'
  BY <1>1, <1>2, ListEmptied DEF TypeOK
<1>4. AnswersAreLate'
  BY <1>1, <1>2, ListEmptied DEF AnswersAreLate
<1>5. DataIsNumbered' /\ PortPassesInOrder' /\ NothingDiscarded'
  BY <1>1 DEF DataIsNumbered, PortPassesInOrder, NothingDiscarded
<1> QED BY <1>3, <1>4, <1>5

LEMMA SendControlStep ==
  ASSUME IInv, NEW s \in Ends, NEW c \in due[s], SendControl(s, c)
  PROVE  IInv'
<1> USE DEF IInv
<1>1. /\ sendList' = Initialized(s)
      /\ due' = [due EXCEPT ![s] = due[s] \ {c}]
      /\ control' = [control EXCEPT ![s] = control[s] \cup {c}]
      /\ UNCHANGED <<sendSeq, waitSeq, resending, timers, data, arrived, losses, passed>>
      /\ c \in Message
  BY EndTypes DEF SendControl
<1>2. /\ due' \in [Ends -> SUBSET Message] /\ control' \in [Ends -> SUBSET Message]
      /\ \A t \in Ends : due'[t] \cup control'[t] \subseteq due[t] \cup control[t]
  BY <1>1 DEF TypeOK
<1>3. TypeOK' /\ ListIsNewest'
  BY <1>1, <1>2, ListEmptied DEF TypeOK
<1>4. AnswersAreLate'
  BY <1>1, <1>2, ListEmptied DEF AnswersAreLate
<1>5. DataIsNumbered' /\ PortPassesInOrder' /\ NothingDiscarded'
  BY <1>1 DEF DataIsNumbered, PortPassesInOrder, NothingDiscarded
<1> QED BY <1>3, <1>4, <1>5

LEMMA ReceiveControlStep ==
  ASSUME IInv, NEW s \in Ends, NEW c \in control[Peer(s)], ReceiveControl(s, c)
  PROVE  IInv'
<1> USE DEF IInv
<1>1. /\ sendList' = Initialized(s) /\ Peer(s) \in Ends /\ Peer(Peer(s)) = s
      /\ control' = [control EXCEPT ![Peer(s)] = control[Peer(s)] \ {c}]
      /\ arrived' = [arrived EXCEPT ![s] = arrived[s] \cup {c}]
      /\ UNCHANGED <<sendSeq, waitSeq, resending, timers, data, due, losses, passed>>
      /\ c \in Message
  BY EndTypes, Peers DEF ReceiveControl
<1>2. /\ control' \in [Ends -> SUBSET Message]
      /\ \A t \in Ends : control'[t] \subseteq control[t]
  BY <1>1 DEF TypeOK
<1>3. /\ arrived' \in [Ends -> SUBSET Message]
      /\ arrived'[s] = arrived[s] \cup {c}
      /\ \A t \in Ends : t # s => arrived'[t] = arrived[t]
  BY <1>1 DEF TypeOK
<1>4. TypeOK' /\ ListIsNewest'
  BY <1>1, <1>2, <1>3, ListEmptied DEF TypeOK
<1>5. c.seq < sendSeq[s] /\ sendList'[s] = {}
  BY <1>1, ListEmptied DEF AnswersAreLate
<1>6. AnswersAreLate'
  <2>1. ASSUME NEW t \in Ends, NEW d \in arrived'[t]
        PROVE  d.seq < sendSeq[t] /\ d.seq \notin sendList'[t]
    BY <1>1, <1>3, <1>5, <2>1, ListEmptied
  <2> QED BY <1>1, <1>2, <2>1 DEF AnswersAreLate
<1>7. DataIsNumbered' /\ PortPassesInOrder' /\ NothingDiscarded'
  BY <1>1 DEF DataIsNumbered, PortPassesInOrder, NothingDiscarded
<1> QED BY <1>4, <1>6, <1>7

LEMMA ProcessStep ==
  ASSUME IInv, NEW s \in Ends, NEW c \in arrived[s],
         ProcessAck(s, c) \/ ProcessNack(s, c)
  PROVE  IInv'
<1> USE DEF IInv
<1>1. /\ arrived' = [arrived EXCEPT ![s] = arrived[s] \ {c}]
      /\ UNCHANGED <<sendSeq, sendList, waitSeq, resending, timers>>
      /\ UNCHANGED <<data, due, control, losses, passed>>
  BY NeverFound DEF ProcessAck, ProcessNack
<1>2. /\ arrived' \in [Ends -> SUBSET Message]
      /\ \A t \in Ends : arrived'[t] \subseteq arrived[t]
  BY <1>1 DEF TypeOK
<1>3. TypeOK' /\ ListIsNewest'
  BY <1>1, <1>2 DEF TypeOK, ListIsNewest
<1>4. AnswersAreLate'
  BY <1>1, <1>2 DEF AnswersAreLate
<1>5. DataIsNumbered' /\ PortPassesInOrder' /\ NothingDiscarded'
  BY <1>1 DEF DataIsNumbered, PortPassesInOrder, NothingDiscarded
<1> QED BY <1>3, <1>4, <1>5

LEMMA ResendStep ==
  ASSUME IInv, NEW s \in Ends, Resend(s) \/ UNCHANGED vars
  PROVE  IInv'
<1> USE DEF IInv
<1>1. /\ UNCHANGED <<sendSeq, sendList, waitSeq, data, due, control, arrived, losses, passed>>
      /\ timers' \subseteq Ends /\ resending' \subseteq Ends
  <2>1. CASE Resend(s)
    BY <2>1 DEF Resend, TypeOK
  <2>2. CASE UNCHANGED vars
    BY <2>2 DEF vars, llrVars, TypeOK
  <2> QED BY <2>1, <2>2
<1>2. TypeOK' /\ ListIsNewest' /\ DataIsNumbered' /\ AnswersAreLate'
  BY <1>1 DEF TypeOK, ListIsNewest, DataIsNumbered, AnswersAreLate
<1>3. PortPassesInOrder' /\ NothingDiscarded'
  BY <1>1 DEF PortPassesInOrder, NothingDiscarded
<1> QED BY <1>2, <1>3

-----------------------------------------------------------------------------
(* The theorems.                                                           *)

LEMMA NextHolds == IInv /\ [Next]_vars => IInv'
<1> SUFFICES ASSUME IInv, [Next]_vars PROVE IInv'
  OBVIOUS
<1>1. CASE UNCHANGED vars
  BY <1>1, ResendStep, Peers
<1>2. CASE Next
  <2> PICK s \in Ends :
        \/ Enqueue(s) \/ ReceiveData(s) \/ LoseData(s) \/ Resend(s)
        \/ \E c \in due[s] : SendControl(s, c)
        \/ \E c \in control[Peer(s)] : ReceiveControl(s, c) \/ LoseControl(s, c)
        \/ \E c \in arrived[s] : ProcessAck(s, c) \/ ProcessNack(s, c)
    BY <1>2 DEF Next
  <2>1. CASE Enqueue(s)
    BY <2>1, EnqueueStep
  <2>2. CASE ReceiveData(s)
    BY <2>2, ReceiveDataStep
  <2>3. CASE LoseData(s)
    BY <2>3, LoseDataStep
  <2>4. CASE Resend(s)
    BY <2>4, ResendStep
  <2>5. CASE \E c \in due[s] : SendControl(s, c)
    BY <2>5, SendControlStep
  <2>6. CASE \E c \in control[Peer(s)] : ReceiveControl(s, c)
    BY <2>6, ReceiveControlStep
  <2>7. CASE \E c \in control[Peer(s)] : LoseControl(s, c)
    BY <2>7, LoseControlStep
  <2>8. CASE \E c \in arrived[s] : ProcessAck(s, c) \/ ProcessNack(s, c)
    BY <2>8, ProcessStep
  <2> QED BY <2>1, <2>2, <2>3, <2>4, <2>5, <2>6, <2>7, <2>8
<1> QED BY <1>1, <1>2

(* The invariant holds in every state of every behaviour.                  *)
THEOREM Invariance == Spec => []IInv
<1>1. IInv /\ [Next]_vars => IInv'
  BY NextHolds
<1> QED BY InitHolds, <1>1, PTL DEF Spec

(* The managers' tables and the packets keep their types.                  *)
THEOREM TypeCorrect == Spec => []TypeOK
<1>1. IInv => TypeOK
  BY DEF IInv
<1> QED BY Invariance, <1>1, PTL

(* Whatever is lost, the switch port passes up 0, 1, 2, ...                *)
THEOREM PortKeepsOrder == Spec => []PortPassesInOrder
<1>1. IInv => PortPassesInOrder
  BY DEF IInv
<1> QED BY Invariance, <1>1, PTL

(* Without losses the receiver takes every packet it is sent.              *)
THEOREM NoNeedlessDiscard == Spec => []NothingDiscarded
<1>1. IInv => NothingDiscarded
  BY DEF IInv
<1> QED BY Invariance, <1>1, PTL

(* No ACK or NACK ever finds the packet it names in the send list, so that *)
(* none stops a retry or asks for one: InitializeLlr, called in Receive,   *)
(* has emptied the list before the answer is processed.                    *)
THEOREM AnswersFindNothing ==
  Spec => [](\A s \in Ends : \A c \in arrived[s] : ~Found(s, c))
<1>1. IInv => \A s \in Ends : \A c \in arrived[s] : ~Found(s, c)
  BY NeverFound
<1> QED BY Invariance, <1>1, PTL
=============================================================================
