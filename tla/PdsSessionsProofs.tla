--------------------------- MODULE PdsSessionsProofs ---------------------------
(***************************************************************************)
(* Theorems about the context tables of a PdsManager, for any peers, modes *)
(* and table sizes.                                                        *)
(***************************************************************************)
EXTENDS PdsSessions, TLAPS

USE PdsSessionsAssumption

(* A reliable context on an id that has had no other.                      *)
Fresh(i) == i \in DOMAIN pdcs /\ pdcs[i].mode \in Reliable /\ uses[i] = 1

(* A packet or a receive context only exists for an id that was used.      *)
UsedBefore ==
  /\ \A i \in DOMAIN pdcs : uses[i] > 0 /\ pdcs[i].use = uses[i]
  /\ \A q \in net : uses[q.id] > 0
  /\ \A p \in Peers : \A i \in DOMAIN recv[p] : uses[i] > 0

(* On a fresh id all packets are the context's own, all acknowledgments    *)
(* are true of it, and so is what a receive context has taken.             *)
NetFits ==
  \A i \in DOMAIN pdcs : Fresh(i) =>
    /\ \A q \in net : q.type = "data" /\ q.id = i =>
         q.seq \in 1 .. (pdcs[i].next - 1) /\ q = Data(i, pdcs[i], q.seq)
    /\ \A a \in net : a.type = "control" /\ a.id = i =>
         \A s \in 1 .. a.cum : Data(i, pdcs[i], s) \in handed
TakenFits ==
  \A i \in DOMAIN pdcs : Fresh(i) =>
    \A p \in Peers : i \in DOMAIN recv[p] =>
      \A s \in recv[p][i].taken : Data(i, pdcs[i], s) \in handed

IInv ==
  /\ TypeOK
  /\ IdsAccountedFor
  /\ OneContextPerSession
  /\ FirstUseDelivers
  /\ UsedBefore
  /\ NetFits
  /\ TakenFits

-----------------------------------------------------------------------------
(* Packets, and the queue of released ids.                                 *)

(* A packet depends on the peer, the mode and the use of its context only. *)
LEMMA DataOfContext ==
  ASSUME NEW c \in Context, NEW d \in Context,
         c.peer = d.peer, c.mode = d.mode, c.use = d.use
  PROVE  \A i, s : Data(i, c, s) = Data(i, d, s)
  BY DEF Data

(* It is a data packet.                                                    *)
LEMMA DataType ==
  ASSUME NEW c \in Context, NEW i \in Ids, NEW s \in Nat
  PROVE  /\ Data(i, c, s) \in DataPacket
         /\ Data(i, c, s).type = "data"
         /\ Data(i, c, s).id = i
         /\ c.mode \in Reliable => Data(i, c, s).seq = s
  BY DEF Data, DataPacket, Context

(* The fields of the packets in net.                                       *)
LEMMA PacketFields ==
  ASSUME TypeOK
  PROVE  /\ \A q \in net : q.type = "data" =>
              q \in DataPacket /\ q.id \in Ids /\ q.to \in Peers /\ q.seq \in Nat
                /\ q.reliable \in BOOLEAN
         /\ \A a \in net : a.type = "control" =>
              a \in Control /\ a.id \in Ids /\ a.from \in Peers /\ a.cum \in Nat
         /\ \A q \in net : q.id \in Ids
  BY DEF TypeOK, DataPacket, Control

(* The head of a queue without duplicates leaves it for good.              *)
LEMMA HeadLeaves ==
  ASSUME NEW s \in Seq(Ids), s # <<>>,
         \A k, l \in DOMAIN s : k # l => s[k] # s[l]
  PROVE  /\ Head(s) \in Ids /\ Head(s) \in Contents(s)
         /\ Tail(s) \in Seq(Ids)
         /\ Contents(Tail(s)) = Contents(s) \ {Head(s)}
         /\ \A k, l \in DOMAIN Tail(s) : k # l => Tail(s)[k] # Tail(s)[l]
<1> DEFINE t == Tail(s)
<1>1. /\ Len(s) \in Nat /\ Len(s) > 0 /\ DOMAIN s = 1 .. Len(s)
      /\ t \in Seq(Ids) /\ Len(t) = Len(s) - 1 /\ DOMAIN t = 1 .. Len(t)
      /\ \A k \in DOMAIN t : t[k] = s[k + 1]
      /\ Head(s) = s[1]
  OBVIOUS
<1>2. Contents(t) = Contents(s) \ {Head(s)}
  <2>1. ASSUME NEW x \in Contents(t) PROVE x \in Contents(s) \ {Head(s)}
    <3>1. PICK k \in DOMAIN t : x = t[k]
      BY DEF Contents
    <3>2. k + 1 \in DOMAIN s /\ x = s[k + 1] /\ k + 1 # 1 /\ 1 \in DOMAIN s
      BY <1>1, <3>1
    <3> QED BY <1>1, <3>2 DEF Contents
  <2>2. ASSUME NEW x \in Contents(s), x # Head(s) PROVE x \in Contents(t)
    <3>1. PICK k \in DOMAIN s : x = s[k]
      BY DEF Contents
    <3>2. k - 1 \in DOMAIN t /\ t[k - 1] = x
      BY <1>1, <2>2, <3>1
    <3> QED BY <3>2 DEF Contents
  <2> QED BY <2>1, <2>2
<1>3. \A k, l \in DOMAIN t : k # l => t[k] # t[l]
  <2> TAKE k, l \in DOMAIN t
  <2>1. k + 1 \in DOMAIN s /\ l + 1 \in DOMAIN s /\ (k # l => k + 1 # l + 1)
    BY <1>1
  <2> QED BY <1>1, <2>1
<1>4. Head(s) \in Contents(s) /\ Head(s) \in Ids
  BY <1>1 DEF Contents
<1> QED BY <1>1, <1>2, <1>3, <1>4

(* A released id joins the queue once.                                     *)
LEMMA AppendJoins ==
  ASSUME NEW s \in Seq(Ids), NEW i \in Ids, i \notin Contents(s),
         \A k, l \in DOMAIN s : k # l => s[k] # s[l]
  PROVE  /\ Append(s, i) \in Seq(Ids)
         /\ Contents(Append(s, i)) = Contents(s) \cup {i}
         /\ \A k, l \in DOMAIN Append(s, i) : k # l => Append(s, i)[k] # Append(s, i)[l]
<1> DEFINE t == Append(s, i)
<1>1. /\ Len(s) \in Nat /\ DOMAIN s = 1 .. Len(s)
      /\ t \in Seq(Ids) /\ DOMAIN t = 1 .. (Len(s) + 1)
      /\ \A k \in DOMAIN s : t[k] = s[k]
      /\ t[Len(s) + 1] = i
      /\ \A k \in DOMAIN t : k \in DOMAIN s \/ k = Len(s) + 1
  OBVIOUS
<1> HIDE DEF t
<1>2. Contents(t) = Contents(s) \cup {i}
  <2>1. ASSUME NEW x \in Contents(t) PROVE x \in Contents(s) \cup {i}
    <3>1. PICK k \in DOMAIN t : x = t[k]
      BY DEF Contents
    <3> QED BY <1>1, <3>1 DEF Contents
  <2>2. ASSUME NEW x \in Contents(s) \cup {i} PROVE x \in Contents(t)
    <3>1. CASE x = i
      BY <1>1, <3>1 DEF Contents
    <3>2. CASE x \in Contents(s)
      <4>1. PICK k \in DOMAIN s : x = s[k]
        BY <3>2 DEF Contents
      <4>2. k \in DOMAIN t /\ t[k] = x
        BY <1>1, <4>1
      <4> QED BY <4>2 DEF Contents
    <3> QED BY <2>2, <3>1, <3>2
  <2> QED BY <2>1, <2>2
<1>3. \A k \in DOMAIN s : s[k] # i
  BY DEF Contents
<1>4. \A k, l \in DOMAIN t : k # l => t[k] # t[l]
  <2> TAKE k, l \in DOMAIN t
  <2>1. CASE k \in DOMAIN s /\ l \in DOMAIN s
    BY <1>1, <2>1
  <2>2. CASE k \in DOMAIN s /\ l = Len(s) + 1
    BY <1>1, <1>3, <2>2
  <2>3. CASE k = Len(s) + 1 /\ l \in DOMAIN s
    BY <1>1, <1>3, <2>3
  <2>4. CASE k = Len(s) + 1 /\ l = Len(s) + 1
    BY <2>4
  <2> QED BY <1>1, <2>1, <2>2, <2>3, <2>4
<1> QED BY <1>1, <1>2, <1>4 DEF t

-----------------------------------------------------------------------------
(* The steps of the node.                                                  *)

LEMMA InitHolds == Init => IInv
<1> SUFFICES ASSUME Init PROVE IInv
  OBVIOUS
<1> USE DEF Init
<1>1. /\ DOMAIN pdcs = {} /\ DOMAIN sessions = {} /\ DOMAIN freeIds = {}
      /\ \A p \in Peers : DOMAIN recv[p] = {}
      /\ freeIds \in Seq(Ids) /\ Contents(freeIds) = {}
  BY DEF Contents
<1>2. TypeOK
  BY <1>1 DEF TypeOK
<1>3. IdsAccountedFor
  BY <1>1 DEF IdsAccountedFor
<1> QED BY <1>1, <1>2, <1>3 DEF IInv, OneContextPerSession, FirstUseDelivers, UsedBefore,
                        NetFits, TakenFits

(* The id of a new context is free, and it is either a released one or one *)
(* that was never used.                                                    *)
LEMMA PickedIsFree ==
  ASSUME IInv, NEW i \in Ids, Pick(i)
  PROVE  /\ i \notin bitmap
         /\ freeIds' \in Seq(Ids)
         /\ Contents(freeIds') = Contents(freeIds) \ {i}
         /\ \A k, l \in DOMAIN freeIds' : k # l => freeIds'[k] # freeIds'[l]
         /\ i \in Contents(freeIds) \/ uses[i] = 0
<1>1. /\ freeIds \in Seq(Ids) /\ bitmap \cap Contents(freeIds) = {}
      /\ \A k, l \in DOMAIN freeIds : k # l => freeIds[k] # freeIds[l]
      /\ bitmap \cup Contents(freeIds) = {j \in Ids : uses[j] > 0}
      /\ uses[i] \in Nat
  BY DEF IInv, TypeOK, IdsAccountedFor
<1>2. CASE freeIds # <<>> /\ i = Head(freeIds) /\ freeIds' = Tail(freeIds)
  BY <1>1, <1>2, HeadLeaves
<1>3. CASE freeIds = <<>> /\ i \in Least(Scanned) /\ UNCHANGED freeIds
  <2>1. i \notin bitmap
    BY <1>3 DEF Least, Scanned, Ahead, Behind
  <2>2. Contents(freeIds) = {}
    BY <1>3 DEF Contents
  <2>3. ~(uses[i] > 0)
    BY <1>1, <2>1, <2>2
  <2> QED BY <1>1, <1>3, <2>1, <2>2, <2>3
<1> QED BY <1>2, <1>3 DEF Pick

LEMMA NewStep ==
  ASSUME IInv, NEW p \in Peers, NEW m \in Modes, DispatchNew(p, m)
  PROVE  IInv'
<1> PICK i \in Ids :
       /\ Pick(i)
       /\ pdcs' = [j \in DOMAIN pdcs \cup {i} |->
                     IF j = i THEN Opened(p, m, i) ELSE pdcs[j]]
       /\ bitmap' = bitmap \cup {i}
       /\ nextId' = i + 1
       /\ sessions' = [k \in DOMAIN sessions \cup Registered(p, m) |->
                         IF k = <<p, m>> THEN i ELSE sessions[k]]
       /\ uses' = [uses EXCEPT ![i] = @ + 1]
       /\ net' = net \cup {Data(i, Opened(p, m, i), 1)}
  BY DEF DispatchNew
<1> DEFINE c == Opened(p, m, i)
<1>1. /\ given' = given + 1 /\ <<p, m>> \notin DOMAIN sessions
      /\ UNCHANGED <<passive, recv, handed>>
  BY DEF DispatchNew
<1>2. TypeOK /\ IdsAccountedFor /\ OneContextPerSession /\ FirstUseDelivers
        /\ UsedBefore /\ NetFits /\ TakenFits
  BY DEF IInv
<1>3. /\ i \notin bitmap /\ i \notin DOMAIN pdcs
      /\ freeIds' \in Seq(Ids)
      /\ Contents(freeIds') = Contents(freeIds) \ {i}
      /\ \A k, l \in DOMAIN freeIds' : k # l => freeIds'[k] # freeIds'[l]
      /\ i \in Contents(freeIds) \/ uses[i] = 0
  BY <1>2, PickedIsFree DEF IdsAccountedFor
<1>4. /\ uses \in [Ids -> Nat] /\ uses' \in [Ids -> Nat]
      /\ uses'[i] = uses[i] + 1
      /\ \A j \in Ids : j # i => uses'[j] = uses[j]
  BY <1>2 DEF TypeOK
<1>5. /\ c \in Context /\ c.peer = p /\ c.mode = m /\ c.use = uses'[i]
      /\ c.next = 2 /\ c.base = 1 /\ c.queued = 0
  BY <1>4 DEF Opened, Context
<1>6. /\ Data(i, c, 1) \in DataPacket /\ Data(i, c, 1).type = "data"
      /\ Data(i, c, 1).id = i /\ (m \in Reliable => Data(i, c, 1).seq = 1)
  BY <1>5, DataType
<1>7. /\ DOMAIN pdcs' = DOMAIN pdcs \cup {i}
      /\ pdcs'[i] = c
      /\ \A j \in DOMAIN pdcs : j # i /\ pdcs'[j] = pdcs[j]
  BY <1>3
<1> HIDE DEF c
<1>8. /\ DOMAIN sessions' = DOMAIN sessions \cup Registered(p, m)
      /\ \A k \in DOMAIN sessions : k # <<p, m>> /\ sessions'[k] = sessions[k]
      /\ Registered(p, m) \subseteq {<<p, m>>} \cap Sessions
      /\ m \in Reliable => <<p, m>> \in DOMAIN sessions' /\ sessions'[<<p, m>>] = i
  BY <1>1 DEF Registered, Sessions
<1>9. net' = net \cup {Data(i, c, 1)}
  BY DEF c
<1>10. TypeOK'
  <2>1. DOMAIN pdcs' \subseteq Ids /\ \A j \in DOMAIN pdcs' : pdcs'[j] \in Context
    BY <1>2, <1>5, <1>7 DEF TypeOK
  <2>2. DOMAIN sessions' \subseteq Sessions /\ \A k \in DOMAIN sessions' : sessions'[k] \in Ids
    BY <1>2, <1>8 DEF TypeOK
  <2>3. net' \subseteq DataPacket \cup Control /\ handed' \subseteq net'
    BY <1>1, <1>2, <1>6, <1>9 DEF TypeOK
  <2>4. i + 1 \in Nat
    BY DEF Ids
  <2>5. bitmap' \subseteq Ids /\ nextId' \in Nat
    BY <1>2, <2>4 DEF TypeOK
  <2>6. /\ passive' \subseteq Peers \X Ids
        /\ DOMAIN recv' = Peers
        /\ \A r \in Peers : /\ DOMAIN recv'[r] \subseteq Ids
                            /\ \A j \in DOMAIN recv'[r] : recv'[r][j] \in ReceiveContext
        /\ given' \in Nat
    BY <1>1, <1>2 DEF TypeOK
  <2> QED BY <1>3, <1>4, <2>1, <2>2, <2>3, <2>5, <2>6 DEF TypeOK
<1>11. IdsAccountedFor'
  <2>1. \A j \in Ids : uses'[j] > 0 <=> j = i \/ uses[j] > 0
    BY <1>4
  <2>2. bitmap \cup Contents(freeIds) = {j \in Ids : uses[j] > 0}
    BY <1>2 DEF IdsAccountedFor
  <2>3. bitmap' \cup Contents(freeIds') = {j \in Ids : uses'[j] > 0}
    BY <1>3, <2>1, <2>2
  <2> QED BY <1>2, <1>3, <1>7, <2>3 DEF IdsAccountedFor
<1>12. OneContextPerSession'
  <2>1. ASSUME NEW k \in DOMAIN sessions'
        PROVE  /\ sessions'[k] \in DOMAIN pdcs'
               /\ k = <<pdcs'[sessions'[k]].peer, pdcs'[sessions'[k]].mode>>
    <3>1. CASE k \in DOMAIN sessions
      BY <1>2, <1>7, <1>8, <3>1 DEF OneContextPerSession
    <3>2. CASE k = <<p, m>>
      BY <1>1, <1>5, <1>7, <1>8, <2>1, <3>2 DEF Sessions
    <3> QED BY <1>8, <3>1, <3>2
  <2>2. ASSUME NEW j \in DOMAIN pdcs', pdcs'[j].mode \in Reliable
        PROVE  /\ <<pdcs'[j].peer, pdcs'[j].mode>> \in DOMAIN sessions'
               /\ sessions'[<<pdcs'[j].peer, pdcs'[j].mode>>] = j
    <3>1. CASE j = i
      BY <1>5, <1>7, <1>8, <2>2, <3>1
    <3>2. CASE j \in DOMAIN pdcs
      BY <1>2, <1>7, <1>8, <2>2, <3>2 DEF OneContextPerSession
    <3> QED BY <1>7, <3>1, <3>2
  <2> QED BY <2>1, <2>2 DEF OneContextPerSession
<1>13. ASSUME NEW j \in DOMAIN pdcs', Fresh(j)', j # i
       PROVE  /\ j \in DOMAIN pdcs /\ j \in Ids /\ pdcs'[j] = pdcs[j] /\ Fresh(j)
              /\ uses'[j] = uses[j]
  BY <1>2, <1>4, <1>7, <1>13 DEF Fresh, TypeOK
<1>14. ASSUME uses'[i] = 1
       PROVE  /\ \A q \in net : q.id # i
              /\ \A r \in Peers : i \notin DOMAIN recv[r]
  BY <1>2, <1>4, <1>14 DEF UsedBefore
<1>15. FirstUseDelivers'
  <2> SUFFICES ASSUME NEW j \in DOMAIN pdcs', pdcs'[j].mode \in Reliable, uses'[j] = 1
               PROVE  /\ \A s \in Confirmed(pdcs'[j]) : Data(j, pdcs'[j], s) \in handed'
                      /\ pdcs'[j].base <= pdcs'[j].next
                      /\ pdcs'[j].queued = 0
    BY DEF FirstUseDelivers
  <2>1. CASE j = i
    BY <1>5, <1>7, <2>1 DEF Confirmed
  <2>2. CASE j # i
    BY <1>1, <1>2, <1>13, <2>2 DEF Fresh, FirstUseDelivers
  <2> QED BY <2>1, <2>2
<1>16. UsedBefore'
  <2>1. \A j \in DOMAIN pdcs' : uses'[j] > 0 /\ pdcs'[j].use = uses'[j]
    BY <1>2, <1>4, <1>5, <1>7 DEF UsedBefore, TypeOK
  <2>2. \A q \in net : q.id \in Ids
    BY <1>2, PacketFields
  <2>3. \A q \in net' : uses'[q.id] > 0
    BY <1>2, <1>4, <1>6, <1>9, <2>2 DEF UsedBefore
  <2>4. \A r \in Peers : \A j \in DOMAIN recv'[r] : uses'[j] > 0
    BY <1>1, <1>2, <1>4 DEF UsedBefore, TypeOK
  <2> QED BY <2>1, <2>3, <2>4 DEF UsedBefore
<1>17. NetFits'
  <2> SUFFICES ASSUME NEW j \in DOMAIN pdcs', Fresh(j)'
               PROVE  /\ \A q \in net' : q.type = "data" /\ q.id = j =>
                           q.seq \in 1 .. (pdcs'[j].next - 1) /\ q = Data(j, pdcs'[j], q.seq)
                      /\ \A a \in net' : a.type = "control" /\ a.id = j =>
                           \A s \in 1 .. a.cum : Data(j, pdcs'[j], s) \in handed'
    BY DEF NetFits
  <2>1. CASE j = i
    <3>1. m \in Reliable /\ \A q \in net' : q.id = i => q = Data(i, c, 1)
      BY <1>5, <1>7, <1>9, <1>14, <2>1 DEF Fresh
    <3> QED BY <1>5, <1>6, <1>7, <2>1, <3>1
  <2>2. CASE j # i
    BY <1>1, <1>2, <1>6, <1>9, <1>13, <2>2 DEF NetFits
  <2> QED BY <2>1, <2>2
<1>18. TakenFits'
  <2> SUFFICES ASSUME NEW j \in DOMAIN pdcs', Fresh(j)', NEW r \in Peers, j \in DOMAIN recv[r]
               PROVE  \A s \in recv[r][j].taken : Data(j, pdcs'[j], s) \in handed
    BY <1>1 DEF TakenFits
  <2>1. CASE j = i
    BY <1>14, <2>1 DEF Fresh
  <2>2. CASE j # i
    BY <1>2, <1>13, <2>2 DEF TakenFits
  <2> QED BY <2>1, <2>2
<1> QED BY <1>10, <1>11, <1>12, <1>15, <1>16, <1>17, <1>18 DEF IInv

(* A context that changes its window only, and packets of its own: what    *)
(* the steps of an existing context have in common.                        *)
LEMMA WindowStep ==
  ASSUME IInv, NEW i \in DOMAIN pdcs, NEW d \in Context,
         d.peer = pdcs[i].peer, d.mode = pdcs[i].mode, d.use = pdcs[i].use,
         d.next >= pdcs[i].next,
         pdcs' = [pdcs EXCEPT ![i] = d],
         net' = net \cup {Data(i, pdcs[i], s) : s \in pdcs[i].next .. (d.next - 1)},
         Fresh(i) => /\ d.base <= d.next
                     /\ d.queued = 0
                     /\ \A s \in Confirmed(d) : Data(i, pdcs[i], s) \in handed,
         passive' \subseteq Peers \X Ids, given' \in Nat,
         UNCHANGED <<idVars, recv, handed>>
  PROVE  IInv'
<1>1. TypeOK /\ IdsAccountedFor /\ OneContextPerSession /\ FirstUseDelivers
        /\ UsedBefore /\ NetFits /\ TakenFits
  BY DEF IInv
<1>2. /\ DOMAIN pdcs' = DOMAIN pdcs /\ pdcs'[i] = d
      /\ \A j \in DOMAIN pdcs : j # i => pdcs'[j] = pdcs[j]
      /\ \A j \in DOMAIN pdcs : /\ pdcs'[j].peer = pdcs[j].peer
                                /\ pdcs'[j].mode = pdcs[j].mode
                                /\ pdcs'[j].use = pdcs[j].use
  OBVIOUS
<1>3. /\ i \in Ids /\ pdcs[i] \in Context
      /\ pdcs[i].next \in Nat /\ d.next \in Nat /\ pdcs[i].next >= 1
  BY <1>1 DEF TypeOK, Context
<1>4. UNCHANGED <<bitmap, freeIds, nextId, sessions, uses, recv, handed>>
  BY DEF idVars
<1>5. \A s : Data(i, pdcs[i], s) = Data(i, d, s)
  BY <1>3, DataOfContext
<1>6. \A q \in net' : \/ q \in net
                      \/ \E s \in pdcs[i].next .. (d.next - 1) : q = Data(i, d, s)
  BY <1>5
<1>7. \A s \in pdcs[i].next .. (d.next - 1) :
        /\ Data(i, d, s) \in DataPacket
        /\ Data(i, d, s).type = "data"
        /\ Data(i, d, s).id = i
        /\ d.mode \in Reliable => Data(i, d, s).seq = s
  <2> TAKE s \in pdcs[i].next .. (d.next - 1)
  <2>1. s \in Nat
    BY <1>3
  <2> QED BY <1>3, <2>1, DataType
<1>8. TypeOK'
  <2>1. \A j \in DOMAIN pdcs' : pdcs'[j] \in Context
    BY <1>1, <1>2 DEF TypeOK
  <2>2. net' \subseteq DataPacket \cup Control /\ handed' \subseteq net'
    BY <1>1, <1>4, <1>6, <1>7 DEF TypeOK
  <2> QED BY <1>1, <1>2, <1>4, <2>1, <2>2 DEF TypeOK
<1>9. IdsAccountedFor' /\ OneContextPerSession'
  BY <1>1, <1>2, <1>4 DEF IdsAccountedFor, OneContextPerSession
<1>10. \A j \in DOMAIN pdcs : Fresh(j)' <=> Fresh(j)
  BY <1>2, <1>4 DEF Fresh
<1>11. FirstUseDelivers'
  <2> SUFFICES ASSUME NEW j \in DOMAIN pdcs, pdcs'[j].mode \in Reliable, uses'[j] = 1
               PROVE  /\ \A s \in Confirmed(pdcs'[j]) : Data(j, pdcs'[j], s) \in handed'
                      /\ pdcs'[j].base <= pdcs'[j].next
                      /\ pdcs'[j].queued = 0
    BY <1>2 DEF FirstUseDelivers
  <2>1. Fresh(j)
    BY <1>2, <1>4 DEF Fresh
  <2>2. CASE j = i
    BY <1>2, <1>4, <1>5, <2>1, <2>2
  <2>3. CASE j # i
    BY <1>1, <1>2, <1>4, <2>1, <2>3 DEF FirstUseDelivers, Fresh
  <2> QED BY <2>2, <2>3
<1>12. UsedBefore'
  <2>1. \A q \in net' : uses[q.id] > 0
    BY <1>1, <1>6, <1>7 DEF UsedBefore
  <2> QED BY <1>1, <1>2, <1>4, <2>1 DEF UsedBefore
<1>13. NetFits'
  <2> SUFFICES ASSUME NEW j \in DOMAIN pdcs, Fresh(j)
               PROVE  /\ \A q \in net' : q.type = "data" /\ q.id = j =>
                           q.seq \in 1 .. (pdcs'[j].next - 1) /\ q = Data(j, pdcs'[j], q.seq)
                      /\ \A a \in net' : a.type = "control" /\ a.id = j =>
                           \A s \in 1 .. a.cum : Data(j, pdcs'[j], s) \in handed
    BY <1>2, <1>4, <1>10 DEF NetFits
  <2>1. \A s : Data(j, pdcs'[j], s) = Data(j, pdcs[j], s)
    BY <1>2, <1>5
  <2>2. /\ \A q \in net : q.type = "data" /\ q.id = j =>
             q.seq \in 1 .. (pdcs[j].next - 1) /\ q = Data(j, pdcs[j], q.seq)
        /\ \A a \in net : a.type = "control" /\ a.id = j =>
             \A s \in 1 .. a.cum : Data(j, pdcs[j], s) \in handed
    BY <1>1 DEF NetFits
  <2>3. CASE j = i
    <3>1. d.mode \in Reliable
      BY <2>3 DEF Fresh
    <3>2. ASSUME NEW q \in net', q.type = "data", q.id = i
          PROVE  q.seq \in 1 .. (d.next - 1) /\ q = Data(i, d, q.seq)
      <4>1. CASE q \in net
        <5>1. q.seq \in 1 .. (pdcs[i].next - 1) /\ q = Data(i, pdcs[i], q.seq)
          BY <2>2, <2>3, <3>2, <4>1
        <5> QED BY <1>3, <1>5, <5>1
      <4>2. CASE \E s \in pdcs[i].next .. (d.next - 1) : q = Data(i, d, s)
        BY <1>3, <1>7, <3>1, <4>2
      <4> QED BY <1>6, <4>1, <4>2
    <3>3. \A a \in net' : a.type = "control" => a \in net
      BY <1>6, <1>7
    <3> QED BY <1>2, <2>1, <2>2, <2>3, <3>2, <3>3
  <2>4. CASE j # i
    BY <1>2, <1>6, <1>7, <2>2, <2>4
  <2> QED BY <2>3, <2>4
<1>14. TakenFits'
  <2> SUFFICES ASSUME NEW j \in DOMAIN pdcs, Fresh(j), NEW r \in Peers, j \in DOMAIN recv[r],
                      NEW s \in recv[r][j].taken
               PROVE  Data(j, pdcs'[j], s) \in handed
    BY <1>2, <1>4, <1>10 DEF TakenFits
  <2>1. Data(j, pdcs'[j], s) = Data(j, pdcs[j], s)
    BY <1>2, <1>5
  <2> QED BY <1>1, <2>1 DEF TakenFits
<1> QED BY <1>8, <1>9, <1>11, <1>12, <1>13, <1>14 DEF IInv

LEMMA AgainStep ==
  ASSUME IInv, NEW k \in DOMAIN sessions, DispatchAgain(k)
  PROVE  IInv'
<1> DEFINE i == sessions[k]
           c == pdcs[i]
<1>1. /\ i \in DOMAIN pdcs /\ i \in Ids /\ c \in Context
      /\ passive \subseteq Peers \X Ids /\ given \in Nat
  BY DEF IInv, TypeOK, OneContextPerSession
<1>2. /\ given' = given + 1 /\ passive' = passive
      /\ UNCHANGED <<idVars, recv, handed>>
      /\ \/ /\ c.next >= c.base
            /\ pdcs' = [pdcs EXCEPT ![i].next = @ + 1]
            /\ net' = net \cup {Data(i, c, c.next)}
         \/ /\ c.next < c.base
            /\ pdcs' = [pdcs EXCEPT ![i].queued = @ + 1]
            /\ net' = net
  BY DEF DispatchAgain
<1>3. Fresh(i) => /\ \A s \in Confirmed(c) : Data(i, c, s) \in handed
                  /\ c.base <= c.next
                  /\ c.queued = 0
  BY DEF IInv, FirstUseDelivers, Fresh
<1>4. c.next \in Nat /\ c.base \in Nat /\ c.queued \in Nat /\ c.next >= 1
  BY <1>1 DEF Context
<1>7. passive' \subseteq Peers \X Ids /\ given' \in Nat /\ UNCHANGED <<idVars, recv, handed>>
  BY <1>1, <1>2
<1> HIDE DEF i
<1>5. CASE c.next >= c.base /\ pdcs' = [pdcs EXCEPT ![i].next = @ + 1]
             /\ net' = net \cup {Data(i, c, c.next)}
  <2> DEFINE d == [c EXCEPT !.next = @ + 1]
  <2>1. /\ d \in Context /\ d.peer = c.peer /\ d.mode = c.mode /\ d.use = c.use
        /\ d.next = c.next + 1 /\ d.base = c.base /\ d.queued = c.queued
    BY <1>1, <1>4 DEF Context
  <2>2. pdcs' = [pdcs EXCEPT ![i] = d]
    BY <1>1, <1>5
  <2>3. c.next .. (d.next - 1) = {c.next}
    BY <1>4, <2>1
  <2>4. net' = net \cup {Data(i, c, s) : s \in c.next .. (d.next - 1)}
    BY <1>5, <2>3
  <2>5. Fresh(i) => /\ d.base <= d.next
                    /\ d.queued = 0
                    /\ \A s \in Confirmed(d) : Data(i, c, s) \in handed
    <3>1. c.base <= c.next => \A s \in Confirmed(d) : s \in Confirmed(c)
      BY <1>4, <2>1 DEF Confirmed
    <3> QED BY <1>3, <1>4, <2>1, <3>1
  <2> HIDE DEF d
  <2>6. d.next >= pdcs[i].next
    BY <1>4, <2>1
  <2> QED BY <1>1, <1>7, <2>1, <2>2, <2>4, <2>5, <2>6, WindowStep
<1>6. CASE c.next < c.base /\ pdcs' = [pdcs EXCEPT ![i].queued = @ + 1] /\ net' = net
  <2> DEFINE d == [c EXCEPT !.queued = @ + 1]
  <2>1. /\ d \in Context /\ d.peer = c.peer /\ d.mode = c.mode /\ d.use = c.use
        /\ d.next = c.next
    BY <1>1, <1>4 DEF Context
  <2>2. pdcs' = [pdcs EXCEPT ![i] = d]
    BY <1>1, <1>6
  <2>3. c.next .. (d.next - 1) = {}
    BY <1>4, <2>1
  <2>4. net' = net \cup {Data(i, c, s) : s \in c.next .. (d.next - 1)}
    BY <1>6, <2>3
  <2>5. ~Fresh(i)
    BY <1>3, <1>4, <1>6
  <2> HIDE DEF d
  <2>6. d.next >= pdcs[i].next
    BY <1>4, <2>1
  <2> QED BY <1>1, <1>7, <2>1, <2>2, <2>4, <2>5, <2>6, WindowStep
<1> QED BY <1>2, <1>5, <1>6

(* A step that changes the node's own receive contexts only.               *)
LEMMA PassiveStep ==
  ASSUME IInv, passive' \subseteq Peers \X Ids,
         UNCHANGED <<pdcs, idVars, recv, net, given, handed>>
  PROVE  IInv'
<1>1. UNCHANGED <<pdcs, bitmap, freeIds, nextId, sessions, uses, recv, net, given, handed>>
  BY DEF idVars
<1>2. TypeOK'
  BY <1>1 DEF IInv, TypeOK
<1>3. IdsAccountedFor' /\ OneContextPerSession' /\ UsedBefore'
  BY <1>1 DEF IInv, IdsAccountedFor, OneContextPerSession, UsedBefore
<1>4. FirstUseDelivers' /\ NetFits' /\ TakenFits'
  BY <1>1 DEF IInv, FirstUseDelivers, NetFits, TakenFits, Fresh
<1> QED BY <1>2, <1>3, <1>4 DEF IInv

LEMMA ControlStep ==
  ASSUME IInv, NEW a \in net, a.type = "control", ReceiveControl(a)
  PROVE  IInv'
<1>1. TypeOK /\ NetFits /\ FirstUseDelivers
  BY DEF IInv
<1>2. a.id \in Ids /\ a.from \in Peers /\ a.cum \in Nat
  BY <1>1, PacketFields
<1>3. passive' \subseteq Peers \X Ids
  <2>1. passive \cup {<<a.from, a.id>>} \subseteq Peers \X Ids
    BY <1>1, <1>2 DEF TypeOK
  <2> QED BY <2>1 DEF ReceiveControl, EnsureOwn
<1>4. UNCHANGED <<idVars, recv, given, handed>> /\ given' \in Nat
  BY <1>1 DEF ReceiveControl, TypeOK
<1>5. CASE UNCHANGED <<pdcs, net>>
  BY <1>3, <1>4, <1>5, PassiveStep
<1>6. CASE /\ a.id \in DOMAIN pdcs /\ pdcs[a.id].mode \in Reliable
           /\ LET c == pdcs[a.id]
                  d == Advanced(c, a.cum) IN
                /\ pdcs' = [pdcs EXCEPT ![a.id] = d]
                /\ net' = net \cup {Data(a.id, c, s) : s \in c.next .. (d.next - 1)}
  <2> DEFINE i == a.id
             c == pdcs[i]
             d == Advanced(c, a.cum)
             to == MaxOf(c.base, a.cum + 1)
  <2>1. c \in Context
    BY <1>1, <1>6 DEF TypeOK
  <2>2. c.next \in Nat /\ c.base \in Nat /\ c.queued \in Nat /\ c.next >= 1 /\ c.base >= 1
    BY <2>1 DEF Context
  <2>3. to \in Nat \ {0} /\ to >= c.base /\ to >= a.cum + 1 /\ (to = c.base \/ to = a.cum + 1)
    BY <1>2, <2>2 DEF MaxOf
  <2> HIDE DEF to
  <2>4. /\ d = IF c.next >= to
                 THEN [c EXCEPT !.base = to, !.next = @ + c.queued, !.queued = 0]
                 ELSE [c EXCEPT !.base = to]
    BY DEF Advanced, to
  <2>5. /\ d \in Context /\ d.peer = c.peer /\ d.mode = c.mode /\ d.use = c.use
        /\ d.base = to /\ d.next >= c.next
        /\ c.next >= to => d.next = c.next + c.queued /\ d.queued = 0
    <3>1. CASE c.next >= to
      <4>1. /\ d.peer = c.peer /\ d.mode = c.mode /\ d.use = c.use
            /\ d.base = to /\ d.next = c.next + c.queued /\ d.queued = 0
        BY <2>1, <2>4, <3>1 DEF Context
      <4>2. c.next + c.queued \in Nat \ {0} /\ c.next + c.queued >= c.next
        BY <2>2
      <4>3. d = [peer |-> c.peer, mode |-> c.mode, use |-> c.use,
                 next |-> c.next + c.queued, base |-> to, queued |-> 0]
        BY <2>1, <2>4, <3>1 DEF Context
      <4>4. d \in Context
        BY <2>1, <2>3, <4>2, <4>3 DEF Context
      <4> QED BY <4>1, <4>2, <4>4
    <3>2. CASE ~(c.next >= to)
      <4>1. d = [peer |-> c.peer, mode |-> c.mode, use |-> c.use,
                 next |-> c.next, base |-> to, queued |-> c.queued]
        BY <2>1, <2>4, <3>2 DEF Context
      <4>2. d \in Context
        BY <2>1, <2>2, <2>3, <4>1 DEF Context
      <4> QED BY <2>2, <3>2, <4>1, <4>2
    <3> QED BY <3>1, <3>2
  <2>6. Fresh(i) => /\ d.base <= d.next
                    /\ d.queued = 0
                    /\ \A s \in Confirmed(d) : Data(i, c, s) \in handed
    <3> SUFFICES ASSUME Fresh(i)
                 PROVE  /\ d.base <= d.next
                        /\ d.queued = 0
                        /\ \A s \in Confirmed(d) : Data(i, c, s) \in handed
      OBVIOUS
    <3>1. /\ \A s \in Confirmed(c) : Data(i, c, s) \in handed
          /\ c.base <= c.next /\ c.queued = 0
      BY <1>1 DEF FirstUseDelivers, Fresh
    <3>2. \A s \in 1 .. a.cum : Data(i, c, s) \in handed
      BY <1>1, <1>6 DEF NetFits
    <3>3. a.cum + 1 <= c.next
      <4>1. CASE a.cum = 0
        BY <2>2, <4>1
      <4>2. CASE a.cum # 0
        <5>1. a.cum \in 1 .. a.cum
          BY <1>2, <4>2
        <5>2. Data(i, c, a.cum) \in net
          BY <1>1, <3>2, <5>1 DEF TypeOK
        <5>3. /\ Data(i, c, a.cum).type = "data" /\ Data(i, c, a.cum).id = i
              /\ Data(i, c, a.cum).seq = a.cum
          BY <1>2, <1>6, <2>1, DataType
        <5>4. a.cum \in 1 .. (c.next - 1)
          BY <1>1, <1>6, <5>2, <5>3 DEF NetFits
        <5> QED BY <1>2, <2>2, <5>4
      <4> QED BY <4>1, <4>2
    <3>4. c.next >= to /\ d.next = c.next
      BY <1>2, <2>2, <2>3, <2>5, <3>1, <3>3
    <3>5. ASSUME NEW s \in Confirmed(d) PROVE Data(i, c, s) \in handed
      <4>1. s \in 1 .. (c.next - 1) /\ s < to
        BY <2>5, <3>4 DEF Confirmed
      <4>2. CASE s < c.base
        BY <3>1, <4>1, <4>2 DEF Confirmed
      <4>3. CASE ~(s < c.base)
        <5>1. s \in 1 .. a.cum
          BY <1>2, <2>2, <2>3, <4>1, <4>3
        <5> QED BY <3>2, <5>1
      <4> QED BY <4>2, <4>3
    <3> QED BY <2>2, <2>5, <3>4, <3>5
  <2>7. /\ pdcs' = [pdcs EXCEPT ![i] = d]
        /\ net' = net \cup {Data(i, pdcs[i], s) : s \in pdcs[i].next .. (d.next - 1)}
        /\ i \in DOMAIN pdcs
    BY <1>6
  <2> HIDE DEF d, i
  <2> QED BY <1>3, <1>4, <2>5, <2>6, <2>7, WindowStep
<1> QED BY <1>5, <1>6 DEF ReceiveControl

LEMMA ReleaseStep ==
  ASSUME IInv, NEW i \in DOMAIN pdcs, ReleasePdc(i)
  PROVE  IInv'
<1>1. TypeOK /\ IdsAccountedFor /\ OneContextPerSession /\ FirstUseDelivers
        /\ UsedBefore /\ NetFits /\ TakenFits
  BY DEF IInv
<1>2. /\ pdcs' = [j \in DOMAIN pdcs \ {i} |-> pdcs[j]]
      /\ sessions' = [k \in {l \in DOMAIN sessions : sessions[l] # i} |-> sessions[k]]
      /\ bitmap' = bitmap \ {i}
      /\ freeIds' = Append(freeIds, i)
      /\ UNCHANGED <<nextId, uses, passive, recv, net, given, handed>>
  BY DEF ReleasePdc
<1>3. /\ DOMAIN pdcs' = DOMAIN pdcs \ {i}
      /\ \A j \in DOMAIN pdcs' : pdcs'[j] = pdcs[j]
      /\ DOMAIN sessions' = {l \in DOMAIN sessions : sessions[l] # i}
      /\ \A k \in DOMAIN sessions' : sessions'[k] = sessions[k]
  BY <1>2
<1>4. i \in Ids /\ i \in bitmap /\ i \notin Contents(freeIds) /\ freeIds \in Seq(Ids)
  BY <1>1 DEF TypeOK, IdsAccountedFor
<1>5. /\ freeIds' \in Seq(Ids)
      /\ Contents(freeIds') = Contents(freeIds) \cup {i}
      /\ \A k, l \in DOMAIN freeIds' : k # l => freeIds'[k] # freeIds'[l]
  BY <1>1, <1>2, <1>4, AppendJoins DEF IdsAccountedFor
<1>6. TypeOK'
  BY <1>1, <1>2, <1>3, <1>5 DEF TypeOK
<1>7. IdsAccountedFor'
  BY <1>1, <1>2, <1>3, <1>4, <1>5 DEF IdsAccountedFor
<1>8. OneContextPerSession'
  <2>1. ASSUME NEW k \in DOMAIN sessions'
        PROVE  /\ sessions'[k] \in DOMAIN pdcs'
               /\ k = <<pdcs'[sessions'[k]].peer, pdcs'[sessions'[k]].mode>>
    BY <1>1, <1>3 DEF OneContextPerSession
  <2>2. ASSUME NEW j \in DOMAIN pdcs', pdcs'[j].mode \in Reliable
        PROVE  /\ <<pdcs'[j].peer, pdcs'[j].mode>> \in DOMAIN sessions'
               /\ sessions'[<<pdcs'[j].peer, pdcs'[j].mode>>] = j
    BY <1>1, <1>3, <2>2 DEF OneContextPerSession
  <2> QED BY <2>1, <2>2 DEF OneContextPerSession
<1>9. \A j \in DOMAIN pdcs' : Fresh(j)' <=> Fresh(j)
  BY <1>2, <1>3 DEF Fresh
<1>10. FirstUseDelivers'
  BY <1>1, <1>2, <1>3 DEF FirstUseDelivers
<1>11. UsedBefore'
  BY <1>1, <1>2, <1>3 DEF UsedBefore
<1>12. NetFits' /\ TakenFits'
  BY <1>1, <1>2, <1>3, <1>9 DEF NetFits, TakenFits
<1> QED BY <1>6, <1>7, <1>8, <1>10, <1>11, <1>12 DEF IInv

-----------------------------------------------------------------------------
(* The steps of the peers.                                                 *)

(* A step of a peer: it changes receive contexts, adds true acknowledgments*)
(* to the network and passes packets of the network up.                    *)
LEMMA PeerStep ==
  ASSUME IInv,
         UNCHANGED <<pdcs, idVars, passive, given>>,
         net \subseteq net', handed \subseteq handed', handed' \subseteq net',
         \A a \in net' : a \in net \/ (/\ a \in Control /\ a.type = "control"
                                       /\ uses[a.id] > 0
                                       /\ Fresh(a.id) => \A s \in 1 .. a.cum :
                                            Data(a.id, pdcs[a.id], s) \in handed),
         DOMAIN recv' = Peers,
         \A p \in Peers : \A j \in DOMAIN recv'[p] :
           /\ j \in Ids /\ recv'[p][j] \in ReceiveContext
           /\ uses[j] > 0
           /\ Fresh(j) => \A s \in recv'[p][j].taken : Data(j, pdcs[j], s) \in handed'
  PROVE  IInv'
<1>1. TypeOK /\ IdsAccountedFor /\ OneContextPerSession /\ FirstUseDelivers
        /\ UsedBefore /\ NetFits /\ TakenFits
  BY DEF IInv
<1>2. UNCHANGED <<pdcs, bitmap, freeIds, nextId, sessions, uses, passive, given>>
  BY DEF idVars
<1>3. TypeOK'
  <2>1. net' \subseteq DataPacket \cup Control
    BY <1>1 DEF TypeOK
  <2>2. \A p \in Peers : /\ DOMAIN recv'[p] \subseteq Ids
                         /\ \A j \in DOMAIN recv'[p] : recv'[p][j] \in ReceiveContext
    OBVIOUS
  <2> QED BY <1>1, <1>2, <2>1, <2>2 DEF TypeOK
<1>4. IdsAccountedFor' /\ OneContextPerSession'
  BY <1>1, <1>2 DEF IdsAccountedFor, OneContextPerSession
<1>5. \A j : Fresh(j)' <=> Fresh(j)
  BY <1>2 DEF Fresh
<1>6. FirstUseDelivers'
  <2> SUFFICES ASSUME NEW j \in DOMAIN pdcs, pdcs[j].mode \in Reliable, uses[j] = 1
               PROVE  /\ \A s \in Confirmed(pdcs[j]) : Data(j, pdcs[j], s) \in handed'
                      /\ pdcs[j].base <= pdcs[j].next
                      /\ pdcs[j].queued = 0
    BY <1>2 DEF FirstUseDelivers
  <2> QED BY <1>1 DEF FirstUseDelivers
<1>7. UsedBefore'
  BY <1>1, <1>2 DEF UsedBefore
<1>8. NetFits'
  <2> SUFFICES ASSUME NEW j \in DOMAIN pdcs, Fresh(j)
               PROVE  /\ \A q \in net' : q.type = "data" /\ q.id = j =>
                           q.seq \in 1 .. (pdcs[j].next - 1) /\ q = Data(j, pdcs[j], q.seq)
                      /\ \A a \in net' : a.type = "control" /\ a.id = j =>
                           \A s \in 1 .. a.cum : Data(j, pdcs[j], s) \in handed'
    BY <1>2, <1>5 DEF NetFits
  <2>1. \A q \in net' : q.type = "data" => q \in net
    OBVIOUS
  <2> QED BY <1>1, <2>1 DEF NetFits
<1>9. TakenFits'
  <2> SUFFICES ASSUME NEW j \in DOMAIN pdcs, Fresh(j), NEW p \in Peers, j \in DOMAIN recv'[p]
               PROVE  \A s \in recv'[p][j].taken : Data(j, pdcs[j], s) \in handed'
    BY <1>2, <1>5 DEF TakenFits
  <2> QED OBVIOUS
<1> QED BY <1>3, <1>4, <1>6, <1>7, <1>8, <1>9 DEF IInv

LEMMA DataStep ==
  ASSUME IInv, NEW q \in net, q.type = "data", ReceiveData(q)
  PROVE  IInv'
<1> DEFINE old == recv[q.to]
           has == Ensured(q)
           t   == recv'[q.to]
<1>1. TypeOK /\ UsedBefore /\ NetFits /\ TakenFits
  BY DEF IInv
<1>2. q.id \in Ids /\ q.to \in Peers /\ q.seq \in Nat /\ q.reliable \in BOOLEAN
        /\ uses[q.id] > 0
  BY <1>1, PacketFields DEF UsedBefore
<1>3. /\ handed' = handed \cup {q}
      /\ UNCHANGED <<pdcs, idVars, passive, net, given>>
      /\ recv' = [recv EXCEPT ![q.to] =
               IF q.id \in DOMAIN has /\ has[q.id].reliable
                 THEN [has EXCEPT ![q.id] = Taken(has[q.id], q)]
                 ELSE has]
  BY DEF ReceiveData, Take
<1>4. DOMAIN recv = Peers /\ handed \subseteq net
  BY <1>1 DEF TypeOK
<1>5. \A j \in DOMAIN has :
        /\ j \in Ids /\ has[j] \in ReceiveContext
        /\ \/ j \in DOMAIN old /\ has[j] = old[j]
           \/ j = q.id /\ has[j].taken = {}
  <2>1. DOMAIN old \subseteq Ids /\ \A j \in DOMAIN old : old[j] \in ReceiveContext
    BY <1>1, <1>2 DEF TypeOK
  <2>2. [reliable |-> q.reliable, taken |-> {}, ackDue |-> FALSE] \in ReceiveContext
    BY <1>2 DEF ReceiveContext
  <2>3. CASE has = old
    BY <2>1, <2>3
  <2>4. CASE has = [j \in DOMAIN old \cup {q.id} |->
            IF j = q.id THEN [reliable |-> q.reliable, taken |-> {}, ackDue |-> FALSE]
            ELSE old[j]]
    BY <1>2, <2>1, <2>2, <2>4
  <2> QED BY <2>3, <2>4 DEF Ensured
<1> HIDE DEF has
<1> DEFINE e == Taken(has[q.id], q)
           w == IF q.id \in DOMAIN has /\ has[q.id].reliable
                  THEN [has EXCEPT ![q.id] = e] ELSE has
<1>5a. recv' = [recv EXCEPT ![q.to] = w]
  BY <1>3
<1> HIDE DEF w
<1>5b. t = w
  BY <1>2, <1>4, <1>5a
<1>6. \A j \in DOMAIN t :
        /\ j \in DOMAIN has
        /\ t[j] \in ReceiveContext
        /\ t[j].taken \subseteq has[j].taken \cup (IF j = q.id THEN {q.seq} ELSE {})
  <2>1. CASE q.id \in DOMAIN has /\ has[q.id].reliable
    <3>1. t = [has EXCEPT ![q.id] = e]
      BY <1>5b, <2>1, Zenon DEF w
    <3>2. has[q.id] \in ReceiveContext
      BY <1>5, <2>1
    <3>3. /\ e \in ReceiveContext
          /\ e.taken = has[q.id].taken \cup ({q.seq} \ {0})
      BY <1>2, <3>2 DEF ReceiveContext, Taken
    <3> HIDE DEF e
    <3> QED BY <1>5, <2>1, <3>1, <3>3
  <2>2. CASE ~(q.id \in DOMAIN has /\ has[q.id].reliable)
    <3>1. t = has
      BY <1>5b, <2>2, Zenon DEF w
    <3> QED BY <1>5, <3>1
  <2> QED BY <2>1, <2>2
<1>7. DOMAIN recv' = Peers /\ \A p \in Peers : p # q.to => recv'[p] = recv[p]
  BY <1>3, <1>4
<1> HIDE DEF t
<1>8. ASSUME NEW p \in Peers, NEW j \in DOMAIN recv'[p]
      PROVE  /\ j \in Ids /\ recv'[p][j] \in ReceiveContext
             /\ uses[j] > 0
             /\ Fresh(j) => \A s \in recv'[p][j].taken : Data(j, pdcs[j], s) \in handed'
  <2>1. CASE p # q.to
    <3>1. j \in DOMAIN recv[p] /\ recv'[p][j] = recv[p][j]
      BY <1>7, <1>8, <2>1
    <3>2. Fresh(j) => \A s \in recv[p][j].taken : Data(j, pdcs[j], s) \in handed
      BY <1>1, <3>1 DEF TakenFits, Fresh
    <3> QED BY <1>1, <1>3, <3>1, <3>2 DEF TypeOK, UsedBefore
  <2>2. CASE p = q.to
    <3>1. /\ j \in DOMAIN has /\ recv'[p][j] \in ReceiveContext
          /\ recv'[p][j].taken \subseteq has[j].taken \cup (IF j = q.id THEN {q.seq} ELSE {})
      BY <1>6, <1>8, <2>2 DEF t
    <3>2. j \in Ids /\ uses[j] > 0
      BY <1>1, <1>2, <1>5, <3>1 DEF UsedBefore
    <3>3. ASSUME Fresh(j), NEW s \in recv'[p][j].taken
          PROVE  Data(j, pdcs[j], s) \in handed'
      <4>1. CASE s \in has[j].taken
        <5>1. j \in DOMAIN old /\ s \in old[j].taken
          BY <1>5, <3>1, <4>1
        <5> QED BY <1>1, <1>2, <1>3, <3>3, <5>1 DEF TakenFits, Fresh
      <4>2. CASE j = q.id /\ s = q.seq
        <5>1. q = Data(j, pdcs[j], s)
          BY <1>1, <3>3, <4>2 DEF NetFits, Fresh
        <5> QED BY <1>3, <5>1
      <4> QED BY <3>1, <3>3, <4>1, <4>2
    <3> QED BY <3>1, <3>2, <3>3
  <2> QED BY <2>1, <2>2
<1>9. /\ handed \subseteq handed' /\ handed' \subseteq net'
      /\ net \subseteq net' /\ \A a \in net' : a \in net
  BY <1>3, <1>4
<1>10. UNCHANGED <<pdcs, idVars, passive, given>>
  BY <1>3
<1> QED BY <1>7, <1>8, <1>9, <1>10, PeerStep

LEMMA AcknowledgeStep ==
  ASSUME IInv, NEW p \in Peers, NEW i \in DOMAIN recv[p], Acknowledge(p, i)
  PROVE  IInv'
<1>1. TypeOK /\ UsedBefore /\ TakenFits
  BY DEF IInv
<1>2. PICK n \in {0} \cup recv[p][i].taken :
        /\ 1 .. n \subseteq recv[p][i].taken
        /\ net' = net \cup {[type |-> "control", from |-> p, id |-> i, cum |-> n]}
  BY DEF Acknowledge
<1>3. /\ recv' = [recv EXCEPT ![p][i].ackDue = FALSE]
      /\ UNCHANGED <<pdcs, idVars, passive, given, handed>>
  BY DEF Acknowledge
<1>4. /\ DOMAIN recv = Peers /\ i \in Ids /\ recv[p][i] \in ReceiveContext
      /\ handed \subseteq net /\ uses[i] > 0
  BY <1>1 DEF TypeOK, UsedBefore
<1>5. n \in Nat
  BY <1>2, <1>4 DEF ReceiveContext
<1> DEFINE a == [type |-> "control", from |-> p, id |-> i, cum |-> n]
<1>6. a \in Control /\ a.type = "control" /\ a.id = i /\ a.cum = n
  BY <1>4, <1>5 DEF Control
<1>7. Fresh(i) => \A s \in 1 .. n : Data(i, pdcs[i], s) \in handed
  BY <1>1, <1>2 DEF TakenFits, Fresh
<1>8. \A b \in net' : b \in net \/ b = a
  BY <1>2
<1>9. \A b \in net' : b \in net \/ (/\ b \in Control /\ b.type = "control"
                                    /\ uses[b.id] > 0
                                    /\ Fresh(b.id) => \A s \in 1 .. b.cum :
                                         Data(b.id, pdcs[b.id], s) \in handed)
  BY <1>4, <1>6, <1>7, <1>8
<1>10. DOMAIN recv' = Peers
  BY <1>3, <1>4
<1>11. ASSUME NEW r \in Peers, NEW j \in DOMAIN recv'[r]
       PROVE  /\ j \in DOMAIN recv[r] /\ recv'[r][j] \in ReceiveContext
              /\ recv'[r][j].taken = recv[r][j].taken
  <2>1. j \in DOMAIN recv[r] /\ recv[r][j] \in ReceiveContext
    BY <1>1, <1>3, <1>4, <1>11 DEF TypeOK
  <2>2. \/ recv'[r][j] = recv[r][j]
        \/ recv'[r][j] = [recv[r][j] EXCEPT !.ackDue = FALSE]
    BY <1>3, <1>4, <2>1
  <2> QED BY <2>1, <2>2 DEF ReceiveContext
<1>12. \A r \in Peers : \A j \in DOMAIN recv'[r] :
         /\ j \in Ids /\ recv'[r][j] \in ReceiveContext
         /\ uses[j] > 0
         /\ Fresh(j) => \A s \in recv'[r][j].taken : Data(j, pdcs[j], s) \in handed'
  <2> SUFFICES ASSUME NEW r \in Peers, NEW j \in DOMAIN recv'[r]
               PROVE  /\ j \in Ids /\ recv'[r][j] \in ReceiveContext
                      /\ uses[j] > 0
                      /\ Fresh(j) => \A s \in recv'[r][j].taken : Data(j, pdcs[j], s) \in handed'
    OBVIOUS
  <2>1. /\ j \in DOMAIN recv[r] /\ recv'[r][j] \in ReceiveContext
        /\ recv'[r][j].taken = recv[r][j].taken
    BY <1>11
  <2>2. Fresh(j) => \A s \in recv[r][j].taken : Data(j, pdcs[j], s) \in handed
    BY <1>1, <2>1 DEF TakenFits, Fresh
  <2>3. j \in Ids /\ uses[j] > 0
    BY <1>1, <2>1 DEF TypeOK, UsedBefore
  <2> QED BY <1>3, <2>1, <2>2, <2>3
<1>13. net \subseteq net' /\ handed \subseteq handed' /\ handed' \subseteq net'
  BY <1>2, <1>3, <1>4
<1>14. UNCHANGED <<pdcs, idVars, passive, given>>
  BY <1>3
<1> QED BY <1>9, <1>10, <1>12, <1>13, <1>14, PeerStep

-----------------------------------------------------------------------------
(* The theorems.                                                           *)

LEMMA NextHolds == IInv /\ [Next]_vars => IInv'
<1> SUFFICES ASSUME IInv, [Next]_vars PROVE IInv'
  OBVIOUS
<1>1. CASE \E p \in Peers, m \in Modes : DispatchNew(p, m)
  BY <1>1, NewStep
<1>2. CASE \E k \in DOMAIN sessions : DispatchAgain(k)
  BY <1>2, AgainStep
<1>3. CASE \E i \in DOMAIN pdcs : ReleasePdc(i)
  BY <1>3, ReleaseStep
<1>4. CASE \E a \in net : a.type = "control" /\ ReceiveControl(a)
  BY <1>4, ControlStep
<1>5. CASE \E q \in net : q.type = "data" /\ ReceiveData(q)
  BY <1>5, DataStep
<1>6. CASE \E p \in Peers : \E i \in DOMAIN recv[p] : Acknowledge(p, i)
  BY <1>6, AcknowledgeStep
<1>7. CASE UNCHANGED vars
  <2>1. UNCHANGED <<pdcs, idVars, recv, net, given, handed>> /\ passive' = passive
    BY <1>7 DEF vars, idVars
  <2>2. passive' \subseteq Peers \X Ids
    BY <2>1 DEF IInv, TypeOK
  <2> QED BY <2>1, <2>2, PassiveStep
<1> QED BY <1>1, <1>2, <1>3, <1>4, <1>5, <1>6, <1>7 DEF Next

(* The invariant holds in every state of every behaviour.                  *)
THEOREM Invariance == Spec => []IInv
<1>1. IInv /\ [Next]_vars => IInv'
  BY NextHolds
<1> QED BY InitHolds, <1>1, PTL DEF Spec

(* The tables keep their types.                                            *)
THEOREM TypeCorrect == Spec => []TypeOK
<1>1. IInv => TypeOK
  BY DEF IInv
<1> QED BY Invariance, <1>1, PTL

(* AllocatePdc and ReleasePdc lose no id and give none to two contexts.    *)
THEOREM NoIdLost == Spec => []IdsAccountedFor
<1>1. IInv => IdsAccountedFor
  BY DEF IInv
<1> QED BY Invariance, <1>1, PTL

(* A session's packets travel in one context, in use and of its own kind.  *)
THEOREM SessionsHaveOneContext == Spec => []OneContextPerSession
<1>1. IInv => OneContextPerSession
  BY DEF IInv
<1> QED BY Invariance, <1>1, PTL

(* On an id used for the first time the context's acknowledgments are      *)
(* true and its window never closes for good.                              *)
THEOREM FirstUseIsSound == Spec => []FirstUseDelivers
<1>1. IInv => FirstUseDelivers
  BY DEF IInv
<1> QED BY Invariance, <1>1, PTL
=============================================================================
