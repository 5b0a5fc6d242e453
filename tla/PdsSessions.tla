------------------------------ MODULE PdsSessions ------------------------------
(***************************************************************************)
(* Which packet delivery context a packet goes through (src/src/soft-ue/   *)
(* model/pds/pds-manager.cc): the PdsManager of one sending node, which    *)
(* allocates a context per session or per unreliable packet, reuses the    *)
(* ids of released contexts and finds the context of a control packet by   *)
(* its id alone; and the PdsManagers of its peers, which create a receive  *)
(* context for every (source, id) they hear of and keep it for ever.       *)
(*                                                                         *)
(* Of the contexts themselves (module Tpdc) only the numbering is kept:    *)
(* the next number, the base of the send window, and the numbers the       *)
(* receive context has taken.  The upper ends of the windows, timers and   *)
(* selective acknowledgments are not modelled here.  A packet that has     *)
(* been sent stays in net: it may arrive late, again (retransmissions are  *)
(* copies of it) or never.                                                 *)
(***************************************************************************)
EXTENDS Integers, FiniteSets, Sequences

CONSTANTS
  Peers,                \* the FEPs the node sends to
  Reliable,             \* delivery modes that get a Tpdc (RUD, ROD) ...
  Unreliable,           \* ... and those that get an Ipdc
  MaxPdcCount,          \* m_maxPdcCount of the node
  PeerRoom,             \* what its other sources and its own sessions leave
                        \* of a peer's m_maxPdcCount
  MaxPdcId,             \* MAX_PDC_ID
  MaxPackets            \* bound: packets the layer above hands over

ASSUME PdsSessionsAssumption ==
  /\ Reliable \cap Unreliable = {}
  /\ MaxPdcCount \in Nat \ {0}
  /\ PeerRoom \in Nat
  /\ MaxPdcId \in Nat
  /\ MaxPdcCount <= MaxPdcId + 1
  /\ MaxPackets \in Nat

Modes    == Reliable \cup Unreliable
Ids      == 0 .. MaxPdcId
Sessions == Peers \X Reliable

VARIABLES
  pdcs,                 \* m_pdcs: id -> the context
  bitmap,               \* the ids set in m_pdcIdBitmap
  freeIds,              \* m_freePdcIds
  nextId,               \* m_nextPdcId
  sessions,             \* m_outgoingSessions: (peer, mode) -> id
  passive,              \* m_receivePdcs of the node itself: (peer, id)
  recv,                 \* m_receivePdcs of each peer: id -> the context
  net,                  \* packets and acknowledgments sent
  given,                \* packets the layer above has handed over
  uses,                 \* history: how many contexts each id has had
  handed                \* history: data packets passed up by the peers

idVars == <<bitmap, freeIds, nextId, sessions, uses>>
vars == <<pdcs, idVars, passive, recv, net, given, handed>>

-----------------------------------------------------------------------------
(* Contexts and packets.                                                   *)

Context == [peer : Peers, mode : Modes, use : Nat,
            next : Nat \ {0}, base : Nat \ {0}, queued : Nat]
ReceiveContext == [reliable : BOOLEAN, taken : SUBSET Nat, ackDue : BOOLEAN]

DataPacket == [type : {"data"}, to : Peers, id : Ids, use : Nat,
               reliable : BOOLEAN, seq : Nat]
Control    == [type : {"control"}, from : Peers, id : Ids, cum : Nat]

(* Number s of context c of id i.  An Ipdc does not number its packets.    *)
Data(i, c, s) == [type |-> "data", to |-> c.peer, id |-> i, use |-> c.use,
                  reliable |-> c.mode \in Reliable,
                  seq |-> IF c.mode \in Reliable THEN s ELSE 0]

MaxOf(a, b) == IF a > b THEN a ELSE b
Least(S)    == {i \in S : \A j \in S : i <= j}
Contents(s) == {s[k] : k \in DOMAIN s}

Init ==
  /\ pdcs = <<>> /\ bitmap = {} /\ freeIds = <<>> /\ nextId = 0
  /\ sessions = <<>> /\ passive = {} /\ recv = [p \in Peers |-> <<>>]
  /\ net = {} /\ given = 0 /\ uses = [i \in Ids |-> 0] /\ handed = {}

-----------------------------------------------------------------------------
(* The sending node.                                                       *)

(* The ids the two scans of the bitmap look at: onwards from m_nextPdcId,  *)
(* and when that finds none, from the beginning.                           *)
Ahead   == {i \in Ids : i >= nextId /\ i \notin bitmap}
Behind  == {i \in Ids : i < MaxPdcCount /\ i \notin bitmap}
Scanned == IF Ahead # {} THEN Ahead ELSE Behind

(* Mutant: a reused id is left at the head of the reuse queue.             *)
PickWithoutPop(i) ==
  /\ freeIds # <<>> => i = Head(freeIds)
  /\ freeIds = <<>> => i \in Least(Scanned)
  /\ UNCHANGED freeIds

(* The id AllocatePdc gives a new context: a released one if there is any. *)
Pick(i) ==
  \/ freeIds # <<>> /\ i = Head(freeIds) /\ freeIds' = Tail(freeIds)
  \/ freeIds = <<>> /\ i \in Least(Scanned) /\ UNCHANGED freeIds

(* Mutant: unreliable contexts become sessions too.                        *)
RegisteredAlways(p, m) == {<<p, m>>}

(* The sessions a new context is entered for in m_outgoingSessions.        *)
Registered(p, m) == {<<p, m>>} \cap Sessions

(* A new context, its first packet numbered and on its way.                *)
Opened(p, m, i) == [peer |-> p, mode |-> m, use |-> uses[i] + 1,
                    next |-> 2, base |-> 1, queued |-> 0]

(* DispatchPacket with no context to reuse: AllocatePdc makes one, for a   *)
(* reliable mode it is the session's from now on, and it sends the packet. *)
DispatchNew(p, m) ==
  /\ given < MaxPackets /\ given' = given + 1
  /\ <<p, m>> \notin DOMAIN sessions
  /\ Cardinality(DOMAIN pdcs) < MaxPdcCount
  /\ \E i \in Ids :
       /\ Pick(i)
       /\ pdcs' = [j \in DOMAIN pdcs \cup {i} |->
                     IF j = i THEN Opened(p, m, i) ELSE pdcs[j]]
       /\ bitmap' = bitmap \cup {i}
       /\ nextId' = i + 1
       /\ sessions' = [k \in DOMAIN sessions \cup Registered(p, m) |->
                         IF k = <<p, m>> THEN i ELSE sessions[k]]
       /\ uses' = [uses EXCEPT ![i] = @ + 1]
       /\ net' = net \cup {Data(i, Opened(p, m, i), 1)}
  /\ UNCHANGED <<passive, recv, handed>>

(* DispatchPacket on the context of the session.  IsInSendWindow: a number *)
(* below the base is outside the window, and the packet waits.             *)
DispatchAgain(k) ==
  /\ given < MaxPackets /\ given' = given + 1
  /\ LET i == sessions[k] IN
       \/ /\ pdcs[i].next >= pdcs[i].base
          /\ pdcs' = [pdcs EXCEPT ![i].next = @ + 1]
          /\ net' = net \cup {Data(i, pdcs[i], pdcs[i].next)}
       \/ /\ pdcs[i].next < pdcs[i].base
          /\ pdcs' = [pdcs EXCEPT ![i].queued = @ + 1]
          /\ UNCHANGED net
  /\ UNCHANGED <<idVars, passive, recv, handed>>

(* Mutant: the session keeps naming the released context.                  *)
ReleaseKeepingSession(i) ==
  /\ pdcs' = [j \in DOMAIN pdcs \ {i} |-> pdcs[j]]
  /\ bitmap' = bitmap \ {i}
  /\ freeIds' = Append(freeIds, i)
  /\ UNCHANGED <<nextId, sessions, uses, passive, recv, net, given, handed>>

(* ReleasePdc, which the device offers to its user at any time.            *)
ReleasePdc(i) ==
  /\ pdcs' = [j \in DOMAIN pdcs \ {i} |-> pdcs[j]]
  /\ sessions' = [k \in {l \in DOMAIN sessions : sessions[l] # i} |-> sessions[k]]
  /\ bitmap' = bitmap \ {i}
  /\ freeIds' = Append(freeIds, i)
  /\ UNCHANGED <<nextId, uses, passive, recv, net, given, handed>>

(* EnsureReceivePdc for a control packet: the node makes itself a receive  *)
(* context that no data will come to, if the limit, which counts both      *)
(* kinds here, allows it.                                                  *)
EnsureOwn(p, i) ==
  passive' = IF Cardinality(DOMAIN pdcs) + Cardinality(passive) < MaxPdcCount
               THEN passive \cup {<<p, i>>} ELSE passive

(* What the acknowledgment makes of context c: the window moves up to it,  *)
(* and the waiting packets are sent if the next number is inside it.       *)
Advanced(c, cum) ==
  LET to == MaxOf(c.base, cum + 1) IN
    IF c.next >= to
      THEN [c EXCEPT !.base = to, !.next = @ + c.queued, !.queued = 0]
      ELSE [c EXCEPT !.base = to]

(* ProcessReceivedPacket on a control packet: it goes to the context that  *)
(* has the id now; an Ipdc only queues it, and without a context it goes   *)
(* to the receive context, which has sent nothing.                         *)
ReceiveControl(a) ==
  /\ EnsureOwn(a.from, a.id)
  /\ \/ /\ a.id \in DOMAIN pdcs /\ pdcs[a.id].mode \in Reliable
        /\ LET c == pdcs[a.id]
               d == Advanced(c, a.cum) IN
             /\ pdcs' = [pdcs EXCEPT ![a.id] = d]
             /\ net' = net \cup {Data(a.id, c, s) : s \in c.next .. (d.next - 1)}
     \/ /\ a.id \in DOMAIN pdcs => pdcs[a.id].mode \notin Reliable
        /\ UNCHANGED <<pdcs, net>>
  /\ UNCHANGED <<idVars, recv, given, handed>>

-----------------------------------------------------------------------------
(* The peers.                                                              *)

(* EnsureReceivePdc for a data packet: the context the packet finds.  One  *)
(* that exists is used as it is, whatever kind it has.                     *)
Ensured(q) ==
  LET has == recv[q.to] IN
    IF q.id \in DOMAIN has \/ Cardinality(DOMAIN has) >= PeerRoom THEN has
    ELSE [j \in DOMAIN has \cup {q.id} |->
            IF j = q.id THEN [reliable |-> q.reliable, taken |-> {}, ackDue |-> FALSE]
            ELSE has[j]]

(* A receive Tpdc takes the number and schedules an acknowledgment; an     *)
(* Ipdc, or no context at all, does neither.                               *)
Taken(c, q) == [c EXCEPT !.taken = @ \cup ({q.seq} \ {0}), !.ackDue = TRUE]
Take(q) ==
  LET has == Ensured(q) IN
    recv' = [recv EXCEPT ![q.to] =
               IF q.id \in DOMAIN has /\ has[q.id].reliable
                 THEN [has EXCEPT ![q.id] = Taken(has[q.id], q)]
                 ELSE has]

(* ProcessReceivedPacket on a data packet: whatever the context makes of   *)
(* it, it is passed up.                                                    *)
ReceiveData(q) ==
  /\ Take(q)
  /\ handed' = handed \cup {q}
  /\ UNCHANGED <<pdcs, idVars, passive, net, given>>

(* Mutant: the acknowledgment names the highest number taken.              *)
AcknowledgeHighest(p, i) ==
  /\ recv[p][i].reliable /\ recv[p][i].ackDue
  /\ recv' = [recv EXCEPT ![p][i].ackDue = FALSE]
  /\ \E n \in {0} \cup recv[p][i].taken :
       /\ \A k \in recv[p][i].taken : k <= n
       /\ net' = net \cup {[type |-> "control", from |-> p, id |-> i, cum |-> n]}
  /\ UNCHANGED <<pdcs, idVars, passive, given, handed>>

(* SendPendingAcknowledgments of a receive Tpdc: the cumulative number.    *)
Acknowledge(p, i) ==
  /\ recv[p][i].reliable /\ recv[p][i].ackDue
  /\ recv' = [recv EXCEPT ![p][i].ackDue = FALSE]
  /\ \E n \in {0} \cup recv[p][i].taken :
       /\ 1 .. n \subseteq recv[p][i].taken
       /\ n + 1 \notin recv[p][i].taken
       /\ net' = net \cup {[type |-> "control", from |-> p, id |-> i, cum |-> n]}
  /\ UNCHANGED <<pdcs, idVars, passive, given, handed>>

Next ==
  \/ \E p \in Peers, m \in Modes : DispatchNew(p, m)
  \/ \E k \in DOMAIN sessions : DispatchAgain(k)
  \/ \E i \in DOMAIN pdcs : ReleasePdc(i)
  \/ \E a \in net : a.type = "control" /\ ReceiveControl(a)
  \/ \E q \in net : q.type = "data" /\ ReceiveData(q)
  \/ \E p \in Peers : \E i \in DOMAIN recv[p] : Acknowledge(p, i)

Spec == Init /\ [][Next]_vars

-----------------------------------------------------------------------------
(* Correctness.                                                            *)

(* Type correctness of the tables and of what is on the network.           *)
TypeOK ==
  /\ DOMAIN pdcs \subseteq Ids /\ \A i \in DOMAIN pdcs : pdcs[i] \in Context
  /\ bitmap \subseteq Ids /\ freeIds \in Seq(Ids) /\ nextId \in Nat
  /\ DOMAIN sessions \subseteq Sessions /\ \A k \in DOMAIN sessions : sessions[k] \in Ids
  /\ passive \subseteq Peers \X Ids
  /\ DOMAIN recv = Peers
  /\ \A p \in Peers : /\ DOMAIN recv[p] \subseteq Ids
                      /\ \A i \in DOMAIN recv[p] : recv[p][i] \in ReceiveContext
  /\ net \subseteq DataPacket \cup Control
  /\ given \in Nat /\ uses \in [Ids -> Nat] /\ handed \subseteq net

(* No order of allocations and releases loses an id or gives it to two     *)
(* contexts: every id that has ever been used belongs to one context or    *)
(* waits exactly once in the reuse queue, and the bitmap agrees.           *)
IdsAccountedFor ==
  /\ bitmap = DOMAIN pdcs
  /\ \A k, l \in DOMAIN freeIds : k # l => freeIds[k] # freeIds[l]
  /\ bitmap \cap Contents(freeIds) = {}
  /\ bitmap \cup Contents(freeIds) = {i \in Ids : uses[i] > 0}

(* A session has one context at a time, in use, of its destination and     *)
(* mode, and every reliable context belongs to its session: two packets of *)
(* one session never travel in contexts that do not order them.            *)
OneContextPerSession ==
  /\ \A k \in DOMAIN sessions :
       /\ sessions[k] \in DOMAIN pdcs
       /\ k = <<pdcs[sessions[k]].peer, pdcs[sessions[k]].mode>>
  /\ \A i \in DOMAIN pdcs : pdcs[i].mode \in Reliable =>
       /\ <<pdcs[i].peer, pdcs[i].mode>> \in DOMAIN sessions
       /\ sessions[<<pdcs[i].peer, pdcs[i].mode>>] = i

Confirmed(c) == {s \in 1 .. (c.next - 1) : s < c.base}

(* Control packets are matched to contexts by id only and receive contexts *)
(* outlive the sender's: on an id that is used for the first time this is  *)
(* sound.  Whatever the window has moved past was passed up by the peer    *)
(* the context sends to, and no packet waits behind a window that starts   *)
(* beyond the next number.                                                 *)
FirstUseDelivers ==
  \A i \in DOMAIN pdcs : pdcs[i].mode \in Reliable /\ uses[i] = 1 =>
    /\ \A s \in Confirmed(pdcs[i]) : Data(i, pdcs[i], s) \in handed
    /\ pdcs[i].base <= pdcs[i].next
    /\ pdcs[i].queued = 0
=============================================================================
