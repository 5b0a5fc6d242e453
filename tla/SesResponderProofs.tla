-------------------------- MODULE SesResponderProofs --------------------------
(***************************************************************************)
(* Theorems about the responder side of a SesManager, for any keys, peers, *)
(* read limit and number of repeated requests.                             *)
(***************************************************************************)
EXTENDS SesResponder, FiniteSetTheorems, WellFoundedInduction,
        SequenceTheorems, TLAPS

USE SesResponderAssumption

(* A response that is pending answers the newest request of its key, and   *)
(* what is not pending has been answered.                                  *)
PendingIsNewest ==
  \A k \in Keys :
    IF k \in DOMAIN pending THEN pending[k].ask = asked[k]
    ELSE answered[k] = asked[k]

(* Only the response to a READ holds a reservation.                        *)
ReadsHold == Held(Keys) \subseteq Reads

IInv ==
  /\ TypeOK
  /\ PendingIsNewest
  /\ ReadsHold
  /\ NoResponseStranded
  /\ ReadBudgetCovered

-----------------------------------------------------------------------------
(* The queues.                                                             *)

(* The first index of e in s, which SelectInSeq finds.                     *)
LEMMA FirstIndex ==
  ASSUME NEW S, NEW s \in Seq(S), NEW e, \E i \in 1 .. Len(s) : s[i] = e
  PROVE  LET m == SelectInSeq(s, LAMBDA v : v = e)
         IN  m \in 1 .. Len(s) /\ s[m] = e
<1> DEFINE I == {i \in 1 .. Len(s) : s[i] = e}
<1>1. I # {} /\ I \in SUBSET Nat
  OBVIOUS
<1>2. \E x \in I : \A y \in I : x <= y
  <2> HIDE DEF I
  <2>1. \E x \in I : \A y \in I : ~ (<<y, x>> \in OpToRel(<, Nat))
    BY <1>1, WFMin, NatLessThanWellFounded, Zenon
  <2>2. PICK x \in I : \A y \in I : ~ (<<y, x>> \in OpToRel(<, Nat))
    BY <2>1
  <2>3. ASSUME NEW y \in I
        PROVE  x <= y
    <3>1. x \in Nat /\ y \in Nat
      BY <1>1
    <3>2. ~ (y < x)
      BY <2>2, <3>1 DEF OpToRel
    <3> QED BY <3>1, <3>2
  <2> QED BY <2>3
<1>3. Min(I) \in I
  BY <1>2 DEF Min
<1>4. SelectInSeq(s, LAMBDA v : v = e) = Min(I)
  BY <1>1 DEF SelectInSeq
<1> QED BY <1>3, <1>4

(* What is at an index of a sequence is in its range.                      *)
LEMMA IndexedInRange ==
  ASSUME NEW S, NEW s \in Seq(S), NEW j \in 1 .. Len(s)
  PROVE  s[j] \in Range(s)
  BY DEF Range

(* RemoveFirst leaves a sequence over the same set, and every other        *)
(* element in it.                                                          *)
LEMMA RemoveFirstKeeps ==
  ASSUME NEW S, NEW s \in Seq(S), NEW e
  PROVE  /\ RemoveFirst(s, e) \in Seq(S)
         /\ \A x \in Range(s) : x # e => x \in Range(RemoveFirst(s, e))
<1>1. CASE ~ \E i \in 1 .. Len(s) : s[i] = e
  BY <1>1 DEF RemoveFirst
<1>2. CASE \E i \in 1 .. Len(s) : s[i] = e
  <2> DEFINE m == SelectInSeq(s, LAMBDA v : v = e)
             a == SubSeq(s, 1, m - 1)
             b == SubSeq(s, m + 1, Len(s))
  <2>1. m \in 1 .. Len(s) /\ s[m] = e
    BY <1>2, FirstIndex
  <2>2. RemoveFirst(s, e) = a \o b
    BY <1>2 DEF RemoveFirst, RemoveAt
  <2> HIDE DEF m
  <2>3. /\ a \in Seq(S) /\ Len(a) = m - 1
        /\ \A i \in 1 .. (m - 1) : a[i] = s[i]
    BY <2>1, SubSeqProperties
  <2>4. /\ b \in Seq(S) /\ Len(b) = Len(s) - m
        /\ \A i \in 1 .. (Len(s) - m) : b[i] = s[m + i]
    BY <2>1, SubSeqProperties
  <2> HIDE DEF a, b
  <2>5. /\ a \o b \in Seq(S) /\ Len(a \o b) = Len(s) - 1
        /\ \A i \in 1 .. (Len(s) - 1) :
             (a \o b)[i] = IF i <= Len(a) THEN a[i] ELSE b[i - Len(a)]
    <3>1. Len(a) + Len(b) = Len(s) - 1
      BY <2>1, <2>3, <2>4
    <3>2. /\ a \o b \in Seq(S) /\ Len(a \o b) = Len(a) + Len(b)
          /\ \A i \in 1 .. (Len(a) + Len(b)) :
               (a \o b)[i] = IF i <= Len(a) THEN a[i] ELSE b[i - Len(a)]
      BY <2>3, <2>4, ConcatProperties
    <3> QED BY <3>1, <3>2
  <2>6. ASSUME NEW x \in Range(s), x # e
        PROVE  x \in Range(a \o b)
    <3>1. PICK j \in 1 .. Len(s) : s[j] = x
      BY DEF Range
    <3>2. CASE j < m
      <4>1. (a \o b)[j] = x /\ j \in 1 .. (Len(s) - 1)
        BY <2>1, <2>3, <2>5, <3>1, <3>2
      <4> QED BY <4>1, <2>5, IndexedInRange
    <3>3. CASE j > m
      <4>1. /\ j - 1 \in 1 .. (Len(s) - 1)
            /\ ~ (j - 1 <= Len(a))
            /\ j - 1 - Len(a) = j - m
            /\ j - m \in 1 .. (Len(s) - m)
        BY <2>1, <2>3, <3>3
      <4>2. (a \o b)[j - 1] = b[j - m]
        BY <4>1, <2>5
      <4>3. b[j - m] = s[m + (j - m)] /\ m + (j - m) = j
        BY <4>1, <2>1, <2>4
      <4> QED BY <3>1, <4>1, <4>2, <4>3, <2>5, IndexedInRange
    <3> QED BY <2>1, <2>6, <3>1, <3>2, <3>3
  <2> QED BY <2>2, <2>5, <2>6
<1> QED BY <1>1, <1>2


(* Removing what is not there changes nothing.                             *)
LEMMA RemoveFromEmpty ==
  ASSUME NEW S, NEW s \in Seq(S), NEW e, s = <<>>
  PROVE  RemoveFirst(s, e) = <<>>
  BY DEF RemoveFirst

(* Every response that may still be pending stays queued when k leaves.    *)
LEMMA UnqueuedKeeps ==
  ASSUME TypeOK, NEW k \in Keys
  PROVE  /\ Unqueued(k) \in [Peers -> Seq(Keys)]
         /\ \A j \in Keys \ {k} :
              j \in Range(queue[PeerOf[j]]) => j \in Range(Unqueued(k)[PeerOf[j]])
         /\ \A p \in Peers : Unqueued(k)[p] # <<>> => queue[p] # <<>>
<1>1. PeerOf[k] \in Peers /\ queue[PeerOf[k]] \in Seq(Keys) /\ queue \in [Peers -> Seq(Keys)]
  BY DEF TypeOK
<1>2. /\ RemoveFirst(queue[PeerOf[k]], k) \in Seq(Keys)
      /\ \A x \in Range(queue[PeerOf[k]]) :
           x # k => x \in Range(RemoveFirst(queue[PeerOf[k]], k))
  BY <1>1, RemoveFirstKeeps
<1>3. Unqueued(k) = [queue EXCEPT ![PeerOf[k]] = RemoveFirst(queue[PeerOf[k]], k)]
  BY DEF Unqueued
<1>4. Unqueued(k) \in [Peers -> Seq(Keys)]
  BY <1>1, <1>2, <1>3
<1>5. ASSUME NEW j \in Keys \ {k}, j \in Range(queue[PeerOf[j]])
      PROVE  j \in Range(Unqueued(k)[PeerOf[j]])
  <2>1. PeerOf[j] \in Peers
    OBVIOUS
  <2>2. CASE PeerOf[j] = PeerOf[k]
    BY <1>1, <1>2, <1>3, <1>5, <2>2
  <2>3. CASE PeerOf[j] # PeerOf[k]
    BY <1>1, <1>3, <1>5, <2>1, <2>3
  <2> QED BY <2>2, <2>3
<1>6. ASSUME NEW p \in Peers, queue[p] = <<>>
      PROVE  Unqueued(k)[p] = <<>>
  <2>1. CASE p = PeerOf[k]
    BY <1>1, <1>3, <1>6, <2>1, RemoveFromEmpty
  <2>2. CASE p # PeerOf[k]
    BY <1>1, <1>3, <1>6, <2>2
  <2> QED BY <2>1, <2>2
<1> QED BY <1>4, <1>5, <1>6

(* A key that joins a queue.                                               *)
LEMMA AppendKeeps ==
  ASSUME NEW S, NEW s \in Seq(S), NEW e \in S
  PROVE  /\ Append(s, e) \in Seq(S) /\ Append(s, e) # <<>>
         /\ Range(Append(s, e)) = Range(s) \cup {e}
<1> DEFINE t == Append(s, e)
<1>1. /\ t \in Seq(S) /\ Len(t) = Len(s) + 1 /\ Len(s) \in Nat
      /\ DOMAIN s = 1 .. Len(s) /\ DOMAIN t = 1 .. (Len(s) + 1)
      /\ \A i \in DOMAIN s : t[i] = s[i] /\ i \in DOMAIN t
      /\ t[Len(s) + 1] = e /\ Len(s) + 1 \in DOMAIN t
      /\ \A i \in DOMAIN t : i \in DOMAIN s \/ i = Len(s) + 1
  OBVIOUS
<1> HIDE DEF t
<1>2. Range(t) = Range(s) \cup {e}
  BY <1>1 DEF Range
<1>3. t # <<>>
  BY <1>1
<1> QED BY <1>1, <1>2, <1>3 DEF t

(* A queue whose first n entries leave keeps the keys of the others.       *)
LEMMA SuffixKeeps ==
  ASSUME NEW S, NEW s \in Seq(S), NEW n \in 0 .. Len(s)
  PROVE  LET t == SubSeq(s, n + 1, Len(s)) IN
         /\ t \in Seq(S)
         /\ t # <<>> <=> n < Len(s)
         /\ \A x \in Range(s) : x \notin Range(SubSeq(s, 1, n)) => x \in Range(t)
<1> DEFINE h == SubSeq(s, 1, n)
           t == SubSeq(s, n + 1, Len(s))
<1>1. /\ Len(h) = n /\ DOMAIN h = 1 .. n /\ \A i \in 1 .. n : h[i] = s[i]
      /\ t \in Seq(S) /\ Len(t) = Len(s) - n /\ DOMAIN t = 1 .. (Len(s) - n)
      /\ \A i \in 1 .. (Len(s) - n) : t[i] = s[n + i]
  BY SubSeqProperties
<1> HIDE DEF h, t
<1>2. t # <<>> <=> n < Len(s)
  BY <1>1
<1>3. ASSUME NEW x \in Range(s), x \notin Range(h)
      PROVE  x \in Range(t)
  <2>1. PICK j \in 1 .. Len(s) : s[j] = x
    BY DEF Range
  <2>2. j > n
    <3>1. CASE j <= n
      <4>1. j \in DOMAIN h /\ h[j] = x
        BY <1>1, <2>1, <3>1
      <4> QED BY <1>3, <4>1 DEF Range
    <3> QED BY <3>1
  <2>3. j - n \in DOMAIN t /\ t[j - n] = x
    <3>1. j - n \in 1 .. (Len(s) - n) /\ n + (j - n) = j
      BY <2>2
    <3> QED BY <1>1, <2>1, <3>1
  <2> QED BY <2>3 DEF Range
<1> QED BY <1>1, <1>2, <1>3 DEF h, t

-----------------------------------------------------------------------------
(* The budget.                                                             *)

(* What TypeOK says of one response.                                       *)
LEMMA PendingTypes ==
  ASSUME TypeOK, NEW k \in DOMAIN pending
  PROVE  /\ k \in Keys /\ pending[k] \in Response
         /\ pending[k].ask \in 1 .. MaxAsks /\ pending[k].holds \in BOOLEAN
  BY DEF TypeOK, Response

LEMMA HeldFinite ==
  TypeOK => \A ks : /\ Held(ks) \subseteq Keys /\ IsFiniteSet(Held(ks))
                    /\ Held(ks) = Held(Keys) \cap ks
<1>1. \A X : X \subseteq Keys => IsFiniteSet(X)
  BY FS_Subset
<1>2. TypeOK => \A ks : Held(ks) \subseteq Keys /\ Held(ks) = Held(Keys) \cap ks
  BY DEF Held, TypeOK
<1> QED BY <1>1, <1>2

(* The first request of a key finds no reservation.                        *)
LEMMA FirstHoldsNothing ==
  ASSUME IInv, NEW k \in Keys, asked[k] = 0
  PROVE  k \notin Held(Keys)
<1>1. SUFFICES ASSUME k \in Held(Keys) PROVE FALSE
  OBVIOUS
<1>2. k \in DOMAIN pending /\ pending[k].ask = asked[k]
  BY <1>1 DEF Held, IInv, PendingIsNewest
<1>3. pending[k].ask \in 1 .. MaxAsks
  BY <1>2, PendingTypes DEF IInv
<1> QED BY <1>2, <1>3

(* An answer counts one more request of its key.                           *)
LEMMA AskedOnce ==
  ASSUME TypeOK, NEW k \in Keys, asked[k] < MaxAsks,
         asked' = [asked EXCEPT ![k] = asked[k] + 1]
  PROVE  /\ asked' \in [Keys -> 0 .. MaxAsks] /\ asked'[k] = asked[k] + 1
         /\ \A j \in Keys : j # k => asked'[j] = asked[j]
         /\ asked[k] + 1 \in 1 .. MaxAsks
         /\ k \in Reads /\ (\A j \in Reads : asked'[j] <= 1) => asked[k] = 0
         /\ (\A j \in Reads : asked'[j] <= 1) => \A j \in Reads : asked[j] <= 1
<1>1. asked[k] \in Nat /\ asked[k] + 1 \in 1 .. MaxAsks /\ asked \in [Keys -> 0 .. MaxAsks]
      /\ MaxAsks \in Nat
  BY DEF TypeOK
<1>2. /\ asked' \in [Keys -> 0 .. MaxAsks] /\ asked'[k] = asked[k] + 1
      /\ \A j \in Keys : j # k => asked'[j] = asked[j]
  BY <1>1
<1>3. k \in Reads /\ (\A j \in Reads : asked'[j] <= 1) => asked[k] = 0
  BY <1>1, <1>2
<1>4. (\A j \in Reads : asked'[j] <= 1) => \A j \in Reads : asked[j] <= 1
  <2>1. \A j \in Reads : j \in Keys /\ asked[j] \in Nat /\ asked[j] <= asked'[j] /\ asked'[j] \in Nat
    BY <1>1, <1>2 DEF Keys
  <2> QED BY <2>1
<1> QED BY <1>1, <1>2, <1>3, <1>4

-----------------------------------------------------------------------------
(* The steps.                                                              *)

LEMMA NothingPending ==
  ASSUME pending = <<>>
  PROVE  DOMAIN pending = {} /\ Held(Keys) = {}
  BY DEF Held

LEMMA InitHolds == Init => IInv
<1> SUFFICES ASSUME Init PROVE IInv
  OBVIOUS
<1>1. DOMAIN pending = {} /\ Held(Keys) = {}
  BY NothingPending DEF Init
<1>2. TypeOK
  BY <1>1 DEF Init, TypeOK
<1>3. PendingIsNewest /\ ReadsHold /\ NoResponseStranded
  BY <1>1 DEF Init, PendingIsNewest, ReadsHold, NoResponseStranded
<1>4. ReadBudgetCovered
  BY <1>1, FS_EmptySet DEF Init, ReadBudgetCovered
<1> QED BY <1>2, <1>3, <1>4 DEF IInv

(* A response is sent at once.                                             *)
LEMMA SentStep ==
  ASSUME IInv, NEW k \in Keys, asked[k] < MaxAsks,
         asked' = [asked EXCEPT ![k] = asked[k] + 1], UNCHANGED room, Sent(k)
  PROVE  IInv'
<1> USE DEF IInv
<1>1. /\ pending' = [j \in DOMAIN pending \ {k} |-> pending[j]]
      /\ queue' = Unqueued(k) /\ drains' = Idled(Unqueued(k))
      /\ answered' = [answered EXCEPT ![k] = asked[k] + 1]
      /\ inUse' = inUse
  BY DEF Sent
<1>2. /\ DOMAIN pending' = DOMAIN pending \ {k}
      /\ \A j \in DOMAIN pending' : pending'[j] = pending[j]
  BY <1>1
<1>3. /\ asked' \in [Keys -> 0 .. MaxAsks] /\ asked'[k] = asked[k] + 1
      /\ \A j \in Keys : j # k => asked'[j] = asked[j]
      /\ asked[k] + 1 \in 0 .. MaxAsks
  BY AskedOnce
<1>4. /\ answered' \in [Keys -> 0 .. MaxAsks] /\ answered'[k] = asked[k] + 1
      /\ \A j \in Keys : j # k => answered'[j] = answered[j]
  BY <1>1, <1>3 DEF TypeOK
<1>5. /\ queue' \in [Peers -> Seq(Keys)]
      /\ \A j \in Keys \ {k} :
           j \in Range(queue[PeerOf[j]]) => j \in Range(queue'[PeerOf[j]])
      /\ \A p \in Peers : queue'[p] # <<>> => queue[p] # <<>>
  BY <1>1, UnqueuedKeeps
<1>6. TypeOK'
  <2>1. DOMAIN pending' \subseteq Keys /\ \A j \in DOMAIN pending' : pending'[j] \in Response
    BY <1>2 DEF TypeOK
  <2>2. drains' \subseteq Peers
    BY <1>1 DEF Idled, TypeOK
  <2> QED BY <1>1, <1>3, <1>4, <1>5, <2>1, <2>2 DEF TypeOK
<1>7. PendingIsNewest'
  BY <1>2, <1>3, <1>4 DEF PendingIsNewest
<1>8. Held(Keys)' = Held(Keys) \ {k}
  BY <1>2 DEF Held
<1>9. ReadsHold'
  BY <1>8 DEF ReadsHold
<1>10. NoResponseStranded'
  <2>1. ASSUME NEW j \in DOMAIN pending' PROVE j \in Range(queue'[PeerOf[j]])
    <3>1. j \in DOMAIN pending /\ j # k /\ j \in Keys
      BY <1>2 DEF TypeOK
    <3>2. j \in Range(queue[PeerOf[j]])
      BY <3>1 DEF NoResponseStranded
    <3> QED BY <1>5, <3>1, <3>2
  <2>2. ASSUME NEW p \in Peers PROVE queue'[p] # <<>> <=> p \in drains'
    <3>1. p \in drains' <=> p \in drains /\ queue'[p] # <<>>
      BY <1>1 DEF Idled
    <3>2. queue[p] # <<>> <=> p \in drains
      BY DEF NoResponseStranded
    <3> QED BY <1>5, <3>1, <3>2
  <2> QED BY <2>1, <2>2 DEF NoResponseStranded
<1>11. ReadBudgetCovered'
  <2>1. /\ IsFiniteSet(Held(Keys)) /\ IsFiniteSet(Held(Keys) \ {k})
        /\ Cardinality(Held(Keys)) \in Nat /\ Cardinality(Held(Keys) \ {k}) \in Nat
        /\ Cardinality(Held(Keys) \ {k}) <= Cardinality(Held(Keys))
    BY HeldFinite, FS_Subset, FS_CardinalityType
  <2>2. /\ Cardinality(Held(Keys)) <= inUse /\ inUse \in Nat
        /\ ReadLimit # 0 => inUse <= ReadLimit
        /\ (\A j \in Reads : asked[j] <= 1) => Cardinality(Held(Keys)) = inUse
    BY DEF ReadBudgetCovered, TypeOK
  <2>3. ASSUME \A j \in Reads : asked'[j] <= 1
        PROVE  Cardinality(Held(Keys)') = inUse'
    <3>1. k \notin Held(Keys)
      <4>1. CASE k \in Reads
        BY <2>3, <4>1, AskedOnce, FirstHoldsNothing
      <4>2. CASE k \notin Reads
        BY <4>2 DEF ReadsHold
      <4> QED BY <4>1, <4>2
    <3>2. Held(Keys)' = Held(Keys)
      BY <1>8, <3>1
    <3>3. \A j \in Reads : asked[j] <= 1
      BY <2>3, AskedOnce
    <3> QED BY <1>1, <2>2, <3>2, <3>3
  <2>4. Cardinality(Held(Keys)') <= inUse'
    BY <1>1, <1>8, <2>1, <2>2
  <2> QED BY <1>1, <2>2, <2>3, <2>4 DEF ReadBudgetCovered
<1> QED BY <1>6, <1>7, <1>9, <1>10, <1>11

(* A response is refused and queued.                                       *)
LEMMA QueuedStep ==
  ASSUME IInv, NEW k \in Keys, NEW holds \in BOOLEAN, asked[k] < MaxAsks,
         asked' = [asked EXCEPT ![k] = asked[k] + 1], UNCHANGED room,
         holds => k \in Reads /\ ReadBudgetFree, Queued(k, holds)
  PROVE  IInv'
<1> USE DEF IInv
<1> DEFINE r == [ask |-> asked[k] + 1, holds |-> holds]
<1>1. /\ pending' = [j \in DOMAIN pending \cup {k} |-> IF j = k THEN r ELSE pending[j]]
      /\ queue' = [queue EXCEPT ![PeerOf[k]] = Append(queue[PeerOf[k]], k)]
      /\ drains' = drains \cup {PeerOf[k]}
      /\ inUse' = (IF holds THEN inUse + 1 ELSE inUse)
      /\ answered' = answered
      /\ PeerOf[k] \in Peers /\ queue[PeerOf[k]] \in Seq(Keys)
  BY DEF Queued, TypeOK
<1>2. /\ asked' \in [Keys -> 0 .. MaxAsks] /\ asked'[k] = asked[k] + 1
      /\ \A j \in Keys : j # k => asked'[j] = asked[j]
      /\ asked[k] + 1 \in 1 .. MaxAsks
  BY AskedOnce
<1>3. r \in Response /\ r.ask = asked[k] + 1 /\ r.holds = holds
  BY <1>2 DEF Response
<1> HIDE DEF r
<1>4. /\ DOMAIN pending' = DOMAIN pending \cup {k} /\ pending'[k] = r
      /\ \A j \in DOMAIN pending : j # k => pending'[j] = pending[j]
  BY <1>1
<1>5. /\ queue' \in [Peers -> Seq(Keys)] /\ queue'[PeerOf[k]] # <<>>
      /\ Range(queue'[PeerOf[k]]) = Range(queue[PeerOf[k]]) \cup {k}
      /\ \A p \in Peers : p # PeerOf[k] => queue'[p] = queue[p]
  <2>1. /\ Append(queue[PeerOf[k]], k) \in Seq(Keys)
        /\ Append(queue[PeerOf[k]], k) # <<>>
        /\ Range(Append(queue[PeerOf[k]], k)) = Range(queue[PeerOf[k]]) \cup {k}
    BY <1>1, AppendKeeps
  <2> QED BY <1>1, <2>1 DEF TypeOK
<1>6. TypeOK'
  <2>1. DOMAIN pending' \subseteq Keys /\ \A j \in DOMAIN pending' : pending'[j] \in Response
    BY <1>3, <1>4 DEF TypeOK
  <2>2. drains' \subseteq Peers /\ inUse' \in Nat
    BY <1>1 DEF TypeOK
  <2> QED BY <1>1, <1>2, <1>5, <2>1, <2>2 DEF TypeOK
<1>7. PendingIsNewest'
  BY <1>1, <1>2, <1>3, <1>4 DEF PendingIsNewest
<1>8. Held(Keys)' = IF holds THEN Held(Keys) \cup {k} ELSE Held(Keys) \ {k}
  <2>1. \A j \in Keys : j \in Held(Keys)' <=> j \in DOMAIN pending' /\ pending'[j].holds
    BY DEF Held
  <2>2. \A j \in Keys : j \in Held(Keys) <=> j \in DOMAIN pending /\ pending[j].holds
    BY DEF Held
  <2>3. Held(Keys) \subseteq Keys /\ Held(Keys)' \subseteq Keys
    BY DEF Held
  <2> QED BY <1>3, <1>4, <2>1, <2>2, <2>3
<1>9. ReadsHold'
  BY <1>8 DEF ReadsHold
<1>10. NoResponseStranded'
  <2>1. ASSUME NEW j \in DOMAIN pending' PROVE j \in Range(queue'[PeerOf[j]])
    <3>1. CASE j = k
      BY <1>5, <3>1
    <3>2. CASE j # k
      <4>1. j \in DOMAIN pending /\ j \in Keys /\ PeerOf[j] \in Peers
        BY <1>4, <3>2 DEF TypeOK
      <4>2. j \in Range(queue[PeerOf[j]])
        BY <4>1 DEF NoResponseStranded
      <4> QED BY <1>5, <4>1, <4>2
    <3> QED BY <3>1, <3>2
  <2>2. ASSUME NEW p \in Peers PROVE queue'[p] # <<>> <=> p \in drains'
    <3>1. CASE p = PeerOf[k]
      BY <1>1, <1>5, <3>1
    <3>2. CASE p # PeerOf[k]
      BY <1>1, <1>5, <3>2 DEF NoResponseStranded
    <3> QED BY <3>1, <3>2
  <2> QED BY <2>1, <2>2 DEF NoResponseStranded
<1>11. ReadBudgetCovered'
  <2> DEFINE n == Cardinality(Held(Keys))
  <2>1. /\ IsFiniteSet(Held(Keys)) /\ n \in Nat
        /\ IsFiniteSet(Held(Keys) \ {k})
        /\ Cardinality(Held(Keys) \ {k}) \in Nat /\ Cardinality(Held(Keys) \ {k}) <= n
        /\ Cardinality(Held(Keys) \cup {k}) = IF k \in Held(Keys) THEN n ELSE n + 1
    BY HeldFinite, FS_Subset, FS_CardinalityType, FS_AddElement
  <2>2. /\ n <= inUse /\ inUse \in Nat
        /\ ReadLimit # 0 => inUse <= ReadLimit
        /\ (\A j \in Reads : asked[j] <= 1) => n = inUse
    BY DEF ReadBudgetCovered, TypeOK
  <2> HIDE DEF n
  <2>3. Cardinality(Held(Keys)') <= inUse'
    <3>1. CASE holds
      BY <1>1, <1>8, <2>1, <2>2, <3>1
    <3>2. CASE ~holds
      BY <1>1, <1>8, <2>1, <2>2, <3>2
    <3> QED BY <3>1, <3>2
  <2>4. ReadLimit # 0 => inUse' <= ReadLimit
    BY <1>1, <2>2, SesResponderAssumption DEF ReadBudgetFree
  <2>5. ASSUME \A j \in Reads : asked'[j] <= 1
        PROVE  Cardinality(Held(Keys)') = inUse'
    <3>1. k \notin Held(Keys)
      <4>1. CASE k \in Reads
        BY <2>5, <4>1, AskedOnce, FirstHoldsNothing
      <4>2. CASE k \notin Reads
        BY <4>2 DEF ReadsHold
      <4> QED BY <4>1, <4>2
    <3>2. n = inUse
      BY <2>2, <2>5, AskedOnce
    <3>3. CASE holds
      BY <1>1, <1>8, <2>1, <3>1, <3>2, <3>3
    <3>4. CASE ~holds
      <4>1. Held(Keys)' = Held(Keys)
        BY <1>8, <3>1, <3>4
      <4> QED BY <1>1, <3>2, <3>4, <4>1 DEF n
    <3> QED BY <3>3, <3>4
  <2> QED BY <2>3, <2>4, <2>5 DEF ReadBudgetCovered
<1> QED BY <1>6, <1>7, <1>9, <1>10, <1>11

(* A request is answered.                                                  *)
LEMMA RespondStep ==
  ASSUME IInv, NEW k \in Keys, NEW holds \in BOOLEAN,
         holds => k \in Reads /\ ReadBudgetFree, Respond(k, holds)
  PROVE  IInv'
<1>1. CASE Sent(k)
  BY <1>1, SentStep DEF Respond
<1>2. CASE Queued(k, holds)
  BY <1>2, QueuedStep DEF Respond
<1> QED BY <1>1, <1>2 DEF Respond

(* A queue is drained.                                                     *)
LEMMA DrainStep ==
  ASSUME IInv, NEW p \in Peers, NEW due \in BOOLEAN, DrainQueue(p, due)
  PROVE  IInv'
<1> USE DEF IInv
<1> PICK n \in 0 .. Len(queue[p]) :
      LET out == First(p, n) IN
        /\ Stops(p, n, due)
        /\ pending' = [k \in DOMAIN pending \ out |-> pending[k]]
        /\ queue' = [queue EXCEPT ![p] = SubSeq(@, n + 1, Len(@))]
        /\ drains' = IF n < Len(queue[p]) THEN drains \cup {p} ELSE drains \ {p}
        /\ inUse' = Returned(Cardinality(Held(out)))
        /\ answered' = [k \in Keys |-> IF k \in out \cap DOMAIN pending
                                         THEN pending[k].ask ELSE answered[k]]
        /\ UNCHANGED <<room, asked>>
  BY DEF DrainQueue
<1> DEFINE out == First(p, n)
           rest == SubSeq(queue[p], n + 1, Len(queue[p]))
<1>1. /\ pending' = [k \in DOMAIN pending \ out |-> pending[k]]
      /\ queue' = [queue EXCEPT ![p] = rest]
      /\ drains' = (IF n < Len(queue[p]) THEN drains \cup {p} ELSE drains \ {p})
      /\ inUse' = Returned(Cardinality(Held(out)))
      /\ answered' = [k \in Keys |-> IF k \in out \cap DOMAIN pending
                                       THEN pending[k].ask ELSE answered[k]]
      /\ room' = room /\ asked' = asked
  OBVIOUS
<1>2. /\ queue[p] \in Seq(Keys) /\ n \in 0 .. Len(queue[p])
      /\ rest \in Seq(Keys) /\ (rest # <<>> <=> n < Len(queue[p]))
      /\ \A x \in Range(queue[p]) : x \notin out => x \in Range(rest)
  <2>1. queue[p] \in Seq(Keys)
    BY DEF TypeOK
  <2> QED BY <2>1, SuffixKeeps DEF First
<1> HIDE DEF out, rest
<1>3. /\ DOMAIN pending' = DOMAIN pending \ out
      /\ \A k \in DOMAIN pending' : pending'[k] = pending[k]
  BY <1>1
<1>4. /\ queue' \in [Peers -> Seq(Keys)] /\ queue'[p] = rest
      /\ \A o \in Peers : o # p => queue'[o] = queue[o]
  BY <1>1, <1>2 DEF TypeOK
<1>5. \A k \in Keys : answered'[k] = IF k \in out \cap DOMAIN pending
                                       THEN pending[k].ask ELSE answered[k]
  BY <1>1
<1>6. /\ Held(Keys)' = Held(Keys) \ out
      /\ Held(out) = Held(Keys) \cap out
      /\ IsFiniteSet(Held(Keys))
  <2>1. Held(Keys)' = Held(Keys) \ out
    BY <1>3 DEF Held
  <2> QED BY <2>1, HeldFinite
<1>7. /\ Cardinality(Held(Keys)) \in Nat /\ Cardinality(Held(out)) \in Nat
      /\ Cardinality(Held(Keys)') = Cardinality(Held(Keys)) - Cardinality(Held(out))
      /\ Cardinality(Held(Keys)') \in Nat
  <2>1. /\ IsFiniteSet(Held(Keys) \ out)
        /\ Cardinality(Held(Keys) \ out) =
             Cardinality(Held(Keys)) - Cardinality(Held(Keys) \cap out)
    BY <1>6, FS_Difference
  <2>2. IsFiniteSet(Held(out))
    BY HeldFinite
  <2> QED BY <1>6, <2>1, <2>2, FS_CardinalityType
<1>8. /\ inUse \in Nat /\ Cardinality(Held(Keys)) <= inUse
      /\ inUse' = inUse - Cardinality(Held(out)) /\ inUse' \in Nat /\ inUse' <= inUse
  <2>1. inUse \in Nat /\ Cardinality(Held(Keys)) <= inUse
    BY DEF TypeOK, ReadBudgetCovered
  <2> QED BY <1>1, <1>7, <2>1 DEF Returned
<1>9. TypeOK'
  <2>1. DOMAIN pending' \subseteq Keys /\ \A k \in DOMAIN pending' : pending'[k] \in Response
    BY <1>3 DEF TypeOK
  <2>2. answered' \in [Keys -> 0 .. MaxAsks]
    <3>1. \A k \in DOMAIN pending : pending[k].ask \in 0 .. MaxAsks
      BY PendingTypes
    <3> QED BY <1>1, <3>1 DEF TypeOK
  <2>3. drains' \subseteq Peers
    BY <1>1 DEF TypeOK
  <2> QED BY <1>1, <1>4, <1>8, <2>1, <2>2, <2>3 DEF TypeOK
<1>10. PendingIsNewest'
  BY <1>1, <1>3, <1>5 DEF PendingIsNewest
<1>11. ReadsHold'
  BY <1>6 DEF ReadsHold
<1>12. NoResponseStranded'
  <2>1. ASSUME NEW j \in DOMAIN pending' PROVE j \in Range(queue'[PeerOf[j]])
    <3>1. j \in DOMAIN pending /\ j \notin out /\ j \in Keys /\ PeerOf[j] \in Peers
      BY <1>3 DEF TypeOK
    <3>2. j \in Range(queue[PeerOf[j]])
      BY <3>1 DEF NoResponseStranded
    <3> QED BY <1>2, <1>4, <3>1, <3>2
  <2>2. ASSUME NEW o \in Peers PROVE queue'[o] # <<>> <=> o \in drains'
    <3>1. CASE o = p
      BY <1>1, <1>2, <1>4, <3>1
    <3>2. CASE o # p
      BY <1>1, <1>4, <3>2 DEF NoResponseStranded
    <3> QED BY <3>1, <3>2
  <2> QED BY <2>1, <2>2 DEF NoResponseStranded
<1>13. ReadBudgetCovered'
  <2>1. /\ ReadLimit # 0 => inUse <= ReadLimit
        /\ (\A j \in Reads : asked[j] <= 1) => Cardinality(Held(Keys)) = inUse
    BY DEF ReadBudgetCovered
  <2>2. Cardinality(Held(Keys)') <= inUse'
    BY <1>7, <1>8
  <2>3. ReadLimit # 0 => inUse' <= ReadLimit
    BY <1>8, <2>1, SesResponderAssumption
  <2>4. (\A j \in Reads : asked'[j] <= 1) => Cardinality(Held(Keys)') = inUse'
    BY <1>1, <1>7, <1>8, <2>1
  <2> QED BY <2>2, <2>3, <2>4 DEF ReadBudgetCovered
<1> QED BY <1>9, <1>10, <1>11, <1>12, <1>13

(* The tables are cleared, or nothing but the PDC layer changes.           *)
LEMMA OtherSteps ==
  ASSUME IInv, Reset \/ RoomChanges \/ UNCHANGED vars
  PROVE  IInv'
<1> USE DEF IInv
<1>1. CASE Reset
  <2>1. /\ queue' = [p \in Peers |-> <<>>] /\ drains' = {}
        /\ inUse' = 0 /\ room' = room
        /\ asked' = [k \in Keys |-> 0] /\ answered' = [k \in Keys |-> 0]
        /\ DOMAIN pending' = {} /\ Held(Keys)' = {}
    BY <1>1 DEF Reset, Held
  <2>2. TypeOK'
    BY <2>1 DEF TypeOK
  <2>3. PendingIsNewest' /\ ReadsHold' /\ NoResponseStranded'
    BY <2>1 DEF PendingIsNewest, ReadsHold, NoResponseStranded
  <2>4. Cardinality(Held(Keys)') = 0
    BY <2>1, FS_EmptySet
  <2>5. ReadBudgetCovered'
    BY <2>1, <2>4, SesResponderAssumption DEF ReadBudgetCovered
  <2> QED BY <2>2, <2>3, <2>5
<1>2. CASE RoomChanges \/ UNCHANGED vars
  <2>1. /\ UNCHANGED <<pending, queue, drains, inUse, asked, answered>>
        /\ room' \in BOOLEAN
    BY <1>2 DEF RoomChanges, vars, TypeOK
  <2>2. TypeOK'
    BY <2>1 DEF TypeOK
  <2>3. PendingIsNewest' /\ NoResponseStranded'
    BY <2>1 DEF PendingIsNewest, NoResponseStranded
  <2>4. ReadsHold' /\ ReadBudgetCovered'
    BY <2>1 DEF Held, ReadsHold, ReadBudgetCovered
  <2> QED BY <2>2, <2>3, <2>4
<1> QED BY <1>1, <1>2

-----------------------------------------------------------------------------
(* The theorems.                                                           *)

LEMMA NextHolds == IInv /\ [Next]_vars => IInv'
<1> SUFFICES ASSUME IInv, [Next]_vars PROVE IInv'
  OBVIOUS
<1>1. CASE \E k \in Keys : HandleIncomingRead(k)
  BY <1>1, RespondStep DEF HandleIncomingRead
<1>2. CASE \E k \in Keys : HandleIncomingOther(k)
  BY <1>2, RespondStep DEF HandleIncomingOther
<1>3. CASE \E p \in Peers, due \in BOOLEAN : DrainEvent(p, due)
  BY <1>3, DrainStep DEF DrainEvent
<1>4. CASE \E p \in Peers : PeriodicDrain(p)
  BY <1>4, DrainStep DEF PeriodicDrain
<1>5. CASE Reset \/ RoomChanges \/ UNCHANGED vars
  BY <1>5, OtherSteps
<1> QED BY <1>1, <1>2, <1>3, <1>4, <1>5 DEF Next

(* The invariant holds in every state of every behaviour.                  *)
THEOREM Invariance == Spec => []IInv
<1>1. IInv /\ [Next]_vars => IInv'
  BY NextHolds
<1> QED BY InitHolds, <1>1, PTL DEF Spec

(* The tables of pending responses keep their types.                       *)
THEOREM TypeCorrect == Spec => []TypeOK
<1>1. IInv => TypeOK
  BY DEF IInv
<1> QED BY Invariance, <1>1, PTL

(* A pending response is queued, and its queue will be drained.            *)
THEOREM ResponsesStayQueued == Spec => []NoResponseStranded
<1>1. IInv => NoResponseStranded
  BY DEF IInv
<1> QED BY Invariance, <1>1, PTL

(* An older response never takes the place of the newest one of its key.   *)
THEOREM NewestWins == Spec => []NewestAnswered
<1>1. IInv => NewestAnswered
  BY DEF IInv, PendingIsNewest, NewestAnswered
<1> QED BY Invariance, <1>1, PTL

(* Reservations of the read budget outlive their responses only when       *)
(* requests are repeated.                                                  *)
THEOREM BudgetIsCovered == Spec => []ReadBudgetCovered
<1>1. IInv => ReadBudgetCovered
  BY DEF IInv
<1> QED BY Invariance, <1>1, PTL
=============================================================================
