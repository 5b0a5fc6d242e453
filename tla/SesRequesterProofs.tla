------------------------- MODULE SesRequesterProofs -------------------------
(***************************************************************************)
(* Theorems about the requester side of a SesManager, for any requests,    *)
(* peers, limits and numbers of packets and retries.                       *)
(***************************************************************************)
EXTENDS SesRequester, FiniteSetTheorems, WellFoundedInduction,
        SequenceTheorems, TLAPS

USE SesRequesterAssumption

(* Only live requests hold or wait for anything.                           *)
OnlyLiveAct ==
  /\ waiting \cup reserved \cup linked \cup targets \subseteq Live
  /\ \A k \in Requests : retry[k] # "none" => k \in Live

(* blockedQueueLinked tells the truth about the queue.                     *)
LinkedIsQueued == \A k \in linked : k \in Range(queue[PeerOf[k]])

(* A retry event is stale because the attempt it would replace has been    *)
(* made, so that attempt drives the request.                               *)
StaleIsCovered ==
  \A k \in Requests : retry[k] = "stale" => k \in waiting \cup linked

(* The request whose budget of retries is exceeded is finished.            *)
RetriesLeft == \A k \in Requests \ Finished : retries[k] <= MaxRetries

IInv ==
  /\ TypeOK
  /\ OnlyLiveAct
  /\ LinkedIsQueued
  /\ StaleIsCovered
  /\ RetriesLeft
  /\ LiveIsDriven
  /\ BudgetCovered

-----------------------------------------------------------------------------
(* The queues.                                                             *)

(* The first index of e in s, which SelectInSeq finds.                     *)
LEMMA FirstIndex ==
  ASSUME NEW S, NEW s \in Seq(S), NEW e, \E i \in 1 .. Len(s) : s[i] = e
  PROVE  LET m == SelectInSeq(s, LAMBDA v : v = e)
         IN  m \in 1 .. Len(s) /\ s[m] = e
<1> DEFINE I == {i \in 1 .. Len(s) : s[i] = e}
<1>1. I # {} /\ I \in SUBSET Nat
  OBVIOUS
<1>2. \E x \in I : \A y \in I : x <= y
  <2> HIDE DEF I
  <2>1. \E x \in I : \A y \in I : ~ (<<y, x>> \in OpToRel(<, Nat))
    BY <1>1, WFMin, NatLessThanWellFounded, Zenon
  <2>2. PICK x \in I : \A y \in I : ~ (<<y, x>> \in OpToRel(<, Nat))
    BY <2>1
  <2>3. ASSUME NEW y \in I
        PROVE  x <= y
    <3>1. x \in Nat /\ y \in Nat
      BY <1>1
    <3>2. ~ (y < x)
      BY <2>2, <3>1 DEF OpToRel
    <3> QED BY <3>1, <3>2
  <2> QED BY <2>3
<1>3. Min(I) \in I
  BY <1>2 DEF Min
<1>4. SelectInSeq(s, LAMBDA v : v = e) = Min(I)
  BY <1>1 DEF SelectInSeq
<1> QED BY <1>3, <1>4

(* What is at an index of a sequence is in its range.                      *)
LEMMA IndexedInRange ==
  ASSUME NEW S, NEW s \in Seq(S), NEW j \in 1 .. Len(s)
  PROVE  s[j] \in Range(s)
  BY DEF Range

(* RemoveFirst leaves a sequence over the same set, and every other        *)
(* element in it.                                                          *)
LEMMA RemoveFirstKeeps ==
  ASSUME NEW S, NEW s \in Seq(S), NEW e
  PROVE  /\ RemoveFirst(s, e) \in Seq(S)
         /\ \A x \in Range(s) : x # e => x \in Range(RemoveFirst(s, e))
<1>1. CASE ~ \E i \in 1 .. Len(s) : s[i] = e
  BY <1>1 DEF RemoveFirst
<1>2. CASE \E i \in 1 .. Len(s) : s[i] = e
  <2> DEFINE m == SelectInSeq(s, LAMBDA v : v = e)
             a == SubSeq(s, 1, m - 1)
             b == SubSeq(s, m + 1, Len(s))
  <2>1. m \in 1 .. Len(s) /\ s[m] = e
    BY <1>2, FirstIndex
  <2>2. RemoveFirst(s, e) = a \o b
    BY <1>2 DEF RemoveFirst, RemoveAt
  <2> HIDE DEF m
  <2>3. /\ a \in Seq(S) /\ Len(a) = m - 1
        /\ \A i \in 1 .. (m - 1) : a[i] = s[i]
    BY <2>1, SubSeqProperties
  <2>4. /\ b \in Seq(S) /\ Len(b) = Len(s) - m
        /\ \A i \in 1 .. (Len(s) - m) : b[i] = s[m + i]
    BY <2>1, SubSeqProperties
  <2> HIDE DEF a, b
  <2>5. /\ a \o b \in Seq(S) /\ Len(a \o b) = Len(s) - 1
        /\ \A i \in 1 .. (Len(s) - 1) :
             (a \o b)[i] = IF i <= Len(a) THEN a[i] ELSE b[i - Len(a)]
    BY <2>1, <2>3, <2>4
  <2>6. ASSUME NEW x \in Range(s), x # e
        PROVE  x \in Range(a \o b)
    <3>1. PICK j \in 1 .. Len(s) : s[j] = x
      BY DEF Range
    <3>2. CASE j < m
      <4>1. (a \o b)[j] = x /\ j \in 1 .. (Len(s) - 1)
        BY <2>1, <2>3, <2>5, <3>1, <3>2
      <4> QED BY <4>1, <2>5, IndexedInRange
    <3>3. CASE j > m
      <4>1. /\ j - 1 \in 1 .. (Len(s) - 1)
            /\ ~ (j - 1 <= Len(a))
            /\ j - 1 - Len(a) = j - m
            /\ j - m \in 1 .. (Len(s) - m)
        BY <2>1, <2>3, <3>3
      <4>2. (a \o b)[j - 1] = b[j - m]
        BY <4>1, <2>5
      <4>3. b[j - m] = s[m + (j - m)] /\ m + (j - m) = j
        BY <4>1, <2>1, <2>4
      <4> QED BY <3>1, <4>1, <4>2, <4>3, <2>5, IndexedInRange
    <3> QED BY <2>1, <2>6, <3>1, <3>2, <3>3
  <2> QED BY <2>2, <2>5, <2>6
<1> QED BY <1>1, <1>2

(* Every request that may still be linked stays queued when k leaves.      *)
LEMMA UnqueuedKeeps ==
  ASSUME NEW q \in [Peers -> Seq(Requests)], NEW k \in Requests
  PROVE  /\ Unqueued(q, k) \in [Peers -> Seq(Requests)]
         /\ \A j \in Requests \ {k} :
              j \in Range(q[PeerOf[j]]) => j \in Range(Unqueued(q, k)[PeerOf[j]])
<1>1. PeerOf[k] \in Peers /\ q[PeerOf[k]] \in Seq(Requests)
  OBVIOUS
<1>2. /\ RemoveFirst(q[PeerOf[k]], k) \in Seq(Requests)
      /\ \A x \in Range(q[PeerOf[k]]) :
           x # k => x \in Range(RemoveFirst(q[PeerOf[k]], k))
  BY <1>1, RemoveFirstKeeps
<1>3. Unqueued(q, k) = [q EXCEPT ![PeerOf[k]] = RemoveFirst(q[PeerOf[k]], k)]
  BY DEF Unqueued
<1>4. Unqueued(q, k) \in [Peers -> Seq(Requests)]
  BY <1>1, <1>2, <1>3
<1>5. ASSUME NEW j \in Requests \ {k}, j \in Range(q[PeerOf[j]])
      PROVE  j \in Range(Unqueued(q, k)[PeerOf[j]])
  <2>1. CASE PeerOf[j] = PeerOf[k]
    BY <1>1, <1>2, <1>3, <1>5, <2>1
  <2>2. CASE PeerOf[j] # PeerOf[k]
    BY <1>3, <1>5, <2>2
  <2> QED BY <2>1, <2>2
<1> QED BY <1>4, <1>5

(* Appending to a sequence keeps what is in it and adds the new element.   *)
LEMMA AppendKeeps ==
  ASSUME NEW S, NEW s \in Seq(S), NEW e \in S
  PROVE  /\ Append(s, e) \in Seq(S)
         /\ e \in Range(Append(s, e))
         /\ Range(s) \subseteq Range(Append(s, e))
<1>1. /\ Append(s, e) \in Seq(S)
      /\ Len(Append(s, e)) = Len(s) + 1
      /\ Append(s, e)[Len(s) + 1] = e
      /\ \A i \in 1 .. Len(s) : Append(s, e)[i] = s[i]
  BY AppendProperties
<1>2. e \in Range(Append(s, e))
  <2>1. Len(s) + 1 \in 1 .. Len(Append(s, e))
    BY <1>1
  <2>2. Append(s, e)[Len(s) + 1] \in Range(Append(s, e))
    BY <1>1, <2>1, IndexedInRange, Zenon
  <2> QED BY <1>1, <2>2, Zenon
<1>3. ASSUME NEW x \in Range(s)
      PROVE  x \in Range(Append(s, e))
  <2>1. PICK i \in 1 .. Len(s) : s[i] = x
    BY DEF Range
  <2>2. i \in 1 .. Len(Append(s, e)) /\ Append(s, e)[i] = x
    BY <1>1, <2>1
  <2> QED BY <1>1, <2>2, IndexedInRange
<1> QED BY <1>1, <1>2, <1>3

-----------------------------------------------------------------------------
(* The budgets.                                                            *)

(* How many of reserved count for a budget when k leaves it.               *)
LEMMA CountAfterRemoving ==
  ASSUME reserved \subseteq Sends \cup Writes, NEW b \in Budgets, NEW k
  PROVE  LET n == Cardinality(reserved \cap Members(b))
             m == Cardinality((reserved \ {k}) \cap Members(b))
         IN  /\ n \in Nat /\ m \in Nat /\ m <= n
             /\ k \in reserved /\ b = Budget(k) => m = n - 1
<1> DEFINE R == reserved \cap Members(b)
<1>1. IsFiniteSet(R)
  BY FS_Subset DEF Requests
<1>2. (reserved \ {k}) \cap Members(b) = R \ {k}
  OBVIOUS
<1>3. /\ IsFiniteSet(R \ {k})
      /\ Cardinality(R \ {k}) =
           IF k \in R THEN Cardinality(R) - 1 ELSE Cardinality(R)
  BY <1>1, FS_RemoveElement
<1>4. Cardinality(R) \in Nat /\ Cardinality(R \ {k}) \in Nat
  BY <1>1, <1>3, FS_CardinalityType
<1>5. k \in reserved /\ b = Budget(k) => k \in R
  BY DEF Budget, Members
<1> QED BY <1>2, <1>3, <1>4, <1>5

(* How many of reserved count for a budget when k joins it.                *)
LEMMA CountAfterAdding ==
  ASSUME reserved \subseteq Sends \cup Writes, NEW b \in Budgets,
         NEW k \in Sends \cup Writes
  PROVE  LET n == Cardinality(reserved \cap Members(b))
             m == Cardinality((reserved \cup {k}) \cap Members(b))
         IN  /\ n \in Nat /\ m \in Nat
             /\ m = n \/ (b = Budget(k) /\ m = n + 1)
             /\ k \in reserved => m = n
<1> DEFINE R == reserved \cap Members(b)
<1>1. IsFiniteSet(R)
  BY FS_Subset DEF Requests
<1>2. Cardinality(R) \in Nat
  BY <1>1, FS_CardinalityType
<1>3. CASE k \in Members(b)
  <2>1. (reserved \cup {k}) \cap Members(b) = R \cup {k}
    BY <1>3
  <2>2. Cardinality(R \cup {k}) =
          IF k \in R THEN Cardinality(R) ELSE Cardinality(R) + 1
    BY <1>1, FS_AddElement
  <2>3. b = Budget(k)
    BY <1>3 DEF Budget, Members, Budgets
  <2>4. k \in reserved => k \in R
    BY <1>3
  <2> DEFINE n == Cardinality(R)
             m == Cardinality((reserved \cup {k}) \cap Members(b))
  <2>5. n \in Nat /\ m = IF k \in R THEN n ELSE n + 1
    BY <1>2, <2>1, <2>2
  <2> HIDE DEF n, m
  <2>6. /\ m \in Nat
        /\ m = n \/ (b = Budget(k) /\ m = n + 1)
        /\ k \in reserved => m = n
    BY <2>3, <2>4, <2>5
  <2> QED BY <2>5, <2>6 DEF n, m
<1>4. CASE k \notin Members(b)
  <2>1. (reserved \cup {k}) \cap Members(b) = R
    BY <1>4
  <2> QED BY <1>2, <2>1
<1> QED BY <1>3, <1>4

-----------------------------------------------------------------------------
(* The ways a handler can end a request, queue it or send it.              *)

(* What the rest of a handler that ends k may have done: sent packets and  *)
(* counted a retry of k.                                                   *)
RestKept(k) ==
  /\ retries' \in [Requests -> 0 .. (MaxRetries + 1)]
  /\ \A j \in Requests \ {k} : retries'[j] = retries[j]
  /\ flight' \in [Requests -> 0 .. PdcRoom]
  /\ draining' \in Peers \cup {Idle}

(* The queues q still hold every linked request but k.                     *)
QueuesServe(q, k) ==
  /\ q \in [Peers -> Seq(Requests)]
  /\ \A j \in linked \ {k} : j \in Range(q[PeerOf[j]])

(* TerminalizeRequest, for a request of any state.                         *)
LEMMA TerminalizeKeeps ==
  ASSUME IInv, NEW k \in Requests, NEW q, NEW outcome \in Outcomes,
         NEW holds \in BOOLEAN, NEW freed \in BOOLEAN,
         QueuesServe(q, k), holds => k \in reserved, RestKept(k),
         Terminalize(q, k, outcome, holds, freed)
  PROVE  IInv'
<1> USE DEF Terminalize, RestKept, QueuesServe
<1> DEFINE u == Unqueued(q, k)
<1>1. /\ u \in [Peers -> Seq(Requests)]
      /\ \A j \in linked \ {k} : j \in Range(u[PeerOf[j]])
  BY UnqueuedKeeps DEF IInv, TypeOK
<1>2. queue' = u /\ wakeups' = WakeupsAfter(u, PeerOf[k], holds \/ freed)
  OBVIOUS
<1> HIDE DEF u
<1>3. /\ Live' = Live \ {k}
      /\ Finished' = Finished \cup {k}
  BY DEF Live, Finished, Outcomes, IInv, TypeOK
<1>4. /\ inUse' \in [Budgets -> Nat]
      /\ \A b \in Budgets : inUse'[b] <= inUse[b]
      /\ \A b \in Budgets : b # Budget(k) => inUse'[b] = inUse[b]
      /\ ~holds => inUse' = inUse
      /\ holds => inUse'[Budget(k)] >= inUse[Budget(k)] - 1
  BY DEF IInv, TypeOK, Returned, Budgets, Budget
<1>5. TypeOK'
  <2>1. wakeups' \subseteq Peers
    BY <1>2 DEF WakeupsAfter, IInv, TypeOK
  <2>2. MessageLimit # 0 => \A b \in Budgets : inUse'[b] <= MessageLimit
    BY <1>4 DEF IInv, TypeOK
  <2> QED BY <1>1, <1>2, <1>4, <2>1, <2>2 DEF IInv, TypeOK, Outcomes
<1>6. OnlyLiveAct'
  BY <1>3 DEF IInv, TypeOK, OnlyLiveAct
<1>7. LinkedIsQueued'
  BY <1>1, <1>2 DEF LinkedIsQueued
<1>8. StaleIsCovered'
  BY DEF IInv, TypeOK, StaleIsCovered
<1>9. RetriesLeft'
  BY <1>3 DEF IInv, RetriesLeft
<1>10. LiveIsDriven'
  BY <1>1, <1>2, <1>3 DEF IInv, TypeOK, LiveIsDriven
<1>11. BudgetCovered'
  <2> SUFFICES ASSUME NEW b \in Budgets
               PROVE  Cardinality(reserved' \cap Members(b)) <= inUse'[b]
    BY DEF BudgetCovered, Members
  <2>1. Cardinality(reserved \cap Members(b)) <= inUse[b]
    BY DEF IInv, BudgetCovered
  <2>2. inUse[b] \in Nat /\ inUse'[b] \in Nat
    BY <1>4 DEF IInv, TypeOK
  <2> DEFINE n == Cardinality(reserved \cap Members(b))
             m == Cardinality((reserved \ {k}) \cap Members(b))
  <2>3. /\ n \in Nat /\ m \in Nat /\ m <= n
        /\ k \in reserved /\ b = Budget(k) => m = n - 1
    <3>1. reserved \subseteq Sends \cup Writes
      BY DEF IInv, TypeOK
    <3> QED BY <3>1, CountAfterRemoving
  <2>4. reserved' \cap Members(b) = (reserved \ {k}) \cap Members(b)
    OBVIOUS
  <2>5. n <= inUse[b]
    BY <2>1
  <2> HIDE DEF n, m, Terminalize
  <2>6. m <= inUse'[b]
    <3>1. CASE holds /\ b = Budget(k)
      BY <1>4, <2>2, <2>3, <2>5, <3>1
    <3>2. CASE ~holds \/ b # Budget(k)
      BY <1>4, <2>2, <2>3, <2>5, <3>2
    <3> QED BY <3>1, <3>2
  <2> QED BY <2>4, <2>6 DEF m
<1> QED BY <1>5, <1>6, <1>7, <1>8, <1>9, <1>10, <1>11 DEF IInv

(* A request that finds no budget waits in the queue of its peer.          *)
LEMMA BlockedKeeps ==
  ASSUME IInv, NEW k \in Requests \ Finished,
         NEW entered \in BOOLEAN, NEW holds \in BOOLEAN,
         NEW pending \in {"none", "armed", "stale"},
         entered => k \in linked,
         Blocked(k, entered, holds, pending),
         draining' \in Peers \cup {Idle}
  PROVE  IInv'
<1> USE DEF Blocked
<1>1. /\ queue' \in [Peers -> Seq(Requests)]
      /\ \A j \in linked : j \in Range(queue'[PeerOf[j]])
      /\ k \in Range(queue'[PeerOf[k]])
  <2>1. CASE entered
    BY <2>1 DEF IInv, TypeOK, LinkedIsQueued
  <2>2. CASE ~entered
    <3>1. PeerOf[k] \in Peers /\ queue[PeerOf[k]] \in Seq(Requests)
      BY DEF IInv, TypeOK
    <3>2. /\ Append(queue[PeerOf[k]], k) \in Seq(Requests)
          /\ k \in Range(Append(queue[PeerOf[k]], k))
          /\ Range(queue[PeerOf[k]]) \subseteq Range(Append(queue[PeerOf[k]], k))
      BY <3>1, AppendKeeps
    <3>3. queue' = [queue EXCEPT ![PeerOf[k]] = Append(queue[PeerOf[k]], k)]
      BY <2>2
    <3>4. queue' \in [Peers -> Seq(Requests)] /\ k \in Range(queue'[PeerOf[k]])
      BY <3>1, <3>2, <3>3 DEF IInv, TypeOK
    <3>5. ASSUME NEW j \in linked
          PROVE  j \in Range(queue'[PeerOf[j]])
      <4>1. j \in Range(queue[PeerOf[j]])
        BY DEF IInv, LinkedIsQueued
      <4>2. PeerOf[j] \in Peers
        BY DEF IInv, TypeOK
      <4> QED BY <3>1, <3>2, <3>3, <4>1, <4>2 DEF IInv, TypeOK
    <3> QED BY <3>4, <3>5
  <2> QED BY <2>1, <2>2
<1>2. /\ Live' = Live \cup {k}
      /\ Finished' = Finished
  BY DEF Live, Finished, Outcomes, IInv, TypeOK
<1>3. TypeOK'
  BY <1>1 DEF IInv, TypeOK
<1>4. OnlyLiveAct'
  BY <1>2 DEF IInv, TypeOK, OnlyLiveAct
<1>5. LinkedIsQueued'
  BY <1>1 DEF LinkedIsQueued
<1>6. StaleIsCovered'
  BY DEF IInv, TypeOK, StaleIsCovered
<1>7. RetriesLeft'
  BY <1>2 DEF IInv, RetriesLeft
<1>8. LiveIsDriven'
  BY <1>1, <1>2 DEF IInv, TypeOK, LiveIsDriven
<1>9. BudgetCovered'
  <2> SUFFICES ASSUME NEW b \in Budgets
               PROVE  Cardinality((reserved \ {k}) \cap Members(b)) <= inUse[b]
    BY DEF BudgetCovered, Members
  <2>1. /\ Cardinality(reserved \cap Members(b)) <= inUse[b]
        /\ inUse[b] \in Nat
        /\ reserved \subseteq Sends \cup Writes
    BY DEF IInv, BudgetCovered, TypeOK
  <2> DEFINE n == Cardinality(reserved \cap Members(b))
             m == Cardinality((reserved \ {k}) \cap Members(b))
  <2>2. n \in Nat /\ m \in Nat /\ m <= n
    BY <2>1, CountAfterRemoving
  <2>3. n <= inUse[b]
    BY <2>1
  <2> HIDE DEF n, m
  <2>4. m <= inUse[b]
    BY <2>1, <2>2, <2>3
  <2> QED BY <2>4 DEF m
<1> QED BY <1>3, <1>4, <1>5, <1>6, <1>7, <1>8, <1>9 DEF IInv

(* The queues stay typed, and the other linked requests in them, when a    *)
(* dispatch is admitted.                                                   *)
LEMMA AdmittingKeeps ==
  ASSUME IInv, NEW k \in Requests, NEW entered \in BOOLEAN
  PROVE  QueuesServe(Admitting(k, entered), k)
<1> USE DEF QueuesServe
<1>1. /\ queue \in [Peers -> Seq(Requests)]
      /\ linked \subseteq Requests
      /\ \A j \in linked : j \in Range(queue[PeerOf[j]])
  BY DEF IInv, TypeOK, LinkedIsQueued
<1>2. CASE entered
  BY <1>1, <1>2, UnqueuedKeeps DEF Admitting
<1>3. CASE ~entered
  BY <1>1, <1>3 DEF Admitting
<1> QED BY <1>2, <1>3

(* A request that goes out waits for its answer, and holds its budget.     *)
LEMMA SentKeeps ==
  ASSUME IInv, NEW k \in Requests \ Finished,
         NEW entered \in BOOLEAN, NEW holds \in BOOLEAN,
         NEW pending \in {"none", "armed", "stale"},
         holds => k \in reserved,
         Sent(k, entered, holds, pending),
         draining' \in Peers \cup {Idle}
  PROVE  IInv'
<1> USE DEF Sent
<1>1. /\ queue' \in [Peers -> Seq(Requests)]
      /\ \A j \in linked' : j \in Range(queue'[PeerOf[j]])
  BY AdmittingKeeps DEF QueuesServe
<1>2. /\ Live' = Live \cup {k}
      /\ Finished' = Finished
  BY DEF Live, Finished, Outcomes, IInv, TypeOK
<1>3. Size(k) \in Nat
  BY DEF Size
<1>4. /\ inUse' \in [Budgets -> Nat]
      /\ \A b \in Budgets : inUse'[b] >= inUse[b]
      /\ MessageLimit # 0 => \A b \in Budgets : inUse'[b] <= MessageLimit
      /\ Budgeted(k) /\ ~holds => inUse'[Budget(k)] = inUse[Budget(k)] + 1
  <2>1. /\ inUse \in [Budgets -> Nat]
        /\ MessageLimit # 0 => \A b \in Budgets : inUse[b] <= MessageLimit
        /\ Budget(k) \in Budgets
    BY DEF IInv, TypeOK, Budget, Budgets
  <2>2. CASE Budgeted(k) /\ ~holds
    <3>1. inUse' = [inUse EXCEPT ![Budget(k)] = @ + 1]
      BY <2>2 DEF Reserving
    <3>2. MessageLimit = 0 \/ inUse[Budget(k)] < MessageLimit
      BY <2>2 DEF Admitted
    <3> HIDE DEF Sent
    <3> QED BY <2>1, <2>2, <3>1, <3>2
  <2>3. CASE ~(Budgeted(k) /\ ~holds)
    <3>1. inUse' = inUse
      BY <2>3 DEF Reserving
    <3> HIDE DEF Sent
    <3> QED BY <2>1, <2>3, <3>1
  <2> QED BY <2>2, <2>3
<1>5. TypeOK'
  <2>1. flight' \in [Requests -> 0 .. PdcRoom]
    BY <1>3 DEF IInv, TypeOK
  <2>2. wakeups' \subseteq Peers
    BY DEF WakeupsAfter, IInv, TypeOK
  <2> QED BY <1>1, <1>4, <2>1, <2>2 DEF IInv, TypeOK, Budgeted
<1>6. OnlyLiveAct'
  BY <1>2 DEF IInv, TypeOK, OnlyLiveAct
<1>7. LinkedIsQueued'
  BY <1>1 DEF LinkedIsQueued
<1>8. StaleIsCovered'
  BY DEF IInv, TypeOK, StaleIsCovered
<1>9. RetriesLeft'
  BY <1>2 DEF IInv, RetriesLeft
<1>10. LiveIsDriven'
  BY <1>1, <1>2 DEF IInv, TypeOK, LiveIsDriven
<1>11. BudgetCovered'
  <2> SUFFICES ASSUME NEW b \in Budgets
               PROVE  Cardinality(reserved' \cap Members(b)) <= inUse'[b]
    BY DEF BudgetCovered, Members
  <2>1. /\ Cardinality(reserved \cap Members(b)) <= inUse[b]
        /\ inUse[b] \in Nat /\ inUse'[b] \in Nat
        /\ reserved \subseteq Sends \cup Writes
    BY <1>4 DEF IInv, BudgetCovered, TypeOK
  <2>2. CASE Budgeted(k)
    <3> DEFINE n == Cardinality(reserved \cap Members(b))
               m == Cardinality((reserved \cup {k}) \cap Members(b))
    <3>1. k \in Sends \cup Writes
      BY <2>2 DEF Budgeted
    <3>2. /\ n \in Nat /\ m \in Nat
          /\ m = n \/ (b = Budget(k) /\ m = n + 1)
          /\ k \in reserved => m = n
      BY <2>1, <3>1, CountAfterAdding
    <3>3. reserved' = reserved \cup {k}
      BY <2>2
    <3>4. n <= inUse[b]
      BY <2>1
    <3> HIDE DEF n, m, Sent
    <3>5. m <= inUse'[b]
      <4>1. CASE m = n
        BY <1>4, <2>1, <3>2, <3>4, <4>1
      <4>2. CASE b = Budget(k) /\ m = n + 1
        <5>1. ~holds
          BY <3>2, <4>2
        <5> QED BY <1>4, <2>1, <2>2, <3>2, <3>4, <4>2, <5>1
      <4> QED BY <3>2, <4>1, <4>2
    <3> QED BY <3>3, <3>5 DEF m
  <2>3. CASE ~Budgeted(k)
    <3>1. reserved' = reserved
      BY <2>3
    <3>2. Cardinality(reserved \cap Members(b)) \in Nat
      BY <2>1, CountAfterRemoving
    <3> HIDE DEF Sent
    <3> QED BY <1>4, <2>1, <3>1, <3>2
  <2> QED BY <2>2, <2>3
<1> QED BY <1>5, <1>6, <1>7, <1>8, <1>9, <1>10, <1>11 DEF IInv

(* DispatchRequestPackets.                                                 *)
LEMMA DispatchKeeps ==
  ASSUME IInv, NEW k \in Requests \ Finished,
         NEW entered \in BOOLEAN, NEW holds \in BOOLEAN,
         NEW pending \in {"none", "armed", "stale"},
         entered => k \in linked, holds => k \in reserved,
         Dispatch(k, entered, holds, pending),
         draining' \in Peers \cup {Idle}
  PROVE  IInv'
<1>1. /\ retries \in [Requests -> 0 .. (MaxRetries + 1)]
      /\ flight \in [Requests -> 0 .. PdcRoom]
      /\ k \in Requests
  BY DEF IInv, TypeOK
<1>2. /\ Size(k) \in Nat
      /\ Budgeted(k) \in BOOLEAN
      /\ "completed" \in Outcomes /\ "failed" \in Outcomes
  BY DEF Size, Budgeted, Outcomes
<1>3. QueuesServe(Admitting(k, entered), k)
  BY AdmittingKeeps
<1>4. CASE Blocked(k, entered, holds, pending)
  BY <1>4, BlockedKeeps
<1>5. CASE Sent(k, entered, holds, pending)
  BY <1>5, SentKeeps
<1>6. CASE SentSilently(k, entered, holds)
  <2>1. RestKept(k)
    BY <1>1, <1>2, <1>6 DEF SentSilently, RestKept
  <2>2. Terminalize(Admitting(k, entered), k, "completed", holds, TRUE)
    BY <1>6 DEF SentSilently
  <2> QED BY <1>1, <1>2, <1>3, <2>1, <2>2, TerminalizeKeeps
<1>7. CASE Refused(k, entered, holds)
  <2>1. PICK n \in 0 .. (Size(k) - 1) :
          /\ flight[k] + n <= PdcRoom
          /\ flight' = [flight EXCEPT ![k] = @ + n]
          /\ Terminalize(Admitting(k, entered), k, "failed", holds, Budgeted(k))
          /\ retries' = retries
    BY <1>7 DEF Refused
  <2>2. RestKept(k)
    BY <1>1, <1>2, <2>1 DEF RestKept
  <2> QED BY <1>1, <1>2, <1>3, <2>1, <2>2, TerminalizeKeeps
<1> QED BY <1>4, <1>5, <1>6, <1>7 DEF Dispatch

-----------------------------------------------------------------------------
(* The handlers.                                                           *)

(* Who is live, and with what, is settled by the lifecycle states.         *)
LEMMA QuietKeeps ==
  ASSUME IInv, UNCHANGED <<control, queue, inUse>>,
         flight' \in [Requests -> 0 .. PdcRoom],
         wakeups' \subseteq Peers, draining' \in Peers \cup {Idle}
  PROVE  IInv'
<1> USE DEF control
<1>1. Live' = Live /\ Finished' = Finished
  BY DEF Live, Finished
<1>2. TypeOK'
  BY DEF IInv, TypeOK
<1>3. OnlyLiveAct' /\ RetriesLeft'
  BY <1>1 DEF IInv, OnlyLiveAct, RetriesLeft
<1>4. LinkedIsQueued' /\ StaleIsCovered'
  BY DEF IInv, LinkedIsQueued, StaleIsCovered
<1>5. LiveIsDriven'
  BY <1>1 DEF IInv, LiveIsDriven
<1>6. BudgetCovered'
  BY DEF IInv, BudgetCovered, Members
<1> QED BY <1>2, <1>3, <1>4, <1>5, <1>6 DEF IInv

(* A live request is neither new nor finished.                             *)
LEMMA LiveIsNotFinished ==
  /\ Live \cap Finished = {} /\ Live \subseteq Requests
  /\ \A k \in Requests : phase[k] = "new" => k \notin Finished
  BY DEF Live, Finished, Outcomes

(* Ending a live request straight from its own queue.                      *)
LEMMA EndKeeps ==
  ASSUME IInv, NEW k \in Requests, NEW outcome \in Outcomes,
         NEW holds \in BOOLEAN, NEW freed \in BOOLEAN,
         holds => k \in reserved, RestKept(k),
         Terminalize(queue, k, outcome, holds, freed)
  PROVE  IInv'
<1>1. QueuesServe(queue, k)
  BY DEF QueuesServe, IInv, TypeOK, LinkedIsQueued
<1> QED BY <1>1, TerminalizeKeeps

(* ScheduleRetry of a live request.                                        *)
LEMMA ScheduleRetryKeeps ==
  ASSUME IInv, NEW k \in Live, ScheduleRetry(k),
         flight' \in [Requests -> 0 .. PdcRoom],
         draining' \in Peers \cup {Idle}
  PROVE  IInv'
<1>1. k \in Requests \ Finished
  BY LiveIsNotFinished
<1>2. retries[k] <= MaxRetries /\ retries[k] \in Nat
  BY <1>1 DEF IInv, TypeOK, RetriesLeft
<1>3. /\ retries' \in [Requests -> 0 .. (MaxRetries + 1)]
      /\ \A j \in Requests \ {k} : retries'[j] = retries[j]
      /\ retries'[k] = retries[k] + 1
  BY <1>1, <1>2 DEF ScheduleRetry, IInv, TypeOK
<1>4. CASE retries[k] + 1 > MaxRetries
  <2>1. Terminalize(queue, k, "failed", k \in reserved, FALSE)
    BY <1>4 DEF ScheduleRetry
  <2>2. RestKept(k) /\ "failed" \in Outcomes /\ k \in Requests
    BY <1>1, <1>3 DEF RestKept, Outcomes
  <2>3. (k \in reserved) \in BOOLEAN
    OBVIOUS
  <2> QED BY <2>1, <2>2, <2>3, EndKeeps
<1>5. CASE ~(retries[k] + 1 > MaxRetries)
  <2>1. /\ waiting' = waiting \ {k}
        /\ retry' = [retry EXCEPT ![k] = "armed"]
        /\ UNCHANGED <<phase, reserved, linked, targets, queue, wakeups, inUse>>
    BY <1>5 DEF ScheduleRetry
  <2>2. Live' = Live /\ Finished' = Finished
    BY <2>1 DEF Live, Finished
  <2>3. TypeOK'
    BY <1>3, <2>1 DEF IInv, TypeOK
  <2>4. OnlyLiveAct'
    BY <1>1, <2>1, <2>2 DEF IInv, OnlyLiveAct, TypeOK
  <2>5. LinkedIsQueued'
    BY <2>1 DEF IInv, LinkedIsQueued
  <2>6. StaleIsCovered'
    BY <2>1 DEF IInv, StaleIsCovered, TypeOK
  <2>7. RetriesLeft'
    <3>1. retries'[k] <= MaxRetries
      BY <1>2, <1>3, <1>5
    <3> QED BY <1>3, <2>2, <3>1 DEF IInv, RetriesLeft
  <2>8. LiveIsDriven'
    BY <1>1, <2>1, <2>2 DEF IInv, TypeOK, LiveIsDriven
  <2>9. BudgetCovered'
    BY <2>1 DEF IInv, BudgetCovered, Members
  <2> QED BY <2>3, <2>4, <2>5, <2>6, <2>7, <2>8, <2>9 DEF IInv
<1> QED BY <1>4, <1>5

(* An end or a retry, as a timeout, a NO_MATCH or an error decides.        *)
LEMMA EndOrRetryKeeps ==
  ASSUME IInv, NEW k \in Live, NEW outcome \in Outcomes,
         \/ ScheduleRetry(k)
         \/ /\ Terminalize(queue, k, outcome, k \in reserved, FALSE)
            /\ retries' = retries,
         flight' \in [Requests -> 0 .. PdcRoom],
         draining' \in Peers \cup {Idle}
  PROVE  IInv'
<1>1. CASE ScheduleRetry(k)
  BY <1>1, ScheduleRetryKeeps
<1>2. CASE /\ Terminalize(queue, k, outcome, k \in reserved, FALSE)
           /\ retries' = retries
  <2>1. RestKept(k) /\ k \in Requests
    BY <1>2, LiveIsNotFinished DEF RestKept, IInv, TypeOK
  <2>2. (k \in reserved) \in BOOLEAN
    OBVIOUS
  <2> QED BY <1>2, <2>1, <2>2, EndKeeps
<1> QED BY <1>1, <1>2

(* A handler other than the drain loop.                                    *)
LEMMA EventKeeps ==
  ASSUME IInv, Event
  PROVE  IInv'
<1>1. draining' \in Peers \cup {Idle}
  BY DEF Event, Wakeup, IInv, TypeOK
<1>2. /\ flight \in [Requests -> 0 .. PdcRoom]
      /\ wakeups \subseteq Peers
      /\ {"completed", "failed"} \subseteq Outcomes
  BY DEF IInv, TypeOK, Outcomes
<1>3. ASSUME NEW k \in Requests, Submit(k)
      PROVE  IInv'
  <2>1. k \in Requests \ Finished /\ Dispatch(k, FALSE, FALSE, "none")
    BY <1>3, LiveIsNotFinished DEF Submit
  <2> QED BY <1>1, <2>1, DispatchKeeps
<1>4. ASSUME NEW k \in Requests, ExecuteRetry(k)
      PROVE  IInv'
  <2>1. k \in Live /\ k \in Requests \ Finished
    BY <1>4, LiveIsNotFinished DEF ExecuteRetry, IInv, OnlyLiveAct
  <2>2. CASE Dispatch(k, FALSE, FALSE, "none")
    BY <1>1, <2>1, <2>2, DispatchKeeps
  <2>3. CASE /\ retry[k] = "stale"
             /\ retry' = [retry EXCEPT ![k] = "none"]
             /\ UNCHANGED <<phase, waiting, reserved, linked, retries, targets,
                            queue, wakeups, inUse, flight>>
    <3>1. Live' = Live /\ Finished' = Finished
      BY <2>3 DEF Live, Finished
    <3>2. TypeOK'
      BY <1>1, <2>3 DEF IInv, TypeOK
    <3>3. OnlyLiveAct' /\ RetriesLeft'
      BY <2>3, <3>1 DEF IInv, OnlyLiveAct, RetriesLeft, TypeOK
    <3>4. LinkedIsQueued' /\ StaleIsCovered'
      BY <2>3 DEF IInv, LinkedIsQueued, StaleIsCovered, TypeOK
    <3>5. LiveIsDriven'
      <4>1. k \in waiting \cup linked
        BY <2>1, <2>3 DEF IInv, StaleIsCovered
      <4>2. k \in linked => k \in Range(queue[PeerOf[k]])
        BY DEF IInv, LinkedIsQueued
      <4> QED BY <2>3, <3>1, <4>1, <4>2 DEF IInv, LiveIsDriven, Live, TypeOK
    <3>6. BudgetCovered'
      BY <2>3 DEF IInv, BudgetCovered, Members
    <3> QED BY <3>2, <3>3, <3>4, <3>5, <3>6 DEF IInv
  <2> QED BY <1>4, <2>2, <2>3 DEF ExecuteRetry
<1>5. ASSUME NEW k \in Requests, ResponseTimeout(k)
      PROVE  IInv'
  <2>1. k \in Live
    BY <1>5 DEF ResponseTimeout, IInv, OnlyLiveAct
  <2>2. \/ ScheduleRetry(k)
        \/ /\ Terminalize(queue, k, "failed", k \in reserved, FALSE)
           /\ retries' = retries
    BY <1>5 DEF ResponseTimeout
  <2>3. flight' = flight
    BY <1>5 DEF ResponseTimeout
  <2> QED BY <1>1, <1>2, <2>1, <2>2, <2>3, EndOrRetryKeeps
<1>6. ASSUME NEW k \in Requests, ReceiveResponse(k)
      PROVE  IInv'
  <2>1. flight' \in [Requests -> 0 .. PdcRoom]
    BY <1>2, <1>6 DEF ReceiveResponse
  <2>2. CASE phase[k] = "live"
    <3>1. k \in Live
      BY <2>2 DEF Live
    <3>2. PICK outcome \in Outcomes :
            \/ ScheduleRetry(k)
            \/ /\ Terminalize(queue, k, outcome, k \in reserved, FALSE)
               /\ retries' = retries
      BY <1>2, <1>6, <2>2
      DEF ReceiveResponse, ReceiveOk, ReceiveNoMatch, ReceiveError
    <3> QED BY <1>1, <2>1, <3>1, <3>2, EndOrRetryKeeps
  <2>3. CASE phase[k] # "live"
    BY <1>1, <1>2, <1>6, <2>1, <2>3, QuietKeeps DEF ReceiveResponse
  <2> QED BY <2>2, <2>3
<1>7. ASSUME NEW k \in Requests, Vanish(k)
      PROVE  IInv'
  <2>1. flight' \in [Requests -> 0 .. PdcRoom]
    BY <1>2, <1>7 DEF Vanish
  <2> QED BY <1>1, <1>2, <1>7, <2>1, QuietKeeps DEF Vanish
<1>8. ASSUME NEW p \in Peers, Wakeup(p)
      PROVE  IInv'
  BY <1>1, <1>2, <1>8, QuietKeeps DEF Wakeup
<1> QED BY <1>3, <1>4, <1>5, <1>6, <1>7, <1>8 DEF Event

(* An iteration of the drain loop.                                         *)
LEMMA DrainKeeps ==
  ASSUME IInv, Drain
  PROVE  IInv'
<1>1. draining \in Peers
  BY DEF Drain, IInv, TypeOK
<1>2. /\ flight \in [Requests -> 0 .. PdcRoom]
      /\ wakeups \subseteq Peers
  BY DEF IInv, TypeOK
<1>3. CASE DrainDone
  BY <1>2, <1>3, QuietKeeps DEF DrainDone
<1>4. ASSUME queue[draining] # <<>>, DrainHead(Head(queue[draining]))
      PROVE  IInv'
  <2> DEFINE k == Head(queue[draining])
  <2>1. k \in Requests
    BY <1>1, <1>4, HeadTailProperties DEF IInv, TypeOK
  <2>2. DrainHead(k)
    BY <1>4
  <2> HIDE DEF k
  <2>3. CASE /\ k \in Finished
             /\ queue' = Unqueued(queue, k)
             /\ wakeups' = WakeupsAfter(Unqueued(queue, k), PeerOf[k], FALSE)
             /\ UNCHANGED <<control, draining, inUse, flight>>
    <3>1. k \notin linked
      BY <2>3, LiveIsNotFinished DEF IInv, OnlyLiveAct
    <3>2. /\ queue' \in [Peers -> Seq(Requests)]
          /\ \A j \in linked : j \in Range(queue'[PeerOf[j]])
      BY <2>1, <2>3, <3>1, UnqueuedKeeps DEF IInv, TypeOK, LinkedIsQueued
    <3>3. wakeups' \subseteq Peers
      BY <1>2, <2>3 DEF WakeupsAfter
    <3>4. UNCHANGED <<phase, waiting, reserved, linked, retries, retry, targets,
                      draining, inUse, flight>>
      BY <2>3 DEF control
    <3>5. Live' = Live /\ Finished' = Finished
      BY <3>4 DEF Live, Finished
    <3>6. TypeOK'
      BY <3>2, <3>3, <3>4 DEF IInv, TypeOK
    <3>7. OnlyLiveAct' /\ RetriesLeft' /\ StaleIsCovered'
      BY <3>4, <3>5 DEF IInv, OnlyLiveAct, RetriesLeft, StaleIsCovered
    <3>8. LinkedIsQueued'
      BY <3>2, <3>4 DEF LinkedIsQueued
    <3>9. LiveIsDriven'
      BY <3>2, <3>4, <3>5 DEF IInv, LiveIsDriven
    <3>10. BudgetCovered'
      BY <3>4 DEF IInv, BudgetCovered, Members
    <3> QED BY <3>6, <3>7, <3>8, <3>9, <3>10 DEF IInv
  <2>4. CASE /\ k \in Live
             /\ Dispatch(k, k \in linked, k \in reserved, retry[k])
             /\ draining' = IF k \in linked' THEN Idle ELSE draining
    <3>1. k \in Requests \ Finished /\ retry[k] \in {"none", "armed", "stale"}
      BY <2>1, <2>4, LiveIsNotFinished DEF IInv, TypeOK
    <3>2. draining' \in Peers \cup {Idle}
      BY <1>1, <2>4
    <3>3. (k \in linked) \in BOOLEAN /\ (k \in reserved) \in BOOLEAN
      OBVIOUS
    <3> QED BY <2>4, <3>1, <3>2, <3>3, DispatchKeeps
  <2> QED BY <2>2, <2>3, <2>4 DEF DrainHead
<1> QED BY <1>3, <1>4 DEF Drain

(* A SesManager that has seen no request satisfies the invariant.          *)
LEMMA InitInv == Init => IInv
<1> SUFFICES ASSUME Init
             PROVE  IInv
  OBVIOUS
<1> USE DEF Init
<1>1. Live = {}
  BY DEF Live
<1>2. TypeOK
  BY DEF TypeOK, Budgets
<1>3. OnlyLiveAct /\ LinkedIsQueued /\ StaleIsCovered /\ LiveIsDriven
  BY <1>1 DEF OnlyLiveAct, LinkedIsQueued, StaleIsCovered, LiveIsDriven
<1>4. RetriesLeft
  BY DEF RetriesLeft
<1>5. BudgetCovered
  <2> SUFFICES ASSUME NEW b \in Budgets
               PROVE  Cardinality(reserved \cap Members(b)) <= inUse[b]
    BY DEF BudgetCovered
  <2>1. reserved \cap Members(b) = {}
    OBVIOUS
  <2>2. Cardinality({}) = 0
    BY FS_EmptySet
  <2> QED BY <2>1, <2>2
<1> QED BY <1>2, <1>3, <1>4, <1>5 DEF IInv

(* Every handler preserves the invariant.                                  *)
LEMMA NextInv == IInv /\ [Next]_vars => IInv'
<1>1. CASE IInv /\ Next
  BY <1>1, EventKeeps, DrainKeeps DEF Next
<1>2. CASE IInv /\ UNCHANGED vars
  BY <1>2, QuietKeeps DEF vars, IInv, TypeOK
<1> QED BY <1>1, <1>2

(* The inductive invariant holds in every reachable state.                 *)
THEOREM Invariance == Spec => []IInv
  BY InitInv, NextInv, PTL DEF Spec

-----------------------------------------------------------------------------
(* What follows from it.                                                   *)

(* The lifecycle state is well typed and the budgets never exceed their    *)
(* limits, whatever is retried, refused or answered late.                  *)
THEOREM TypeCorrect == Spec => []TypeOK
  BY Invariance, PTL DEF IInv

(* Every live request has a deadline, a retry that will be executed, or a  *)
(* place in its peer's queue: TerminalizeRequest, ScheduleRetry and        *)
(* DrainBlockedPeerQueue between them never strand one.                    *)
THEOREM LiveRequestsDriven == Spec => []LiveIsDriven
  BY Invariance, PTL DEF IInv

(* ReleaseSendAdmission and ReleaseWriteBudget always find what they give  *)
(* back counted, so their guards against going below zero are never used.  *)
THEOREM BudgetsCoverHolders == Spec => []BudgetCovered
  BY Invariance, PTL DEF IInv

(* TerminalizeRequest leaves no budget, READ target, deadline, queue link  *)
(* or retry behind, and no later handler brings one back.                  *)
THEOREM FinishedAreEmpty == Spec => []FinishedHoldsNothing
<1>1. IInv => FinishedHoldsNothing
  <2> SUFFICES ASSUME IInv, NEW k \in Finished
               PROVE  /\ k \notin reserved \cup waiting \cup targets \cup linked
                      /\ retry[k] = "none"
    BY DEF FinishedHoldsNothing
  <2>1. k \in Requests /\ k \notin Live
    BY LiveIsNotFinished DEF Finished
  <2> QED BY <2>1 DEF IInv, OnlyLiveAct
<1> QED BY <1>1, Invariance, PTL

(* A handler that ends, queues or sends k leaves the others alone.         *)
LEMMA DispatchTouchesOne ==
  ASSUME IInv, NEW k \in Requests, NEW entered, NEW holds, NEW pending,
         Dispatch(k, entered, holds, pending)
  PROVE  \A j \in Requests \ {k} : phase'[j] = phase[j] /\ flight'[j] = flight[j]
<1>1. phase \in [Requests -> {"new", "live"} \cup Outcomes]
      /\ flight \in [Requests -> 0 .. PdcRoom]
  BY DEF IInv, TypeOK
<1> QED BY <1>1
        DEF Dispatch, Blocked, Sent, SentSilently, Refused, Terminalize

(* A late response, a stale retry event, a leftover queue entry or a       *)
(* timeout never changes how a request ended, and never sends it again.    *)
THEOREM FinishedStayFinished == Spec => FinishedIsFinal
<1> DEFINE Final == \A k \in Finished :
                      phase'[k] = phase[k] /\ flight'[k] <= flight[k]
<1>1. ASSUME IInv, UNCHANGED <<phase, flight>>
      PROVE  Final
  <2>1. \A k \in Requests : flight[k] \in Nat
    BY <1>1 DEF IInv, TypeOK
  <2> QED BY <1>1, <2>1 DEF Finished
<1>2. ASSUME IInv, NEW k \in Requests \ Finished,
             \A j \in Requests \ {k} :
               phase'[j] = phase[j] /\ flight'[j] = flight[j]
      PROVE  Final
  <2>1. \A j \in Requests : flight[j] \in Nat
    BY <1>2 DEF IInv, TypeOK
  <2> QED BY <1>2, <2>1 DEF Finished
<1>3. ASSUME IInv, Event
      PROVE  Final
  <2>1. ASSUME NEW k \in Requests, Submit(k)
        PROVE  Final
    BY <1>2, <1>3, <2>1, LiveIsNotFinished, DispatchTouchesOne DEF Submit
  <2>2. ASSUME NEW k \in Requests, ExecuteRetry(k)
        PROVE  Final
    <3>1. k \in Requests \ Finished
      BY <1>3, <2>2, LiveIsNotFinished DEF ExecuteRetry, IInv, OnlyLiveAct
    <3>2. CASE Dispatch(k, FALSE, FALSE, "none")
      BY <1>2, <1>3, <3>1, <3>2, DispatchTouchesOne
    <3>3. CASE UNCHANGED <<phase, flight>>
      BY <1>1, <1>3, <3>3
    <3> QED BY <2>2, <3>2, <3>3 DEF ExecuteRetry
  <2>3. ASSUME NEW k \in Requests, ResponseTimeout(k)
        PROVE  Final
    <3>1. k \in Requests \ Finished
      BY <1>3, <2>3, LiveIsNotFinished DEF ResponseTimeout, IInv, OnlyLiveAct
    <3>2. /\ flight' = flight
          /\ \A j \in Requests \ {k} : phase'[j] = phase[j]
      BY <1>3, <2>3
      DEF ResponseTimeout, ScheduleRetry, Terminalize, IInv, TypeOK
    <3> QED BY <1>2, <1>3, <3>1, <3>2
  <2>4. ASSUME NEW k \in Requests, ReceiveResponse(k)
        PROVE  Final
    <3>1. flight' = [flight EXCEPT ![k] = @ - 1] /\ flight[k] > 0
      BY <2>4 DEF ReceiveResponse
    <3>2. flight \in [Requests -> 0 .. PdcRoom]
      BY <1>3 DEF IInv, TypeOK
    <3>3. \A j \in Requests : flight'[j] <= flight[j]
      BY <3>1, <3>2
    <3>4. CASE phase[k] = "live"
      <4>1. k \notin Finished
        BY <3>4 DEF Finished, Outcomes
      <4>2. \A j \in Requests \ {k} : phase'[j] = phase[j]
        BY <1>3, <2>4, <3>4
        DEF ReceiveResponse, ReceiveOk, ReceiveNoMatch, ReceiveError,
            ScheduleRetry, Terminalize, IInv, TypeOK
      <4> QED BY <3>3, <4>1, <4>2 DEF Finished
    <3>5. CASE phase[k] # "live"
      BY <2>4, <3>3, <3>5 DEF ReceiveResponse, control, Finished
    <3> QED BY <3>4, <3>5
  <2>5. ASSUME NEW k \in Requests, Vanish(k)
        PROVE  Final
    BY <1>3, <2>5 DEF Vanish, control, IInv, TypeOK, Finished
  <2>6. ASSUME NEW p \in Peers, Wakeup(p)
        PROVE  Final
    BY <1>1, <1>3, <2>6 DEF Wakeup, control
  <2> QED BY <1>3, <2>1, <2>2, <2>3, <2>4, <2>5, <2>6 DEF Event
<1>4. ASSUME IInv, Drain
      PROVE  Final
  <2>1. CASE DrainDone
    BY <1>1, <1>4, <2>1 DEF DrainDone, control
  <2>2. ASSUME NEW k, DrainHead(k)
        PROVE  Final
    <3>1. CASE k \in Finished /\ UNCHANGED <<control, draining, inUse, flight>>
      BY <1>1, <1>4, <3>1 DEF control
    <3>2. CASE /\ k \in Live
               /\ Dispatch(k, k \in linked, k \in reserved, retry[k])
      <4>1. k \in Requests \ Finished
        BY <3>2, LiveIsNotFinished
      <4> QED BY <1>2, <1>4, <3>2, <4>1, DispatchTouchesOne
    <3> QED BY <2>2, <3>1, <3>2 DEF DrainHead
  <2> QED BY <1>4, <2>1, <2>2 DEF Drain
<1>5. IInv /\ [Next]_vars => [Final]_vars
  BY <1>3, <1>4 DEF Next
<1> QED BY <1>5, Invariance, PTL DEF Spec, FinishedIsFinal

-----------------------------------------------------------------------------
(* Without retries.  A request is then dispatched once: what waits in a    *)
(* queue has sent nothing and holds nothing, no handler but the drain loop *)
(* takes it out, and the budgets count exactly what is held.               *)

(* What is queued is linked, in its own peer's queue, once, and has sent   *)
(* nothing.                                                                *)
QueueIsUnsent ==
  \A p \in Peers : \A i \in 1 .. Len(queue[p]) :
    /\ PeerOf[queue[p][i]] = p
    /\ queue[p][i] \in linked \ (waiting \cup reserved)
    /\ flight[queue[p][i]] = 0
    /\ \A j \in 1 .. Len(queue[p]) : queue[p][i] = queue[p][j] => i = j

NothingRetried ==
  \A k \in Requests : retry[k] = "none" /\ (phase[k] = "new" => flight[k] = 0)

ExactlyHeld ==
  \A b \in Budgets : inUse[b] = Cardinality(reserved \cap Members(b))

OnceInv == IInv /\ QueueIsUnsent /\ NothingRetried /\ ExactlyHeld

(* Leaving a queue one is not in, and leaving it from its head.            *)
LEMMA UnqueuedAbsent ==
  ASSUME NEW q \in [Peers -> Seq(Requests)], NEW k \in Requests,
         \A i \in 1 .. Len(q[PeerOf[k]]) : q[PeerOf[k]][i] # k
  PROVE  Unqueued(q, k) = q
  BY DEF Unqueued, RemoveFirst

LEMMA UnqueuedFirst ==
  ASSUME NEW q \in [Peers -> Seq(Requests)], NEW k \in Requests,
         q[PeerOf[k]] # <<>>, q[PeerOf[k]][1] = k,
         \A i \in 1 .. Len(q[PeerOf[k]]) : q[PeerOf[k]][i] = k => i = 1
  PROVE  Unqueued(q, k) = [q EXCEPT ![PeerOf[k]] = Tail(q[PeerOf[k]])]
<1> DEFINE s == q[PeerOf[k]]
           m == SelectInSeq(s, LAMBDA v : v = k)
<1>1. s \in Seq(Requests) /\ 1 \in 1 .. Len(s) /\ s[1] = k
  OBVIOUS
<1>2. m \in 1 .. Len(s) /\ s[m] = k
  BY <1>1, FirstIndex
<1>3. m = 1
  BY <1>2
<1>4. RemoveFirst(s, k) = SubSeq(s, 1, m - 1) \o SubSeq(s, m + 1, Len(s))
  BY <1>1 DEF RemoveFirst, RemoveAt
<1> HIDE DEF s, m
<1>5. SubSeq(s, 1, m - 1) = <<>> /\ SubSeq(s, m + 1, Len(s)) = Tail(s)
  BY <1>1, <1>3
<1>6. RemoveFirst(s, k) = Tail(s)
  <2>1. Tail(s) \in Seq(Requests)
    BY <1>1
  <2> QED BY <1>4, <1>5, <2>1, ConcatEmptySeq
<1>7. Unqueued(q, k) = [q EXCEPT ![PeerOf[k]] = RemoveFirst(q[PeerOf[k]], k)]
  BY DEF Unqueued
<1> QED BY <1>6, <1>7 DEF s

NotQueued(k) == \A p \in Peers : \A i \in 1 .. Len(queue[p]) : queue[p][i] # k

(* The handler has acted on k only.                                        *)
ActedOn(k) ==
  /\ linked \ {k} \subseteq linked'
  /\ waiting' \subseteq waiting \cup {k}
  /\ reserved' \subseteq reserved \cup {k}
  /\ \A j \in Requests \ {k} : flight'[j] = flight[j]

(* A request that is not queued has moved.                                 *)
LEMMA OtherMoved ==
  ASSUME OnceInv, NEW k \in Requests, NotQueued(k), ActedOn(k), queue' = queue
  PROVE  QueueIsUnsent'
<1> SUFFICES ASSUME NEW p \in Peers, NEW i \in 1 .. Len(queue[p])
             PROVE  /\ PeerOf[queue[p][i]] = p
                    /\ queue[p][i] \in linked' \ (waiting' \cup reserved')
                    /\ flight'[queue[p][i]] = 0
                    /\ \A j \in 1 .. Len(queue[p]) :
                         queue[p][i] = queue[p][j] => i = j
  BY DEF QueueIsUnsent
<1>1. queue[p][i] \in Requests \ {k}
  BY DEF OnceInv, IInv, TypeOK, NotQueued
<1> QED BY <1>1 DEF OnceInv, QueueIsUnsent, ActedOn

(* The queue of p without its head.                                        *)
Left(p) == [queue EXCEPT ![p] = Tail(queue[p])]

LEMMA HeadLeaves ==
  ASSUME OnceInv, NEW p \in Peers, queue[p] # <<>>, NEW k, k = queue[p][1]
  PROVE  /\ k \in Requests /\ PeerOf[k] = p
         /\ Unqueued(queue, k) = Left(p)
         /\ Unqueued(Left(p), k) = Left(p)
<1>1. queue \in [Peers -> Seq(Requests)]
  BY DEF OnceInv, IInv, TypeOK
<1>2. 1 \in 1 .. Len(queue[p])
  BY <1>1
<1>3. /\ k \in Requests /\ PeerOf[k] = p
      /\ \A i \in 1 .. Len(queue[p]) : queue[p][i] = k => i = 1
  BY <1>1, <1>2 DEF OnceInv, QueueIsUnsent
<1>4. Unqueued(queue, k) = Left(p)
  <2>1. Unqueued(queue, k) = [queue EXCEPT ![PeerOf[k]] = Tail(queue[PeerOf[k]])]
    <3>1. /\ queue[PeerOf[k]] # <<>> /\ queue[PeerOf[k]][1] = k
          /\ \A i \in 1 .. Len(queue[PeerOf[k]]) : queue[PeerOf[k]][i] = k => i = 1
      BY <1>3
    <3> QED BY <1>1, <1>3, <3>1, UnqueuedFirst
  <2> QED BY <1>3, <2>1 DEF Left
<1>5. /\ Left(p) \in [Peers -> Seq(Requests)]
      /\ Left(p)[p] = Tail(queue[p])
      /\ Len(Tail(queue[p])) = Len(queue[p]) - 1
      /\ \A i \in 1 .. (Len(queue[p]) - 1) : Tail(queue[p])[i] = queue[p][i + 1]
  BY <1>1, <1>2 DEF Left
<1>6. \A i \in 1 .. Len(Left(p)[p]) : Left(p)[p][i] # k
  <2> SUFFICES ASSUME NEW i \in 1 .. (Len(queue[p]) - 1)
               PROVE  Tail(queue[p])[i] # k
    BY <1>5
  <2>1. i + 1 \in 1 .. Len(queue[p]) /\ i + 1 # 1
    BY <1>1
  <2> QED BY <1>3, <1>5, <2>1
<1>7. Unqueued(Left(p), k) = Left(p)
  <2> DEFINE q == Left(p)
  <2>1. /\ q \in [Peers -> Seq(Requests)]
        /\ \A i \in 1 .. Len(q[PeerOf[k]]) : q[PeerOf[k]][i] # k
    BY <1>3, <1>5, <1>6
  <2> HIDE DEF q
  <2>2. Unqueued(q, k) = q
    BY <1>3, <2>1, UnqueuedAbsent
  <2> QED BY <2>2 DEF q
<1> QED BY <1>3, <1>4, <1>7

(* The head of a queue has left it.                                        *)
LEMMA HeadMoved ==
  ASSUME OnceInv, NEW p \in Peers, queue[p] # <<>>, ActedOn(queue[p][1]),
         queue' = Left(p)
  PROVE  QueueIsUnsent'
<1> DEFINE k == queue[p][1]
<1>1. queue \in [Peers -> Seq(Requests)] /\ queue[p] \in Seq(Requests)
  BY DEF OnceInv, IInv, TypeOK
<1>2. /\ 1 \in 1 .. Len(queue[p])
      /\ queue'[p] = Tail(queue[p])
      /\ \A r \in Peers \ {p} : queue'[r] = queue[r]
  BY <1>1 DEF Left
<1>7. ASSUME NEW i \in 1 .. Len(queue'[p])
      PROVE  /\ i + 1 \in 1 .. Len(queue[p]) /\ i \in Nat /\ i + 1 # 1
             /\ queue'[p][i] = queue[p][i + 1]
  <2>1. Len(Tail(queue[p])) = Len(queue[p]) - 1 /\ Len(queue[p]) \in Nat
    BY <1>1, HeadTailProperties
  <2>2. Tail(queue[p])[i] = queue[p][i + 1]
    BY <1>1, <1>2, HeadTailProperties
  <2> QED BY <1>2, <2>1, <2>2
<1> SUFFICES ASSUME NEW r \in Peers, NEW i \in 1 .. Len(queue'[r])
             PROVE  /\ PeerOf[queue'[r][i]] = r
                    /\ queue'[r][i] \in linked' \ (waiting' \cup reserved')
                    /\ flight'[queue'[r][i]] = 0
                    /\ \A j \in 1 .. Len(queue'[r]) :
                         queue'[r][i] = queue'[r][j] => i = j
  BY DEF QueueIsUnsent
<1> HIDE DEF k
<1>3. ASSUME NEW x \in Peers, NEW m \in 1 .. Len(queue[x]), queue[x][m] # k
      PROVE  /\ PeerOf[queue[x][m]] = x
             /\ queue[x][m] \in linked' \ (waiting' \cup reserved')
             /\ flight'[queue[x][m]] = 0
  <2>1. queue[x][m] \in Requests
    BY <1>1
  <2> QED BY <1>3, <2>1 DEF OnceInv, QueueIsUnsent, ActedOn, k
<1>4. PeerOf[k] = p /\ \A m \in 1 .. Len(queue[p]) : queue[p][m] = k => m = 1
  BY <1>2 DEF OnceInv, QueueIsUnsent, k
<1>5. CASE r = p
  <2>2. /\ i + 1 \in 1 .. Len(queue[p]) /\ i \in Nat /\ i + 1 # 1
        /\ queue'[r][i] = queue[p][i + 1]
    BY <1>5, <1>7
  <2>3. ASSUME NEW j \in 1 .. Len(queue'[r]), queue'[r][i] = queue'[r][j]
        PROVE  i = j
    <3>1. /\ j + 1 \in 1 .. Len(queue[p]) /\ j \in Nat
          /\ queue'[r][j] = queue[p][j + 1]
      BY <1>5, <1>7
    <3>2. \A x, y \in 1 .. Len(queue[p]) : queue[p][x] = queue[p][y] => x = y
      BY DEF OnceInv, QueueIsUnsent
    <3>3. queue[p][i + 1] = queue[p][j + 1]
      BY <2>2, <2>3, <3>1
    <3>4. i + 1 = j + 1
      BY <2>2, <3>1, <3>2, <3>3
    <3> QED BY <2>2, <3>1, <3>4
  <2> QED BY <1>3, <1>4, <1>5, <2>2, <2>3
<1>6. CASE r # p
  <2>1. queue'[r] = queue[r]
    BY <1>2, <1>6
  <2>2. PeerOf[queue[r][i]] = r
    BY <2>1 DEF OnceInv, QueueIsUnsent
  <2>3. queue[r][i] # k
    BY <1>4, <1>6, <2>2
  <2> QED BY <1>3, <2>1, <2>3 DEF OnceInv, QueueIsUnsent
<1> QED BY <1>5, <1>6

(* Ending k: its retry stays away, and the counters go on counting exactly *)
(* what is held.                                                           *)
LEMMA EndedOnce ==
  ASSUME OnceInv, NEW k \in Requests, NEW q, NEW outcome \in Outcomes,
         NEW holds \in BOOLEAN, NEW freed \in BOOLEAN, holds <=> k \in reserved,
         Terminalize(q, k, outcome, holds, freed),
         \A j \in Requests \ {k} : flight'[j] = flight[j]
  PROVE  /\ NothingRetried' /\ ExactlyHeld' /\ ActedOn(k)
         /\ queue' = Unqueued(q, k)
         /\ wakeups' = WakeupsAfter(queue', PeerOf[k], holds \/ freed)
         /\ ~holds => inUse' = inUse
<1> USE DEF Terminalize
<1>1. /\ phase \in [Requests -> {"new", "live"} \cup Outcomes]
      /\ retry \in [Requests -> {"none", "armed", "stale"}]
      /\ reserved \subseteq Sends \cup Writes
      /\ inUse \in [Budgets -> Nat]
  BY DEF OnceInv, IInv, TypeOK
<1>2. NothingRetried'
  BY <1>1 DEF OnceInv, NothingRetried, Outcomes
<1>3. ExactlyHeld'
  <2> SUFFICES ASSUME NEW b \in Budgets
               PROVE  inUse'[b] = Cardinality(reserved' \cap Members(b))
    BY DEF ExactlyHeld, Members
  <2> DEFINE n == Cardinality(reserved \cap Members(b))
             m == Cardinality((reserved \ {k}) \cap Members(b))
  <2>1. n = inUse[b]
    BY DEF OnceInv, ExactlyHeld
  <2>2. /\ n \in Nat /\ m \in Nat /\ m <= n
        /\ k \in reserved /\ b = Budget(k) => m = n - 1
    BY <1>1, CountAfterRemoving
  <2>3. reserved' \cap Members(b) = (reserved \ {k}) \cap Members(b)
    OBVIOUS
  <2>4. k \notin reserved \/ b # Budget(k) => m = n
    <3>1. k \in reserved /\ k \in Members(b) => b = Budget(k)
      BY <1>1 DEF Budget, Members, Budgets
    <3>2. k \notin reserved \/ b # Budget(k) =>
            (reserved \ {k}) \cap Members(b) = reserved \cap Members(b)
      BY <3>1
    <3> QED BY <3>2
  <2>5. inUse'[b] = IF holds /\ b = Budget(k)
                      THEN IF inUse[b] > 0 THEN inUse[b] - 1 ELSE 0 ELSE inUse[b]
    BY <1>1 DEF Returned
  <2> HIDE DEF n, m, Terminalize
  <2>6. inUse'[b] = m
    <3>1. CASE holds /\ b = Budget(k)
      <4>1. m = n - 1
        BY <2>2, <3>1
      <4>2. n > 0
        BY <2>2, <4>1
      <4> QED BY <2>1, <2>2, <2>5, <3>1, <4>1, <4>2
    <3>2. CASE ~holds \/ b # Budget(k)
      BY <2>1, <2>4, <2>5, <3>2
    <3> QED BY <3>1, <3>2
  <2> QED BY <2>3, <2>6 DEF m
<1>4. ActedOn(k)
  BY DEF ActedOn
<1> QED BY <1>2, <1>3, <1>4

(* Sending k for the first time.                                           *)
LEMMA SentOnce ==
  ASSUME OnceInv, NEW k \in Requests, k \notin reserved, NEW entered \in BOOLEAN,
         Sent(k, entered, FALSE, "none")
  PROVE  /\ NothingRetried' /\ ExactlyHeld' /\ ActedOn(k)
         /\ queue' = Admitting(k, entered)
         /\ wakeups' = WakeupsAfter(queue', PeerOf[k], FALSE)
         /\ \A b \in Budgets : inUse'[b] >= inUse[b]
<1> USE DEF Sent
<1>1. /\ phase \in [Requests -> {"new", "live"} \cup Outcomes]
      /\ retry \in [Requests -> {"none", "armed", "stale"}]
      /\ reserved \subseteq Sends \cup Writes
      /\ inUse \in [Budgets -> Nat]
      /\ flight \in [Requests -> 0 .. PdcRoom]
  BY DEF OnceInv, IInv, TypeOK
<1>2. NothingRetried'
  BY <1>1 DEF OnceInv, NothingRetried
<1>3. \A b \in Budgets : inUse'[b] = IF Budgeted(k) /\ b = Budget(k)
                                      THEN inUse[b] + 1 ELSE inUse[b]
  BY <1>1 DEF Reserving
<1>4. ExactlyHeld'
  <2> SUFFICES ASSUME NEW b \in Budgets
               PROVE  inUse'[b] = Cardinality(reserved' \cap Members(b))
    BY DEF ExactlyHeld, Members
  <2>1. Cardinality(reserved \cap Members(b)) = inUse[b]
    BY DEF OnceInv, ExactlyHeld
  <2>2. CASE Budgeted(k)
    <3>1. IsFiniteSet(reserved \cap Members(b))
      BY <1>1, FS_Subset DEF Requests
    <3>2. k \in Members(b) <=> b = Budget(k)
      BY <2>2 DEF Budget, Members, Budgets, Budgeted
    <3>3. CASE b = Budget(k)
      <4>1. reserved' \cap Members(b) = (reserved \cap Members(b)) \cup {k}
        BY <2>2, <3>2, <3>3
      <4>2. Cardinality((reserved \cap Members(b)) \cup {k})
              = Cardinality(reserved \cap Members(b)) + 1
        BY <3>1, FS_AddElement
      <4> HIDE DEF Sent
      <4> QED BY <1>3, <2>1, <2>2, <3>3, <4>1, <4>2
    <3>4. CASE b # Budget(k)
      <4>1. reserved' \cap Members(b) = reserved \cap Members(b)
        BY <2>2, <3>2, <3>4
      <4> HIDE DEF Sent
      <4> QED BY <1>3, <2>1, <3>4, <4>1
    <3> QED BY <3>3, <3>4
  <2>3. CASE ~Budgeted(k)
    BY <1>3, <2>1, <2>3
  <2> QED BY <2>2, <2>3
<1>5. ActedOn(k)
  BY <1>1 DEF ActedOn
<1>6. \A b \in Budgets : inUse'[b] >= inUse[b]
  <2>1. \A b \in Budgets : inUse[b] \in Nat
    BY <1>1
  <2> HIDE DEF Sent
  <2> QED BY <1>3, <2>1
<1> QED BY <1>2, <1>4, <1>5, <1>6

(* Queueing k, or leaving it at the head.                                  *)
LEMMA BlockedOnce ==
  ASSUME OnceInv, NEW k \in Requests, k \notin reserved, flight[k] = 0,
         NEW entered \in BOOLEAN, ~entered => NotQueued(k),
         Blocked(k, entered, FALSE, "none")
  PROVE  QueueIsUnsent' /\ NothingRetried' /\ ExactlyHeld'
<1> USE DEF Blocked
<1>1. /\ phase \in [Requests -> {"new", "live"} \cup Outcomes]
      /\ retry \in [Requests -> {"none", "armed", "stale"}]
      /\ queue \in [Peers -> Seq(Requests)]
  BY DEF OnceInv, IInv, TypeOK
<1>2. NothingRetried'
  BY <1>1 DEF OnceInv, NothingRetried
<1>3. reserved' = reserved /\ inUse' = inUse
  OBVIOUS
<1>4. ExactlyHeld'
  BY <1>3 DEF OnceInv, ExactlyHeld, Members
<1>5. /\ linked \subseteq linked' /\ k \in linked' \ (waiting' \cup reserved')
      /\ waiting' \subseteq waiting /\ flight' = flight
  OBVIOUS
<1>6. QueueIsUnsent'
  <2>1. CASE entered
    <3>1. queue' = queue
      BY <2>1
    <3> HIDE DEF Blocked
    <3> QED BY <1>3, <1>5, <3>1 DEF OnceInv, QueueIsUnsent
  <2>2. CASE ~entered
    <3> DEFINE o == PeerOf[k]
    <3>1. o \in Peers /\ queue[o] \in Seq(Requests)
      BY <1>1
    <3>2. queue' = [queue EXCEPT ![o] = Append(queue[o], k)]
      BY <2>2
    <3> SUFFICES ASSUME NEW p \in Peers, NEW i \in 1 .. Len(queue'[p])
                 PROVE  /\ PeerOf[queue'[p][i]] = p
                        /\ queue'[p][i] \in linked' \ (waiting' \cup reserved')
                        /\ flight'[queue'[p][i]] = 0
                        /\ \A j \in 1 .. Len(queue'[p]) :
                             queue'[p][i] = queue'[p][j] => i = j
      BY DEF QueueIsUnsent
    <3> HIDE DEF Blocked, o
    <3>3. ASSUME NEW m \in 1 .. Len(queue[p])
          PROVE  /\ PeerOf[queue[p][m]] = p /\ queue[p][m] # k
                 /\ queue[p][m] \in linked' \ (waiting' \cup reserved')
                 /\ flight'[queue[p][m]] = 0
                 /\ \A j \in 1 .. Len(queue[p]) :
                      queue[p][m] = queue[p][j] => m = j
      BY <1>3, <1>5, <2>2 DEF OnceInv, QueueIsUnsent, NotQueued
    <3>4. CASE p # o
      BY <1>1, <3>1, <3>2, <3>3, <3>4
    <3>5. CASE p = o
      <4>1. /\ Len(queue[p]) \in Nat /\ Len(queue'[p]) = Len(queue[p]) + 1
            /\ queue'[p][Len(queue[p]) + 1] = k
            /\ \A m \in 1 .. Len(queue[p]) : queue'[p][m] = queue[p][m]
        BY <1>1, <3>1, <3>2, <3>5
      <4>2. CASE i = Len(queue[p]) + 1
        BY <1>5, <3>3, <3>5, <4>1, <4>2 DEF o
      <4>3. CASE i \in 1 .. Len(queue[p])
        BY <3>3, <4>1, <4>3
      <4> QED BY <4>1, <4>2, <4>3
    <3> QED BY <3>4, <3>5
  <2> QED BY <2>1, <2>2
<1> QED BY <1>2, <1>4, <1>6

(* DispatchRequestPackets for a request that was not dispatched before: a  *)
(* new one, or the head of a queue.                                        *)
LEMMA DispatchOnce ==
  ASSUME OnceInv, NEW k \in Requests, k \notin reserved, flight[k] = 0,
         NEW entered \in BOOLEAN,
         ~entered => NotQueued(k),
         entered => /\ PeerOf[k] \in Peers /\ queue[PeerOf[k]] # <<>>
                    /\ queue[PeerOf[k]][1] = k,
         Dispatch(k, entered, FALSE, "none")
  PROVE  /\ QueueIsUnsent' /\ NothingRetried' /\ ExactlyHeld'
         /\ \/ Blocked(k, entered, FALSE, "none")
            \/ /\ queue' = IF entered THEN Left(PeerOf[k]) ELSE queue
               /\ \/ Sent(k, entered, FALSE, "none")
                  \/ wakeups' = WakeupsAfter(queue', PeerOf[k], TRUE)
                  \/ inUse' = inUse /\ wakeups' = WakeupsAfter(queue', PeerOf[k], FALSE)
<1> DEFINE q == Admitting(k, entered)
<1>1. /\ queue \in [Peers -> Seq(Requests)]
      /\ flight \in [Requests -> 0 .. PdcRoom]
      /\ {"completed", "failed"} \subseteq Outcomes
      /\ Budgeted(k) \in BOOLEAN
  BY DEF OnceInv, IInv, TypeOK, Outcomes, Budgeted
<1>2. Unqueued(q, k) = q /\ q = IF entered THEN Left(PeerOf[k]) ELSE queue
  <2>1. CASE entered
    BY <2>1, HeadLeaves DEF Admitting
  <2>2. CASE ~entered
    <3>1. \A i \in 1 .. Len(queue[PeerOf[k]]) : queue[PeerOf[k]][i] # k
      BY <2>2 DEF NotQueued
    <3>2. Unqueued(queue, k) = queue
      BY <1>1, <3>1, UnqueuedAbsent
    <3> QED BY <2>2, <3>2 DEF Admitting
  <2> QED BY <2>1, <2>2
<1> HIDE DEF q
<1>3. ASSUME queue' = q, ActedOn(k)
      PROVE  QueueIsUnsent'
  <2>1. CASE entered
    BY <1>2, <1>3, <2>1, HeadMoved
  <2>2. CASE ~entered
    BY <1>2, <1>3, <2>2, OtherMoved
  <2> QED BY <2>1, <2>2
<1>4. CASE Blocked(k, entered, FALSE, "none")
  BY <1>4, BlockedOnce
<1>5. CASE Sent(k, entered, FALSE, "none")
  BY <1>2, <1>3, <1>5, SentOnce DEF q
<1>6. CASE SentSilently(k, entered, FALSE)
  <2>1. /\ Terminalize(q, k, "completed", FALSE, TRUE)
        /\ \A j \in Requests \ {k} : flight'[j] = flight[j]
    BY <1>1, <1>6 DEF SentSilently, q
  <2>2. /\ NothingRetried' /\ ExactlyHeld' /\ ActedOn(k)
        /\ queue' = Unqueued(q, k)
        /\ wakeups' = WakeupsAfter(queue', PeerOf[k], FALSE \/ TRUE)
    BY <1>1, <2>1, EndedOnce
  <2> QED BY <1>2, <1>3, <2>2
<1>7. CASE Refused(k, entered, FALSE)
  <2> DEFINE freed == Budgeted(k)
  <2>1. /\ Terminalize(q, k, "failed", FALSE, freed)
        /\ \A j \in Requests \ {k} : flight'[j] = flight[j]
    BY <1>1, <1>7 DEF Refused, q
  <2>2. freed = TRUE \/ freed = FALSE
    BY <1>1
  <2> HIDE DEF freed
  <2>3. /\ NothingRetried' /\ ExactlyHeld' /\ ActedOn(k)
        /\ queue' = Unqueued(q, k) /\ inUse' = inUse
        /\ \/ wakeups' = WakeupsAfter(queue', PeerOf[k], TRUE)
           \/ wakeups' = WakeupsAfter(queue', PeerOf[k], FALSE)
    <3>1. CASE freed = TRUE
      <4>1. Terminalize(q, k, "failed", FALSE, TRUE)
        BY <2>1, <3>1
      <4>2. /\ NothingRetried' /\ ExactlyHeld' /\ ActedOn(k)
            /\ queue' = Unqueued(q, k) /\ inUse' = inUse
            /\ wakeups' = WakeupsAfter(queue', PeerOf[k], FALSE \/ TRUE)
        BY <1>1, <2>1, <4>1, EndedOnce
      <4> QED BY <4>2
    <3>2. CASE freed = FALSE
      <4>1. Terminalize(q, k, "failed", FALSE, FALSE)
        BY <2>1, <3>2
      <4>2. /\ NothingRetried' /\ ExactlyHeld' /\ ActedOn(k)
            /\ queue' = Unqueued(q, k) /\ inUse' = inUse
            /\ wakeups' = WakeupsAfter(queue', PeerOf[k], FALSE \/ FALSE)
        BY <1>1, <2>1, <4>1, EndedOnce
      <4> QED BY <4>2
    <3> QED BY <2>2, <3>1, <3>2
  <2> QED BY <1>2, <1>3, <2>3
<1> QED BY <1>4, <1>5, <1>6, <1>7 DEF Dispatch

(* The handlers of an event act on a request that is not queued.           *)
LEMMA NotYetQueued ==
  ASSUME OnceInv, NEW k \in Requests,
         phase[k] = "new" \/ k \in waiting \/ flight[k] > 0
  PROVE  NotQueued(k)
<1> SUFFICES ASSUME NEW p \in Peers, NEW i \in 1 .. Len(queue[p]), queue[p][i] = k
             PROVE  FALSE
  BY DEF NotQueued
<1>1. k \in linked \ (waiting \cup reserved) /\ flight[k] = 0
  BY DEF OnceInv, QueueIsUnsent
<1>2. k \in Live
  BY <1>1 DEF OnceInv, IInv, OnlyLiveAct
<1> QED BY <1>1, <1>2 DEF Live

(* What an event does to the queues and the wakeups, besides Wakeup.       *)
EventEffect(k) ==
  \/ Blocked(k, FALSE, FALSE, "none")
  \/ /\ queue' = queue
     /\ \/ wakeups' = WakeupsAfter(queue', PeerOf[k], TRUE)
        \/ /\ wakeups' = WakeupsAfter(queue', PeerOf[k], FALSE) \/ wakeups' = wakeups
           /\ \A b \in Budgets : inUse'[b] >= inUse[b]

LEMMA EndedEvent ==
  ASSUME OnceInv, NEW k \in Requests, NotQueued(k), NEW outcome \in Outcomes,
         Terminalize(queue, k, outcome, k \in reserved, FALSE),
         \A j \in Requests \ {k} : flight'[j] = flight[j]
  PROVE  QueueIsUnsent' /\ NothingRetried' /\ ExactlyHeld' /\ EventEffect(k)
<1> DEFINE holds == k \in reserved
<1>1. holds = TRUE \/ holds = FALSE
  OBVIOUS
<1>2. Terminalize(queue, k, outcome, holds, FALSE) /\ (holds <=> k \in reserved)
  OBVIOUS
<1> HIDE DEF holds
<1>3. /\ NothingRetried' /\ ExactlyHeld' /\ ActedOn(k)
      /\ queue' = Unqueued(queue, k)
      /\ \/ wakeups' = WakeupsAfter(queue', PeerOf[k], TRUE)
         \/ wakeups' = WakeupsAfter(queue', PeerOf[k], FALSE) /\ inUse' = inUse
  <2>1. CASE holds = TRUE
    <3>1. Terminalize(queue, k, outcome, TRUE, FALSE) /\ k \in reserved
      BY <1>2, <2>1
    <3>2. /\ NothingRetried' /\ ExactlyHeld' /\ ActedOn(k)
          /\ queue' = Unqueued(queue, k)
          /\ wakeups' = WakeupsAfter(queue', PeerOf[k], TRUE \/ FALSE)
      BY <3>1, EndedOnce
    <3> QED BY <3>2
  <2>2. CASE holds = FALSE
    <3>1. Terminalize(queue, k, outcome, FALSE, FALSE) /\ k \notin reserved
      BY <1>2, <2>2
    <3>2. /\ NothingRetried' /\ ExactlyHeld' /\ ActedOn(k)
          /\ queue' = Unqueued(queue, k) /\ inUse' = inUse
          /\ wakeups' = WakeupsAfter(queue', PeerOf[k], FALSE \/ FALSE)
      BY <3>1, EndedOnce
    <3> QED BY <3>2
  <2> QED BY <1>1, <2>1, <2>2
<1>4. queue \in [Peers -> Seq(Requests)] /\ inUse \in [Budgets -> Nat]
  BY DEF OnceInv, IInv, TypeOK
<1>5. queue' = queue
  <2>1. \A i \in 1 .. Len(queue[PeerOf[k]]) : queue[PeerOf[k]][i] # k
    BY DEF NotQueued
  <2> QED BY <1>3, <1>4, <2>1, UnqueuedAbsent
<1>6. QueueIsUnsent'
  BY <1>3, <1>5, OtherMoved
<1>7. inUse' = inUse => \A b \in Budgets : inUse'[b] >= inUse[b]
  BY <1>4
<1> QED BY <1>3, <1>5, <1>6, <1>7 DEF EventEffect

LEMMA EventOnce ==
  ASSUME ~RetryEnabled, OnceInv, Event
  PROVE  /\ QueueIsUnsent' /\ NothingRetried' /\ ExactlyHeld'
         /\ \/ draining' = Idle /\ \E k \in Requests : EventEffect(k)
            \/ \E p \in Peers : Wakeup(p)
<1>1. /\ flight \in [Requests -> 0 .. PdcRoom] /\ inUse \in [Budgets -> Nat]
      /\ {"completed", "failed"} \subseteq Outcomes
      /\ \A k \in Requests : retry[k] = "none"
  BY DEF OnceInv, IInv, TypeOK, Outcomes, NothingRetried
<1>2. ASSUME NEW k \in Requests, Submit(k)
      PROVE  QueueIsUnsent' /\ NothingRetried' /\ ExactlyHeld' /\ EventEffect(k)
  <2>1. phase[k] = "new" /\ Dispatch(k, FALSE, FALSE, "none")
    BY <1>2 DEF Submit
  <2>2. flight[k] = 0 /\ k \notin Live
    BY <2>1 DEF OnceInv, NothingRetried, Live
  <2>3. k \notin reserved
    BY <2>2 DEF OnceInv, IInv, OnlyLiveAct
  <2>4. NotQueued(k)
    BY <2>1, NotYetQueued
  <2>5. /\ QueueIsUnsent' /\ NothingRetried' /\ ExactlyHeld'
        /\ \/ Blocked(k, FALSE, FALSE, "none")
           \/ /\ queue' = queue
              /\ \/ Sent(k, FALSE, FALSE, "none")
                 \/ wakeups' = WakeupsAfter(queue', PeerOf[k], TRUE)
                 \/ inUse' = inUse /\ wakeups' = WakeupsAfter(queue', PeerOf[k], FALSE)
    BY <2>1, <2>2, <2>3, <2>4, DispatchOnce
  <2>6. Sent(k, FALSE, FALSE, "none") =>
          /\ wakeups' = WakeupsAfter(queue', PeerOf[k], FALSE)
          /\ \A b \in Budgets : inUse'[b] >= inUse[b]
    BY <2>3, SentOnce
  <2>7. inUse' = inUse => \A b \in Budgets : inUse'[b] >= inUse[b]
    BY <1>1
  <2> QED BY <2>5, <2>6, <2>7 DEF EventEffect
<1>3. ASSUME NEW k \in Requests, ResponseTimeout(k)
      PROVE  QueueIsUnsent' /\ NothingRetried' /\ ExactlyHeld' /\ EventEffect(k)
  <2>1. /\ k \in waiting /\ flight' = flight
        /\ Terminalize(queue, k, "failed", k \in reserved, FALSE)
    BY <1>3 DEF ResponseTimeout
  <2> QED BY <1>1, <2>1, NotYetQueued, EndedEvent
<1>4. ASSUME NEW k \in Requests, flight[k] > 0, flight' = [flight EXCEPT ![k] = @ - 1],
             UNCHANGED <<control, queue, wakeups, inUse>>
      PROVE  QueueIsUnsent' /\ NothingRetried' /\ ExactlyHeld' /\ EventEffect(k)
  <2>1. NotQueued(k)
    BY <1>4, NotYetQueued
  <2>2. ActedOn(k)
    BY <1>1, <1>4 DEF ActedOn, control
  <2>3. QueueIsUnsent'
    BY <1>4, <2>1, <2>2, OtherMoved
  <2>4. NothingRetried'
    BY <1>1, <1>4 DEF OnceInv, NothingRetried, control
  <2>5. ExactlyHeld'
    BY <1>4 DEF OnceInv, ExactlyHeld, control, Members
  <2>6. \A b \in Budgets : inUse'[b] >= inUse[b]
    BY <1>1, <1>4
  <2> QED BY <1>4, <2>3, <2>4, <2>5, <2>6 DEF EventEffect
<1>5. ASSUME NEW k \in Requests, ReceiveResponse(k)
      PROVE  QueueIsUnsent' /\ NothingRetried' /\ ExactlyHeld' /\ EventEffect(k)
  <2>1. flight[k] > 0 /\ flight' = [flight EXCEPT ![k] = @ - 1]
    BY <1>5 DEF ReceiveResponse
  <2>2. CASE phase[k] = "live"
    <3>1. PICK outcome \in Outcomes :
            Terminalize(queue, k, outcome, k \in reserved, FALSE)
      BY <1>1, <1>5, <2>2
      DEF ReceiveResponse, ReceiveOk, ReceiveNoMatch, ReceiveError
    <3>2. \A j \in Requests \ {k} : flight'[j] = flight[j]
      BY <1>1, <2>1
    <3> QED BY <2>1, <3>1, <3>2, NotYetQueued, EndedEvent
  <2>3. CASE phase[k] # "live"
    <3>1. UNCHANGED <<control, queue, wakeups, inUse>>
      BY <1>5, <2>3 DEF ReceiveResponse
    <3> QED BY <1>4, <2>1, <3>1
  <2> QED BY <2>2, <2>3
<1>6. ASSUME NEW k \in Requests, Vanish(k)
      PROVE  QueueIsUnsent' /\ NothingRetried' /\ ExactlyHeld' /\ EventEffect(k)
  BY <1>4, <1>6 DEF Vanish
<1>7. ASSUME NEW p \in Peers, Wakeup(p)
      PROVE  QueueIsUnsent' /\ NothingRetried' /\ ExactlyHeld'
  BY <1>7 DEF Wakeup, control, OnceInv, QueueIsUnsent, NothingRetried, ExactlyHeld,
              Members
<1>8. \A k \in Requests : ~ExecuteRetry(k)
  BY <1>1 DEF ExecuteRetry
<1> QED BY <1>2, <1>3, <1>5, <1>6, <1>7, <1>8 DEF Event

LEMMA DrainOnce ==
  ASSUME OnceInv, Drain
  PROVE  /\ QueueIsUnsent' /\ NothingRetried' /\ ExactlyHeld'
         /\ \/ draining' = draining
            \/ queue' = queue /\ queue[draining] = <<>>
            \/ \E k \in Requests : /\ k \notin reserved /\ reserved' = reserved
                                    /\ queue' = queue /\ inUse' = inUse
                                    /\ queue[draining] # <<>>
                                    /\ Head(queue[draining]) = k /\ ~Admitted(k, FALSE)
<1>1. draining \in Peers /\ queue \in [Peers -> Seq(Requests)]
  BY DEF Drain, OnceInv, IInv, TypeOK
<1>2. CASE DrainDone
  BY <1>2 DEF DrainDone, control, OnceInv, QueueIsUnsent, NothingRetried, ExactlyHeld,
              Members
<1>3. ASSUME queue[draining] # <<>>, NEW k, k = Head(queue[draining]), DrainHead(k)
      PROVE  /\ QueueIsUnsent' /\ NothingRetried' /\ ExactlyHeld'
             /\ \/ draining' = draining
                \/ /\ k \in Requests /\ k \notin reserved /\ reserved' = reserved
                   /\ queue' = queue /\ inUse' = inUse /\ ~Admitted(k, FALSE)
  <2>1. k = queue[draining][1] /\ 1 \in 1 .. Len(queue[draining])
    BY <1>1, <1>3
  <2>2. /\ k \in Requests /\ PeerOf[k] = draining
        /\ k \in linked \ (waiting \cup reserved) /\ flight[k] = 0
    BY <1>1, <2>1 DEF OnceInv, QueueIsUnsent
  <2>3. k \in Live /\ k \notin Finished /\ retry[k] = "none"
    BY <2>2, LiveIsNotFinished DEF OnceInv, IInv, OnlyLiveAct, NothingRetried
  <2>4. (k \in linked) = TRUE /\ (k \in reserved) = FALSE
    BY <2>2
  <2>5. /\ Dispatch(k, TRUE, FALSE, "none")
        /\ draining' = IF k \in linked' THEN Idle ELSE draining
    <3>1. /\ Dispatch(k, k \in linked, k \in reserved, retry[k])
          /\ draining' = IF k \in linked' THEN Idle ELSE draining
      BY <1>3, <2>3 DEF DrainHead
    <3> QED BY <2>3, <2>4, <3>1
  <2>6. QueueIsUnsent' /\ NothingRetried' /\ ExactlyHeld'
    BY <1>1, <1>3, <2>1, <2>2, <2>5, DispatchOnce
  <2>7. CASE Blocked(k, TRUE, FALSE, "none")
    BY <2>2, <2>6, <2>7 DEF Blocked
  <2>8. CASE ~Blocked(k, TRUE, FALSE, "none")
    <3>1. k \notin linked'
      BY <2>5, <2>8 DEF Dispatch, Sent, SentSilently, Refused, Terminalize
    <3> QED BY <2>5, <2>6, <3>1
  <2> QED BY <2>7, <2>8
<1> QED BY <1>2, <1>3 DEF Drain, DrainDone

LEMMA OnceStep ==
  ASSUME ~RetryEnabled, OnceInv, [Next]_vars
  PROVE  OnceInv'
<1>1. IInv'
  BY NextInv DEF OnceInv
<1>2. CASE Next
  BY <1>1, <1>2, EventOnce, DrainOnce DEF Next, OnceInv
<1>3. CASE UNCHANGED vars
  BY <1>1, <1>3 DEF vars, control, OnceInv, QueueIsUnsent, NothingRetried,
                    ExactlyHeld, Members
<1> QED BY <1>2, <1>3

LEMMA OnceInit == Init => OnceInv
<1> SUFFICES ASSUME Init
             PROVE  OnceInv
  OBVIOUS
<1>1. QueueIsUnsent /\ NothingRetried
  BY DEF Init, QueueIsUnsent, NothingRetried
<1>2. ExactlyHeld
  <2>1. ASSUME NEW b \in Budgets
        PROVE  reserved \cap Members(b) = {} /\ inUse[b] = 0
    BY DEF Init
  <2> QED BY <2>1, FS_EmptySet DEF ExactlyHeld
<1> QED BY <1>1, <1>2, InitInv DEF OnceInv

(* Without retries, whatever is queued has never been sent, is in its      *)
(* queue once, and only DrainBlockedPeerQueue takes it out.                *)
THEOREM UnretriedInvariance ==
  ASSUME ~RetryEnabled
  PROVE  Spec => []OnceInv
<1>1. OnceInv /\ [Next]_vars => OnceInv'
  BY OnceStep
<1> QED BY OnceInit, <1>1, PTL DEF Spec

(* Without retries the counter of the send admission is exact: what        *)
(* ProcessReceiveResponse says of it ("release that budget immediately")   *)
(* fails only because a retry starts from a fresh lifecycle state.         *)
THEOREM UnretriedAdmission ==
  ASSUME ~RetryEnabled
  PROVE  Spec => []AdmissionReturned
<1>1. OnceInv => AdmissionReturned
  BY DEF OnceInv, ExactlyHeld, AdmissionReturned, Budgets, Members
<1> QED BY <1>1, UnretriedInvariance, PTL

OnePeer == \A p, r \in Peers : p = r

(* The head of the queue of p goes on waiting if nothing is given back.    *)
LEMMA HeadWaits ==
  ASSUME OnceInv, QueueIsUnsent', NEW p \in Peers, queue[p] # <<>>,
         queue'[p] \in Seq(Requests), queue'[p] # <<>>, queue'[p][1] = queue[p][1],
         \A b \in Budgets : inUse'[b] >= inUse[b], inUse' \in [Budgets -> Nat],
         ~Admitted(Head(queue[p]), Head(queue[p]) \in reserved)
  PROVE  ~Admitted(Head(queue[p]), Head(queue[p]) \in reserved)'
<1>1. /\ queue[p] \in Seq(Requests) /\ inUse \in [Budgets -> Nat]
  BY DEF OnceInv, IInv, TypeOK
<1> DEFINE k == queue[p][1]
<1>2. Head(queue[p]) = k /\ Head(queue'[p]) = k /\ k \in Requests
  BY <1>1
<1>3. 1 \in 1 .. Len(queue[p]) /\ 1 \in 1 .. Len(queue'[p])
  BY <1>1
<1>4. k \notin reserved /\ k \notin reserved'
  BY <1>3 DEF OnceInv, QueueIsUnsent
<1> HIDE DEF k
<1>5. Budget(k) \in Budgets
  BY DEF Budget, Budgets
<1>6. /\ Budgeted(k) /\ MessageLimit # 0 /\ ~(inUse[Budget(k)] < MessageLimit)
  BY <1>2, <1>4 DEF Admitted
<1>7. ~(inUse'[Budget(k)] < MessageLimit)
  BY <1>1, <1>5, <1>6
<1> QED BY <1>2, <1>4, <1>6, <1>7 DEF Admitted

LEMMA WakeStep ==
  ASSUME ~RetryEnabled, OnePeer, OnceInv, OnceInv', WakeupNotLost, [Next]_vars
  PROVE  WakeupNotLost'
<1>1. /\ queue \in [Peers -> Seq(Requests)] /\ queue' \in [Peers -> Seq(Requests)]
      /\ inUse \in [Budgets -> Nat] /\ inUse' \in [Budgets -> Nat]
      /\ draining \in Peers \cup {Idle}
      /\ QueueIsUnsent'
  BY DEF OnceInv, IInv, TypeOK
<1> SUFFICES ASSUME NEW p \in Peers, queue'[p] # <<>>, p \notin wakeups', draining' # p
             PROVE  ~Admitted(Head(queue[p]), Head(queue[p]) \in reserved)'
  BY DEF WakeupNotLost
<1>2. ASSUME queue' = queue, wakeups' = wakeups, draining' = draining,
             \A b \in Budgets : inUse'[b] >= inUse[b]
      PROVE  ~Admitted(Head(queue[p]), Head(queue[p]) \in reserved)'
  <2>1. ~Admitted(Head(queue[p]), Head(queue[p]) \in reserved)
    BY <1>2 DEF WakeupNotLost
  <2> QED BY <1>1, <1>2, <2>1, HeadWaits
<1>3. ASSUME NEW k \in Requests, draining = Idle, draining' = Idle, EventEffect(k)
      PROVE  ~Admitted(Head(queue[p]), Head(queue[p]) \in reserved)'
  <2>1. PeerOf[k] = p /\ Idle # p
    BY DEF OnePeer
  <2>2. CASE Blocked(k, FALSE, FALSE, "none")
    <3>1. /\ queue' = [queue EXCEPT ![p] = Append(queue[p], k)]
          /\ wakeups' = wakeups /\ inUse' = inUse
          /\ reserved' = reserved \ {k} /\ ~Admitted(k, FALSE)
      BY <2>1, <2>2 DEF Blocked
    <3>2. CASE queue[p] = <<>>
      <4>1. queue'[p] = <<k>>
        BY <1>1, <3>1, <3>2
      <4>2. Head(queue'[p]) = k
        BY <4>1
      <4> QED BY <3>1, <4>2 DEF Admitted
    <3>3. CASE queue[p] # <<>>
      <4>1. ~Admitted(Head(queue[p]), Head(queue[p]) \in reserved)
        BY <1>3, <2>1, <3>1, <3>3 DEF WakeupNotLost
      <4>2. queue'[p][1] = queue[p][1]
        BY <1>1, <3>1, <3>3
      <4>3. \A b \in Budgets : inUse'[b] >= inUse[b]
        BY <1>1, <3>1
      <4> QED BY <1>1, <3>3, <4>1, <4>2, <4>3, HeadWaits
    <3> QED BY <3>2, <3>3
  <2>3. CASE queue' = queue /\ wakeups' = WakeupsAfter(queue', PeerOf[k], TRUE)
    BY <2>1, <2>3 DEF WakeupsAfter
  <2>4. CASE /\ queue' = queue
             /\ wakeups' = WakeupsAfter(queue', PeerOf[k], FALSE) \/ wakeups' = wakeups
             /\ \A b \in Budgets : inUse'[b] >= inUse[b]
    <3>1. wakeups' = wakeups
      BY <2>1, <2>4 DEF WakeupsAfter
    <3> QED BY <1>2, <1>3, <2>4, <3>1
  <2> QED BY <1>3, <2>2, <2>3, <2>4 DEF EventEffect
<1>4. CASE Event
  <2>1. draining = Idle
    BY <1>4 DEF Event
  <2>2. ASSUME NEW r \in Peers, Wakeup(r)
        PROVE  FALSE
    BY <2>2 DEF Wakeup, OnePeer
  <2> QED BY <1>3, <1>4, <2>1, <2>2, EventOnce
<1>5. CASE Drain
  <2>1. draining = p
    BY <1>1, <1>5 DEF Drain, OnePeer
  <2>2. PICK k \in Requests : /\ k \notin reserved /\ reserved' = reserved
                              /\ queue' = queue /\ inUse' = inUse
                              /\ Head(queue[p]) = k /\ ~Admitted(k, FALSE)
    BY <1>5, <2>1, DrainOnce
  <2> QED BY <2>2 DEF Admitted
<1>6. CASE UNCHANGED vars
  <2>1. \A b \in Budgets : inUse'[b] >= inUse[b]
    BY <1>1, <1>6 DEF vars
  <2> QED BY <1>2, <1>6, <2>1 DEF vars
<1> QED BY <1>4, <1>5, <1>6 DEF Next

(* One peer, no retries: whenever the head of the blocked queue could be   *)
(* dispatched, its wakeup is scheduled or its drain is running, although   *)
(* wakeups are only scheduled where budget is given back and are cancelled *)
(* with the last entry.                                                    *)
THEOREM WakeupsKept ==
  ASSUME ~RetryEnabled, OnePeer
  PROVE  Spec => []WakeupNotLost
<1>1. Init => WakeupNotLost
  BY DEF Init, WakeupNotLost
<1>2. OnceInv /\ OnceInv' /\ WakeupNotLost /\ [Next]_vars => WakeupNotLost'
  BY WakeStep
<1> QED BY <1>1, <1>2, UnretriedInvariance, PTL DEF Spec

=============================================================================
