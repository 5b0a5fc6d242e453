---------------------------- MODULE SueClientProofs ----------------------------
(***************************************************************************)
(* Theorems about the SUE client: types and the capacity of the VC queue   *)
(* for all values of the constants, the order of transactions for all      *)
(* values with which a round is over before the next one. Sums and the     *)
(* packing of bursts are recursive functions: that such a function exists, *)
(* and what it computes, is shown first, with induction for sets of        *)
(* numbers.                                                                *)
(***************************************************************************)
EXTENDS SueClient, FiniteSetTheorems, SequenceTheorems, TLAPS

(* Induction over the naturals for a set of numbers. The library's rule    *)
(* takes a predicate as its parameter; this form follows from the          *)
(* pigeonhole principle: if a set with 0 and the successor of each of its  *)
(* numbers missed n, then x - 1 would map the numbers up to n that it      *)
(* misses into themselves without n.                                       *)
LEMMA SetInduction ==
  ASSUME NEW S \in SUBSET Nat, 0 \in S, \A n \in S : n + 1 \in S
  PROVE  S = Nat
<1> SUFFICES ASSUME NEW n \in Nat, n \notin S PROVE FALSE
  OBVIOUS
<1> DEFINE T == (0 .. n) \ S
           U == T \ {n}
           f == [x \in T |-> x - 1]
<1>1. IsFiniteSet(T)
  BY FS_Interval, FS_Subset, 0 \in Int, n \in Int
<1>2. n \in T
  OBVIOUS
<1>3. IsFiniteSet(U) /\ Cardinality(U) = Cardinality(T) - 1
  BY <1>1, <1>2, FS_RemoveElement
<1>4. f \in [T -> U]
  <2>1. ASSUME NEW x \in T PROVE x - 1 \in U
    <3>1. x # 0
      OBVIOUS
    <3>2. x - 1 \in S => (x - 1) + 1 \in S
      OBVIOUS
    <3> QED BY <3>1, <3>2
  <2> QED
    BY <2>1
<1>5. \A x, y \in T : f[x] = f[y] => x = y
  OBVIOUS
<1>6. Cardinality(T) \in Nat
  BY <1>1, FS_CardinalityType
<1> HIDE DEF T, U, f
<1>7. Cardinality(U) < Cardinality(T)
  BY <1>3, <1>6
<1> QED BY <1>1, <1>3, <1>4, <1>5, <1>7, FS_PigeonHole

-----------------------------------------------------------------------------
(* Sums: Total is defined by a recursive function, of which only its       *)
(* defining equation is known once a function that satisfies it exists.    *)

(* g holds the running totals of s.                                        *)
IsTotal(s, g) ==
  /\ g \in [0 .. Len(s) -> Nat]
  /\ g[0] = 0
  /\ \A k \in 1 .. Len(s) : g[k] = g[k - 1] + s[k]

(* Running totals of a sequence exist.                                     *)
LEMMA RunningTotal ==
  ASSUME NEW s \in Seq(Nat)
  PROVE  \E g : IsTotal(s, g)
<1> DEFINE P(n, g) == /\ g \in [0 .. n -> Nat] /\ g[0] = 0
                      /\ \A k \in 1 .. n : g[k] = g[k - 1] + s[k]
           S == {n \in Nat : n <= Len(s) => \E g : P(n, g)}
<1>1. \E g : P(0, g)
  <2>1. P(0, [k \in 0 .. 0 |-> 0])
    OBVIOUS
  <2> QED BY <2>1
<1>2. ASSUME NEW n \in Nat, n + 1 <= Len(s), NEW g, P(n, g)
      PROVE  \E h : P(n + 1, h)
  <2> DEFINE h == [k \in 0 .. n + 1 |-> IF k = n + 1 THEN g[n] + s[n + 1] ELSE g[k]]
  <2>1. s[n + 1] \in Nat
    BY <1>2
  <2>2. h \in [0 .. n + 1 -> Nat]
    BY <1>2, <2>1
  <2>3. h[0] = 0
    BY <1>2
  <2>4. ASSUME NEW k \in 1 .. n + 1 PROVE h[k] = h[k - 1] + s[k]
    <3>1. CASE k = n + 1
      BY <3>1
    <3>2. CASE k # n + 1
      BY <1>2, <3>2
    <3> QED BY <3>1, <3>2
  <2>5. P(n + 1, h)
    BY <2>2, <2>3, <2>4
  <2> HIDE DEF P, h
  <2> QED BY <2>5
<1> HIDE DEF P
<1>3. \A n \in S : n + 1 \in S
  BY <1>2
<1>4. S = Nat
  <2>1. S \in SUBSET Nat /\ 0 \in S
    BY <1>1
  <2> HIDE DEF S
  <2> QED BY <1>3, <2>1, SetInduction
<1>5. Len(s) \in S
  <2>1. Len(s) \in Nat
    OBVIOUS
  <2> HIDE DEF S
  <2> QED BY <1>4, <2>1
<1>6. \E g : P(Len(s), g)
  BY <1>5
<1> QED BY <1>6 DEF IsTotal, P

(* Total is the last of the running totals, whichever function holds them. *)
LEMMA TotalIs ==
  ASSUME NEW s \in Seq(Nat), NEW g, IsTotal(s, g)
  PROVE  Total(s) = g[Len(s)]
<1> DEFINE F(f) == [k \in 0 .. Len(s) |-> IF k = 0 THEN 0 ELSE f[k - 1] + s[k]]
           sum[k \in 0 .. Len(s)] == IF k = 0 THEN 0 ELSE sum[k - 1] + s[k]
           S == {k \in Nat : k <= Len(s) => sum[k] = g[k]}
<1>1. sum = F(sum)
  <2>1. g = F(g)
    BY DEF IsTotal
  <2> QED BY <2>1
<1>2. \A k \in 0 .. Len(s) : sum[k] = IF k = 0 THEN 0 ELSE sum[k - 1] + s[k]
  BY <1>1
<1>3. Total(s) = sum[Len(s)]
  BY DEF Total
<1> HIDE DEF sum
<1>4. 0 \in S
  BY <1>2 DEF IsTotal
<1>5. ASSUME NEW k \in S PROVE k + 1 \in S
  BY <1>2 DEF IsTotal
<1>6. S = Nat
  <2>1. S \in SUBSET Nat
    OBVIOUS
  <2> HIDE DEF S
  <2> QED BY <1>4, <1>5, <2>1, SetInduction
<1> QED BY <1>3, <1>6

(* Total is a number, the last of some running totals.                     *)
LEMMA TotalRuns ==
  ASSUME NEW s \in Seq(Nat)
  PROVE  /\ Total(s) \in Nat
         /\ \E g : IsTotal(s, g) /\ Total(s) = g[Len(s)]
<1>1. PICK g : IsTotal(s, g)
  BY RunningTotal
<1>2. Total(s) = g[Len(s)]
  BY <1>1, TotalIs
<1>3. g[Len(s)] \in Nat
  BY <1>1 DEF IsTotal
<1> QED BY <1>1, <1>2, <1>3

(* Nothing adds up to zero.                                                *)
LEMMA TotalEmpty == Total(<<>>) = 0
<1>1. <<>> \in Seq(Nat) /\ IsTotal(<<>>, [k \in 0 .. 0 |-> 0])
  BY DEF IsTotal
<1>2. Total(<<>>) = [k \in 0 .. 0 |-> 0][Len(<<>>)]
  BY <1>1, TotalIs, Zenon
<1> QED BY <1>2

(* The total of two sequences one after the other.                         *)
LEMMA TotalConcat ==
  ASSUME NEW s \in Seq(Nat), NEW t \in Seq(Nat)
  PROVE  Total(s \o t) = Total(s) + Total(t)
<1>1. PICK g : IsTotal(s, g) /\ Total(s) = g[Len(s)]
  BY TotalRuns
<1>2. PICK h : IsTotal(t, h) /\ Total(t) = h[Len(t)]
  BY TotalRuns
<1> DEFINE f == [k \in 0 .. Len(s) + Len(t) |->
                   IF k <= Len(s) THEN g[k] ELSE g[Len(s)] + h[k - Len(s)]]
<1>3. s \o t \in Seq(Nat) /\ Len(s \o t) = Len(s) + Len(t)
  OBVIOUS
<1>4. f \in [0 .. Len(s) + Len(t) -> Nat] /\ f[0] = 0
  <2>1. ASSUME NEW k \in 0 .. Len(s) + Len(t), k > Len(s) PROVE h[k - Len(s)] \in Nat
    <3>1. k - Len(s) \in 0 .. Len(t)
      BY <2>1
    <3> QED BY <1>2, <3>1 DEF IsTotal
  <2>2. ASSUME NEW k \in 0 .. Len(s) + Len(t) PROVE f[k] \in Nat
    <3>1. Len(s) \in 0 .. Len(s) /\ (k <= Len(s) => k \in 0 .. Len(s))
      OBVIOUS
    <3>2. g[Len(s)] \in Nat /\ (k <= Len(s) => g[k] \in Nat)
      BY <1>1, <3>1 DEF IsTotal
    <3> QED BY <2>1, <3>2
  <2>3. f[0] = 0
    BY <1>1 DEF IsTotal
  <2> QED BY <2>2, <2>3
<1>5. ASSUME NEW k \in 1 .. Len(s) + Len(t) PROVE f[k] = f[k - 1] + (s \o t)[k]
  <2>1. CASE k <= Len(s)
    BY <1>1, <2>1 DEF IsTotal
  <2>2. CASE k > Len(s)
    <3> k - Len(s) \in 1 .. Len(t) /\ k - Len(s) - 1 \in 0 .. Len(t)
      BY <2>2
    <3>1. h[k - Len(s)] = h[k - Len(s) - 1] + t[k - Len(s)]
      BY <1>2 DEF IsTotal
    <3>2. t[k - Len(s)] \in Nat /\ (s \o t)[k] = t[k - Len(s)]
      BY <2>2
    <3>3. h[k - Len(s) - 1] \in Nat /\ h[0] = 0 /\ g[Len(s)] \in Nat
      <4>1. Len(s) \in 0 .. Len(s)
        OBVIOUS
      <4> QED BY <1>1, <1>2, <4>1 DEF IsTotal
    <3>4. CASE k - 1 = Len(s)
      BY <3>1, <3>2, <3>3, <3>4
    <3>5. CASE k - 1 # Len(s)
      <4>1. f[k] = g[Len(s)] + h[k - Len(s)]
        BY <2>2
      <4>2. k - 1 \in 0 .. Len(s) + Len(t) /\ ~(k - 1 <= Len(s))
        BY <2>2, <3>5
      <4>3. f[k - 1] = g[Len(s)] + h[k - 1 - Len(s)] /\ k - 1 - Len(s) = k - Len(s) - 1
        BY <4>2
      <4> HIDE DEF f
      <4> QED BY <3>1, <3>2, <3>3, <4>1, <4>2, <4>3
    <3> QED BY <3>4, <3>5
  <2> QED BY <2>1, <2>2
<1>6. IsTotal(s \o t, f)
  <2> HIDE DEF f
  <2> QED BY <1>3, <1>4, <1>5 DEF IsTotal
<1>7. Total(s \o t) = f[Len(s) + Len(t)]
  <2> HIDE DEF f
  <2> QED BY <1>3, <1>6, TotalIs
<1>8. f[Len(s) + Len(t)] = g[Len(s)] + h[Len(t)]
  <2>1. CASE Len(t) = 0
    BY <1>1, <1>2, <2>1 DEF IsTotal
  <2>2. CASE Len(t) # 0
    BY <2>2
  <2> QED BY <2>1, <2>2
<1> QED BY <1>1, <1>2, <1>7, <1>8

(* The total of one number.                                                *)
LEMMA TotalOne ==
  ASSUME NEW x \in Nat
  PROVE  Total(<<x>>) = x
<1>1. <<x>> \in Seq(Nat) /\ IsTotal(<<x>>, [k \in 0 .. 1 |-> IF k = 0 THEN 0 ELSE x])
  BY DEF IsTotal
<1>2. Total(<<x>>) = [k \in 0 .. 1 |-> IF k = 0 THEN 0 ELSE x][Len(<<x>>)]
  BY <1>1, TotalIs, Zenon
<1> QED BY <1>2

(* A number appended counts once.                                          *)
LEMMA TotalAppend ==
  ASSUME NEW s \in Seq(Nat), NEW x \in Nat
  PROVE  Total(Append(s, x)) = Total(s) + x
<1>1. Append(s, x) = s \o <<x>> /\ <<x>> \in Seq(Nat)
  BY AppendIsConcat
<1> QED BY <1>1, TotalConcat, TotalOne

(* What is left of a sequence when the element at k is taken out.          *)
LEMMA RemoveAtIs ==
  ASSUME NEW S, NEW s \in Seq(S), NEW k \in 1 .. Len(s)
  PROVE  /\ RemoveAt(s, k) \in Seq(S)
         /\ Len(RemoveAt(s, k)) = Len(s) - 1
         /\ \A i \in 1 .. Len(s) - 1 :
              RemoveAt(s, k)[i] = IF i < k THEN s[i] ELSE s[i + 1]
<1> DEFINE a == SubSeq(s, 1, k - 1)
           b == SubSeq(s, k + 1, Len(s))
<1>1. /\ a \in Seq(S) /\ Len(a) = k - 1
      /\ \A i \in 1 .. k - 1 : a[i] = s[i]
  OBVIOUS
<1>2. /\ b \in Seq(S) /\ Len(b) = Len(s) - k
      /\ \A i \in 1 .. Len(s) - k : b[i] = s[k + i]
  OBVIOUS
<1>3. RemoveAt(s, k) = a \o b
  BY DEF RemoveAt
<1> HIDE DEF a, b
<1>4. /\ a \o b \in Seq(S) /\ Len(a \o b) = Len(s) - 1
      /\ \A i \in 1 .. Len(s) - 1 :
           (a \o b)[i] = IF i <= Len(a) THEN a[i] ELSE b[i - Len(a)]
  BY <1>1, <1>2, ConcatProperties
<1>5. ASSUME NEW i \in 1 .. Len(s) - 1
      PROVE  (a \o b)[i] = IF i < k THEN s[i] ELSE s[i + 1]
  <2>1. CASE i < k
    BY <1>1, <1>4, <2>1
  <2>2. CASE ~(i < k)
    <3>1. (a \o b)[i] = b[i - (k - 1)]
      BY <1>1, <1>4, <2>2
    <3>2. i - (k - 1) \in 1 .. Len(s) - k /\ k + (i - (k - 1)) = i + 1
      BY <2>2
    <3>3. b[i - (k - 1)] = s[k + (i - (k - 1))]
      BY <1>2, <3>2
    <3> QED BY <2>2, <3>1, <3>2, <3>3
  <2> QED BY <2>1, <2>2
<1> QED BY <1>3, <1>4, <1>5

(* A number taken out of a sequence leaves its total.                      *)
LEMMA TotalRemoveAt ==
  ASSUME NEW s \in Seq(Nat), NEW k \in 1 .. Len(s)
  PROVE  Total(s) = Total(RemoveAt(s, k)) + s[k]
<1> DEFINE a == SubSeq(s, 1, k - 1)
           b == SubSeq(s, k + 1, Len(s))
           c == <<s[k]>>
           ac == a \o c
<1>1. a \in Seq(Nat) /\ b \in Seq(Nat) /\ c \in Seq(Nat) /\ s[k] \in Nat
  OBVIOUS
<1>2. /\ Len(a) = k - 1 /\ Len(b) = Len(s) - k /\ Len(c) = 1 /\ c[1] = s[k]
      /\ (\A i \in 1 .. k - 1 : a[i] = s[i])
      /\ (\A i \in 1 .. Len(s) - k : b[i] = s[k + i])
  OBVIOUS
<1>3. RemoveAt(s, k) = a \o b
  BY DEF RemoveAt
<1>4. Total(c) = s[k]
  BY <1>1, TotalOne
<1> HIDE DEF a, b, c
<1>5. /\ ac \in Seq(Nat) /\ Len(ac) = Len(a) + Len(c)
      /\ \A i \in 1 .. Len(a) + Len(c) :
           ac[i] = IF i <= Len(a) THEN a[i] ELSE c[i - Len(a)]
  BY <1>1, ConcatProperties, Zenon
<1>6. Total(ac) = Total(a) + Total(c)
  BY <1>1, TotalConcat
<1> HIDE DEF ac
<1>7. /\ ac \o b \in Seq(Nat) /\ Len(ac \o b) = Len(ac) + Len(b)
      /\ \A i \in 1 .. Len(ac) + Len(b) :
           (ac \o b)[i] = IF i <= Len(ac) THEN ac[i] ELSE b[i - Len(ac)]
  <2>1. ac \in Seq(Nat) /\ b \in Seq(Nat)
    BY <1>1, <1>5
  <2> QED BY <2>1, ConcatProperties, Zenon
<1>8. s = ac \o b
  <2>1. ASSUME NEW i \in 1 .. Len(s) PROVE s[i] = (ac \o b)[i]
    <3> Len(s) \in Nat /\ i \in 1 .. Len(ac) + Len(b) /\ Len(ac) = k
      BY <1>2, <1>5
    <3>0. (ac \o b)[i] = IF i <= k THEN ac[i] ELSE b[i - k]
      BY <1>7
    <3>1. CASE i < k
      <4>1. ac[i] = a[i] /\ a[i] = s[i]
        BY <1>2, <1>5, <3>1
      <4> QED BY <3>0, <3>1, <4>1
    <3>2. CASE i = k
      BY <1>2, <1>5, <1>7, <3>2
    <3>3. CASE i > k
      <4>1. i - k \in 1 .. Len(s) - k /\ k + (i - k) = i
        BY <3>3
      <4>2. (ac \o b)[i] = b[i - k]
        BY <3>0, <3>3
      <4> QED BY <1>2, <4>1, <4>2
    <3> QED BY <3>1, <3>2, <3>3
  <2>2. Len(ac \o b) = Len(s)
    BY <1>2, <1>5, <1>7
  <2> QED BY <1>7, <2>1, <2>2, SeqEqual
<1>9. Total(s) = Total(ac) + Total(b) /\ Total(RemoveAt(s, k)) = Total(a) + Total(b)
  BY <1>1, <1>3, <1>5, <1>8, TotalConcat
<1>10. Total(a) \in Nat /\ Total(b) \in Nat
  BY <1>1, TotalRuns
<1> QED BY <1>1, <1>4, <1>6, <1>9, <1>10

(* So does the first one: what Transmit takes out of the VC queue.         *)
LEMMA TotalTail ==
  ASSUME NEW s \in Seq(Nat), s # <<>>
  PROVE  Total(s) = Total(Tail(s)) + Head(s)
<1> DEFINE c == <<Head(s)>>
<1>1. s = c \o Tail(s) /\ Head(s) \in Nat /\ Tail(s) \in Seq(Nat) /\ c \in Seq(Nat)
  OBVIOUS
<1>2. Total(c) = Head(s)
  BY <1>1, TotalOne
<1>3. Total(Tail(s)) \in Nat
  BY <1>1, TotalRuns
<1>4. Total(s) = Total(c) + Total(Tail(s))
  <2> HIDE DEF c
  <2> QED BY <1>1, TotalConcat, Zenon
<1> QED BY <1>1, <1>2, <1>3, <1>4

-----------------------------------------------------------------------------
(* ScheduleNextSend: how many transactions may be packed into the free     *)
(* bytes of the VC queue, and the bytes their bursts need.                 *)

(* The sizes, and the transactions a burst has room for.                   *)
LEMMA Sizes ==
  /\ TransactionSize \in Nat \ {0} /\ HeaderSize \in Nat /\ MaxBurstSize \in Nat
  /\ PerBurst \in Nat \ {0} /\ PerBurst * TransactionSize <= MaxBurstSize
  /\ MaxBurstSize < (PerBurst + 1) * TransactionSize
<1>1. /\ PerBurst \in Nat /\ PerBurst * TransactionSize <= MaxBurstSize
      /\ MaxBurstSize < (PerBurst + 1) * TransactionSize
  BY SueClientAssumption DEF PerBurst
<1>2. PerBurst # 0
  BY <1>1, SueClientAssumption
<1> QED BY <1>1, <1>2, SueClientAssumption

(* Integer division.                                                       *)
LEMMA QuotientIs ==
  ASSUME NEW a \in Nat, NEW b \in Nat \ {0}
  PROVE  /\ a \div b \in Nat
         /\ (a \div b) * b <= a
         /\ a < (a \div b + 1) * b
OBVIOUS

(* SmartPacking makes as many bursts as needed and no more.                *)
LEMMA BurstCountIs ==
  ASSUME NEW n \in Nat
  PROVE  /\ BurstCount(n) \in Nat
         /\ n <= BurstCount(n) * PerBurst
         /\ BurstCount(n) * PerBurst < n + PerBurst
<1> DEFINE a == n + PerBurst - 1
           B == a \div PerBurst
<1>1. a \in Nat /\ PerBurst \in Nat \ {0}
  BY Sizes
<1> HIDE DEF a
<1>2. B \in Nat /\ B * PerBurst <= a /\ a < (B + 1) * PerBurst
  BY <1>1, QuotientIs
<1>3. BurstCount(n) = B
  BY DEF BurstCount, a
<1> HIDE DEF B
<1>4. (B + 1) * PerBurst = B * PerBurst + PerBurst
  BY <1>1, <1>2
<1>5. B * PerBurst \in Nat
  BY <1>1, <1>2
<1> QED BY <1>1, <1>2, <1>3, <1>4, <1>5 DEF a

(* Only one number of bursts is neither too small nor too large.           *)
LEMMA BurstCountUnique ==
  ASSUME NEW n \in Nat, NEW B \in Nat, n <= B * PerBurst, B * PerBurst < n + PerBurst
  PROVE  BurstCount(n) = B
<1> DEFINE C == BurstCount(n)
<1>1. C \in Nat /\ n <= C * PerBurst /\ C * PerBurst < n + PerBurst
  BY BurstCountIs
<1>2. PerBurst \in Nat \ {0}
  BY Sizes
<1> HIDE DEF C
<1>3. C * PerBurst \in Nat /\ B * PerBurst \in Nat
  BY <1>1, <1>2
<1>4. ~(C < B)
  <2> SUFFICES ASSUME C + 1 <= B PROVE FALSE
    BY <1>1
  <2>1. (C + 1) * PerBurst <= B * PerBurst /\ (C + 1) * PerBurst = C * PerBurst + PerBurst
    BY <1>1, <1>2
  <2> QED BY <1>1, <1>2, <1>3, <2>1
<1>5. ~(B < C)
  <2> SUFFICES ASSUME B + 1 <= C PROVE FALSE
    BY <1>1
  <2>1. (B + 1) * PerBurst <= C * PerBurst /\ (B + 1) * PerBurst = B * PerBurst + PerBurst
    BY <1>1, <1>2
  <2> QED BY <1>1, <1>2, <1>3, <2>1
<1>6. C = B
  BY <1>1, <1>4, <1>5
<1> QED BY <1>6 DEF C

(* The subtraction of bursts, for a function g that has the results for    *)
(* what is left.                                                           *)
PackableFrom(g, c) ==
  IF c <= TransactionSize + HeaderSize THEN 0
  ELSE IF c - HeaderSize > MaxBurstSize
    THEN PerBurst + g[c - MaxBurstSize - HeaderSize]
    ELSE (c - HeaderSize) \div TransactionSize

(* It gives a number.                                                      *)
LEMMA PackableFromIs ==
  ASSUME NEW n \in Nat, NEW c \in 0 .. n + 1, NEW g \in [0 .. n -> Nat]
  PROVE  PackableFrom(g, c) \in Nat
<1>1. CASE c <= TransactionSize + HeaderSize
  BY <1>1 DEF PackableFrom
<1>2. CASE ~(c <= TransactionSize + HeaderSize) /\ c - HeaderSize > MaxBurstSize
  <2>1. c - MaxBurstSize - HeaderSize \in 0 .. n
    BY <1>2, Sizes, SueClientAssumption
  <2> QED BY <1>2, <2>1, Sizes DEF PackableFrom
<1>3. CASE ~(c <= TransactionSize + HeaderSize) /\ ~(c - HeaderSize > MaxBurstSize)
  <2>1. c - HeaderSize \in Nat
    BY <1>3, Sizes
  <2> QED BY <1>3, <2>1, Sizes, QuotientIs DEF PackableFrom
<1> QED BY <1>1, <1>2, <1>3

(* A function that satisfies the equation of Packable exists, so that      *)
(* Packable does.                                                          *)
LEMMA PackableExists ==
  \E g \in [0 .. VcRoom -> Nat] : \A c \in 0 .. VcRoom : g[c] = PackableFrom(g, c)
<1> DEFINE P(n, g) == /\ g \in [0 .. n -> Nat]
                      /\ \A c \in 0 .. n : g[c] = PackableFrom(g, c)
           S == {n \in Nat : \E g : P(n, g)}
<1>1. \E g : P(0, g)
  <2> DEFINE g == [c \in 0 .. 0 |-> 0]
  <2>1. P(0, g)
    BY Sizes DEF PackableFrom
  <2> QED BY <2>1
<1>2. ASSUME NEW n \in Nat, NEW g, P(n, g)
      PROVE  \E h : P(n + 1, h)
  <2> DEFINE h == [c \in 0 .. n + 1 |-> IF c = n + 1 THEN PackableFrom(g, n + 1) ELSE g[c]]
  <2>1. PackableFrom(g, n + 1) \in Nat
    BY <1>2, PackableFromIs
  <2>2. h \in [0 .. n + 1 -> Nat]
    BY <1>2, <2>1
  <2>3. ASSUME NEW c \in 0 .. n + 1 PROVE PackableFrom(h, c) = PackableFrom(g, c)
    <3>1. CASE c - MaxBurstSize - HeaderSize \in 0 .. n
      <4>1. h[c - MaxBurstSize - HeaderSize] = g[c - MaxBurstSize - HeaderSize]
        BY <3>1
      <4> HIDE DEF h
      <4> QED BY <4>1 DEF PackableFrom
    <3>2. CASE ~(c - HeaderSize > MaxBurstSize)
      BY <3>2 DEF PackableFrom
    <3> QED BY <3>1, <3>2, Sizes, SueClientAssumption
  <2>4. ASSUME NEW c \in 0 .. n + 1 PROVE h[c] = PackableFrom(h, c)
    <3>1. CASE c = n + 1
      BY <3>1, <2>3
    <3>2. CASE c # n + 1
      <4>1. c \in 0 .. n
        BY <3>2
      <4>2. h[c] = g[c] /\ g[c] = PackableFrom(g, c)
        BY <1>2, <3>2, <4>1
      <4> QED BY <2>3, <4>2
    <3> QED BY <3>1, <3>2
  <2>5. P(n + 1, h)
    BY <2>2, <2>4
  <2> HIDE DEF P, h
  <2> QED BY <2>5
<1> HIDE DEF P
<1>3. \A n \in S : n + 1 \in S
  BY <1>2
<1>4. S = Nat
  <2>1. S \in SUBSET Nat /\ 0 \in S
    BY <1>1
  <2> HIDE DEF S
  <2> QED BY <1>3, <2>1, SetInduction
<1>5. VcRoom \in S
  <2> HIDE DEF S
  <2> QED BY <1>4, SueClientAssumption
<1>6. \E g : P(VcRoom, g)
  BY <1>5
<1> QED BY <1>6 DEF P

(* Packable by its equation.                                               *)
LEMMA PackableIs ==
  ASSUME NEW c \in 0 .. VcRoom
  PROVE  Packable[c] = PackableFrom(Packable, c)
<1> DEFINE F(f) == [x \in 0 .. VcRoom |-> PackableFrom(f, x)]
<1>1. PICK g \in [0 .. VcRoom -> Nat] : g = F(g)
  BY PackableExists
<1>2. Packable = F(Packable)
  BY <1>1 DEF Packable, PackableFrom
<1> QED BY <1>2

(* The bytes of n transactions in bursts, a header for each burst.         *)
BurstBytes(n) == n * TransactionSize + BurstCount(n) * HeaderSize

(* As many transactions as may be packed, or fewer, fit into the free      *)
(* bytes with the headers of their bursts. The subtraction in              *)
(* ScheduleNextSend takes a full burst at a time, SmartPacking packs what  *)
(* is there: this is why the two agree.                                    *)
LEMMA PackingFits ==
  ASSUME NEW c \in 0 .. VcRoom
  PROVE  /\ Packable[c] \in Nat
         /\ \A n \in 0 .. Packable[c] : BurstBytes(n) <= c
<1> DEFINE Fits(x) == Packable[x] \in Nat /\ \A n \in 0 .. Packable[x] : BurstBytes(n) <= x
           S == {m \in Nat : \A x \in 0 .. VcRoom : x <= m => Fits(x)}
<1>1. BurstBytes(0) = 0
  <2>1. BurstCount(0) = 0
    BY BurstCountUnique, Sizes
  <2> QED BY <2>1, Sizes DEF BurstBytes
<1>2. ASSUME NEW x \in 0 .. VcRoom, x <= TransactionSize + HeaderSize
      PROVE  Fits(x)
  BY <1>1, <1>2, PackableIs DEF PackableFrom
<1>3. ASSUME NEW x \in 0 .. VcRoom, ~(x <= TransactionSize + HeaderSize),
             ~(x - HeaderSize > MaxBurstSize)
      PROVE  Fits(x)
  <2> DEFINE p == (x - HeaderSize) \div TransactionSize
  <2>1. Packable[x] = p
    BY <1>3, PackableIs DEF PackableFrom
  <2>2. x - HeaderSize \in Nat
    BY <1>3, Sizes, SueClientAssumption
  <2>3. p \in Nat /\ p * TransactionSize <= x - HeaderSize
    BY <2>2, Sizes, QuotientIs
  <2> HIDE DEF p
  <2>4. ASSUME NEW n \in 0 .. p, n # 0 PROVE BurstBytes(n) <= x
    <3>1. n * TransactionSize <= p * TransactionSize /\ n * TransactionSize \in Nat
      BY <2>3, Sizes
    <3>2. n <= PerBurst
      BY <1>3, <2>2, <2>3, <3>1, Sizes
    <3>3. BurstCount(n) = 1
      BY <2>3, <2>4, <3>2, Sizes, BurstCountUnique
    <3> QED BY <2>2, <2>3, <3>1, <3>3, Sizes DEF BurstBytes
  <2> QED BY <1>1, <2>1, <2>3, <2>4
<1>4. ASSUME NEW x \in 0 .. VcRoom, ~(x <= TransactionSize + HeaderSize),
             x - HeaderSize > MaxBurstSize,
             Fits(x - MaxBurstSize - HeaderSize)
      PROVE  Fits(x)
  <2> DEFINE y == x - MaxBurstSize - HeaderSize
  <2>1. Packable[x] = PerBurst + Packable[y]
    BY <1>4, PackableIs DEF PackableFrom
  <2>2. Packable[y] \in Nat /\ \A n \in 0 .. Packable[y] : BurstBytes(n) <= y
    BY <1>4
  <2>3. x = y + MaxBurstSize + HeaderSize /\ y \in Nat
    BY <1>4, Sizes, SueClientAssumption
  <2> HIDE DEF y
  <2>4. ASSUME NEW n \in 1 .. PerBurst PROVE BurstBytes(n) <= x
    <3>1. BurstCount(n) = 1
      BY Sizes, BurstCountUnique
    <3>2. n * TransactionSize <= PerBurst * TransactionSize /\ n * TransactionSize \in Nat
      BY Sizes
    <3> QED BY <2>3, <3>1, <3>2, Sizes DEF BurstBytes
  <2>5. ASSUME NEW n \in 0 .. Packable[y] PROVE BurstBytes(n + PerBurst) <= x
    <3> DEFINE B == BurstCount(n)
    <3>1. B \in Nat /\ n <= B * PerBurst /\ B * PerBurst < n + PerBurst /\ n \in Nat
      BY <2>2, BurstCountIs
    <3>2. BurstBytes(n) = n * TransactionSize + B * HeaderSize
      BY DEF BurstBytes
    <3> HIDE DEF B
    <3>3. (B + 1) * PerBurst = B * PerBurst + PerBurst /\ B * PerBurst \in Nat
      BY <3>1, Sizes
    <3>4. BurstCount(n + PerBurst) = B + 1
      BY <3>1, <3>3, Sizes, BurstCountUnique
    <3>5. BurstBytes(n + PerBurst) = (n + PerBurst) * TransactionSize + (B + 1) * HeaderSize
      BY <3>4 DEF BurstBytes
    <3>6. /\ (n + PerBurst) * TransactionSize = n * TransactionSize + PerBurst * TransactionSize
          /\ (B + 1) * HeaderSize = B * HeaderSize + HeaderSize
          /\ n * TransactionSize \in Nat /\ B * HeaderSize \in Nat
          /\ PerBurst * TransactionSize \in Nat
      BY <3>1, Sizes
    <3>7. BurstBytes(n) <= y
      BY <2>2
    <3> QED BY <2>3, <3>2, <3>5, <3>6, <3>7, Sizes
  <2>6. ASSUME NEW n \in 0 .. Packable[x] PROVE BurstBytes(n) <= x
    <3>1. CASE n = 0
      BY <1>1, <3>1
    <3>2. CASE n \in 1 .. PerBurst
      BY <2>4, <3>2
    <3>3. CASE n > PerBurst
      <4>1. n - PerBurst \in 0 .. Packable[y] /\ (n - PerBurst) + PerBurst = n
        BY <2>1, <2>2, <3>3, Sizes
      <4> QED BY <2>5, <4>1
    <3> QED BY <2>1, <2>2, <3>1, <3>2, <3>3, Sizes
  <2> QED BY <2>1, <2>2, <2>6, Sizes
<1> HIDE DEF Fits
<1>5. 0 \in S
  BY <1>2, Sizes, SueClientAssumption
<1>6. ASSUME NEW m \in S PROVE m + 1 \in S
  <2> SUFFICES ASSUME NEW x \in 0 .. VcRoom, x <= m + 1 PROVE Fits(x)
    OBVIOUS
  <2>1. CASE x - HeaderSize > MaxBurstSize /\ ~(x <= TransactionSize + HeaderSize)
    <3>1. x - MaxBurstSize - HeaderSize \in 0 .. VcRoom /\ x - MaxBurstSize - HeaderSize <= m
      BY <2>1, Sizes, SueClientAssumption
    <3> QED BY <1>4, <2>1, <3>1
  <2> QED BY <1>2, <1>3, <2>1
<1>7. S = Nat
  <2>1. S \in SUBSET Nat
    OBVIOUS
  <2> HIDE DEF S
  <2> QED BY <1>5, <1>6, <2>1, SetInduction
<1>8. Fits(c)
  <2>1. VcRoom \in S
    <3> HIDE DEF S
    <3> QED BY <1>7, SueClientAssumption
  <2> QED BY <2>1, SueClientAssumption
<1> QED BY <1>8 DEF Fits

-----------------------------------------------------------------------------
(* SmartPacking: the loads of the bursts.                                  *)

(* The transactions in burst k of n transactions.                          *)
LoadLength(n, k) == IF k * PerBurst <= n THEN PerBurst ELSE n - (k - 1) * PerBurst

(* Every burst but the last is full, none is empty, and together they hold *)
(* the n transactions.                                                     *)
LEMMA LoadLengthIs ==
  ASSUME NEW n \in Nat, NEW k \in 1 .. BurstCount(n)
  PROVE  /\ LoadLength(n, k) \in 1 .. PerBurst
         /\ (k - 1) * PerBurst \in Nat
         /\ (k - 1) * PerBurst + LoadLength(n, k) <= n
         /\ k < BurstCount(n) => LoadLength(n, k) = PerBurst
         /\ k * PerBurst = (k - 1) * PerBurst + PerBurst
         /\ k = BurstCount(n) => (k - 1) * PerBurst + LoadLength(n, k) = n
<1> DEFINE B == BurstCount(n)
<1>1. B \in Nat /\ n <= B * PerBurst /\ B * PerBurst < n + PerBurst
  BY BurstCountIs
<1> HIDE DEF B
<1>2. k \in 1 .. B
  BY DEF B
<1>3. PerBurst \in Nat \ {0}
  BY Sizes
<1>4. /\ k * PerBurst = (k - 1) * PerBurst + PerBurst
      /\ B * PerBurst = (B - 1) * PerBurst + PerBurst
      /\ (k - 1) * PerBurst \in Nat /\ (B - 1) * PerBurst \in Nat
  BY <1>1, <1>2, <1>3
<1>5. (k - 1) * PerBurst <= (B - 1) * PerBurst
  BY <1>1, <1>2, <1>3
<1>6. k < B => k * PerBurst <= (B - 1) * PerBurst
  BY <1>1, <1>2, <1>3
<1> QED BY <1>1, <1>2, <1>3, <1>4, <1>5, <1>6 DEF LoadLength, B

(* The loads are the numbers of the first n entries of the queue, cut into *)
(* bursts.                                                                 *)
LEMMA LoadsAre ==
  ASSUME NEW q \in Seq(Entry), NEW n \in 0 .. Len(q),
         NEW loads, loads = SmartPacking(q, n)
  PROVE  /\ BurstCount(n) \in Nat /\ DOMAIN loads = 1 .. BurstCount(n)
         /\ loads \in Seq(Seq(Nat \ {0})) /\ Len(loads) = BurstCount(n)
         /\ \A k \in 1 .. BurstCount(n) :
              /\ loads[k] \in Seq(Nat \ {0})
              /\ Len(loads[k]) = LoadLength(n, k)
              /\ \A i \in 1 .. LoadLength(n, k) :
                   loads[k][i] = q[(k - 1) * PerBurst + i].n
<1> DEFINE L(k) == LoadLength(n, k)
           B == BurstCount(n)
<1>1. loads = [k \in 1 .. B |-> [i \in 1 .. L(k) |-> q[(k - 1) * PerBurst + i].n]]
  BY DEF SmartPacking, LoadLength
<1>2. n \in Nat /\ Len(q) \in Nat
  OBVIOUS
<1>3. B \in Nat
  BY <1>2, BurstCountIs
<1>4. ASSUME NEW k \in 1 .. B
      PROVE  /\ loads[k] \in Seq(Nat \ {0})
             /\ Len(loads[k]) = L(k)
             /\ \A i \in 1 .. L(k) : loads[k][i] = q[(k - 1) * PerBurst + i].n
  <2>1. L(k) \in 1 .. PerBurst /\ (k - 1) * PerBurst \in Nat /\ (k - 1) * PerBurst + L(k) <= n
    BY <1>2, LoadLengthIs
  <2>2. L(k) \in Nat
    BY <2>1, Sizes
  <2> HIDE DEF L
  <2>3. loads[k] = [i \in 1 .. L(k) |-> q[(k - 1) * PerBurst + i].n]
    BY <1>1
  <2>4. ASSUME NEW i \in 1 .. L(k) PROVE q[(k - 1) * PerBurst + i].n \in Nat \ {0}
    <3>1. (k - 1) * PerBurst + i \in 1 .. Len(q)
      BY <1>2, <2>1, <2>2
    <3>2. q[(k - 1) * PerBurst + i] \in Entry
      BY <3>1, ElementOfSeq
    <3> QED BY <3>2 DEF Entry
  <2>5. loads[k] \in [1 .. L(k) -> Nat \ {0}]
    BY <2>3, <2>4
  <2>6. loads[k] \in Seq(Nat \ {0}) /\ Len(loads[k]) = L(k)
    BY <2>2, <2>5
  <2> QED BY <2>3, <2>6
<1> HIDE DEF L, B
<1>5. loads \in [1 .. B -> Seq(Nat \ {0})]
  BY <1>1, <1>4
<1>6. loads \in Seq(Seq(Nat \ {0})) /\ Len(loads) = B /\ DOMAIN loads = 1 .. B
  BY <1>3, <1>5
<1> QED BY <1>3, <1>4, <1>6 DEF L, B

(* The sizes of the bursts add up to the bytes of their transactions and   *)
(* headers: what ReserveVcCapacity is asked for.                           *)
LEMMA LoadsTotal ==
  ASSUME NEW q \in Seq(Entry), NEW n \in 0 .. Len(q),
         NEW loads, loads = SmartPacking(q, n)
  PROVE  /\ [k \in DOMAIN loads |-> SizeOf(loads[k])] \in Seq(Nat)
         /\ Total([k \in DOMAIN loads |-> SizeOf(loads[k])]) = BurstBytes(n)
<1> DEFINE B == BurstCount(n)
           sizes == [k \in DOMAIN loads |-> SizeOf(loads[k])]
           to(k) == IF k * PerBurst <= n THEN k * PerBurst ELSE n
           g == [k \in 0 .. B |-> to(k) * TransactionSize + k * HeaderSize]
<1>1. n \in Nat /\ B \in Nat /\ DOMAIN loads = 1 .. B
  BY LoadsAre
<1>2. ASSUME NEW k \in 1 .. B
      PROVE  /\ LoadLength(n, k) \in Nat
             /\ sizes[k] = LoadLength(n, k) * TransactionSize + HeaderSize
             /\ to(k) = to(k - 1) + LoadLength(n, k)
             /\ to(k - 1) \in Nat
  <2>1. /\ LoadLength(n, k) \in 1 .. PerBurst
        /\ (k - 1) * PerBurst \in Nat
        /\ (k - 1) * PerBurst + LoadLength(n, k) <= n
        /\ k * PerBurst = (k - 1) * PerBurst + PerBurst
    BY <1>1, LoadLengthIs
  <2>2. LoadLength(n, k) \in Nat
    BY <2>1, Sizes
  <2>3. sizes[k] = LoadLength(n, k) * TransactionSize + HeaderSize
    BY <1>1, LoadsAre DEF SizeOf
  <2>4. to(k - 1) = (k - 1) * PerBurst
    BY <1>1, <2>1, <2>2
  <2>5. to(k) = (k - 1) * PerBurst + LoadLength(n, k)
    BY <1>1, <2>1, <2>2, Sizes DEF LoadLength
  <2> QED BY <2>1, <2>2, <2>3, <2>4, <2>5
<1>3. ASSUME NEW k \in 1 .. B PROVE sizes[k] \in Nat
  <2> DEFINE l == LoadLength(n, k)
  <2>1. l \in Nat /\ sizes[k] = l * TransactionSize + HeaderSize
    BY <1>2
  <2> HIDE DEF l
  <2>2. l * TransactionSize \in Nat
    BY <2>1, Sizes
  <2> HIDE DEF sizes
  <2> QED BY <2>1, <2>2, Sizes
<1>4. sizes \in Seq(Nat) /\ Len(sizes) = B
  <2>1. sizes \in [1 .. B -> Nat]
    BY <1>1, <1>3
  <2> HIDE DEF sizes
  <2> QED BY <1>1, <2>1
<1>5. ASSUME NEW k \in 0 .. B PROVE to(k) \in Nat
  BY <1>1, Sizes
<1>6. g \in [0 .. B -> Nat] /\ g[0] = 0
  <2>1. to(0) = 0
    BY <1>1, Sizes
  <2> HIDE DEF to
  <2>2. g[0] = 0
    BY <1>1, <2>1, Sizes
  <2>3. ASSUME NEW k \in 0 .. B PROVE to(k) * TransactionSize + k * HeaderSize \in Nat
    <3>1. to(k) \in Nat /\ k \in Nat
      BY <1>1, <1>5
    <3>2. to(k) * TransactionSize \in Nat /\ k * HeaderSize \in Nat
      BY <3>1, Sizes
    <3> QED BY <3>2
  <2> QED BY <2>2, <2>3
<1>7. ASSUME NEW k \in 1 .. B PROVE g[k] = g[k - 1] + sizes[k]
  <2> DEFINE x == to(k - 1)
             l == LoadLength(n, k)
  <2>1. g[k] = to(k) * TransactionSize + k * HeaderSize
    BY <1>1
  <2>2. g[k - 1] = x * TransactionSize + (k - 1) * HeaderSize
    BY <1>1
  <2>3. l \in Nat /\ x \in Nat /\ to(k) = x + l /\ sizes[k] = l * TransactionSize + HeaderSize
    BY <1>2
  <2> HIDE DEF x, l, g, sizes, to
  <2>4. /\ (x + l) * TransactionSize = x * TransactionSize + l * TransactionSize
        /\ k * HeaderSize = (k - 1) * HeaderSize + HeaderSize
        /\ x * TransactionSize \in Nat /\ l * TransactionSize \in Nat
        /\ (k - 1) * HeaderSize \in Nat /\ k * HeaderSize \in Nat
    BY <1>1, <2>3, Sizes
  <2> QED BY <2>1, <2>2, <2>3, <2>4, Sizes
<1>8. g[B] = BurstBytes(n)
  <2>1. to(B) = n
    <3>1. n <= B * PerBurst
      BY <1>1, BurstCountIs
    <3> HIDE DEF B
    <3>2. B * PerBurst \in Nat
      BY <1>1, Sizes
    <3> QED BY <1>1, <3>1, <3>2
  <2> HIDE DEF to
  <2> QED BY <1>1, <2>1 DEF BurstBytes
<1> HIDE DEF g, sizes
<1>9. IsTotal(sizes, g)
  BY <1>4, <1>6, <1>7 DEF IsTotal
<1>10. Total(sizes) = BurstBytes(n)
  BY <1>4, <1>8, <1>9, TotalIs
<1> QED BY <1>4, <1>10 DEF sizes

-----------------------------------------------------------------------------
(* Least numbers, ages and the free bytes.                                 *)

(* The smaller of two numbers.                                             *)
LEMMA LeastOfTwo ==
  ASSUME NEW a \in Nat, NEW b \in Nat
  PROVE  /\ Least({a, b}) \in Nat
         /\ Least({a, b}) <= a /\ Least({a, b}) <= b
<1>1. \E m \in {a, b} : \A k \in {a, b} : m <= k
  BY DEF Least
<1>2. Least({a, b}) \in {a, b} /\ \A k \in {a, b} : Least({a, b}) <= k
  BY <1>1 DEF Least
<1> QED BY <1>2

(* The least of some numbers is one of them.                               *)
LEMMA LeastIs ==
  ASSUME NEW S \in SUBSET Nat, S # {}
  PROVE  Least(S) \in S /\ \A k \in S : Least(S) <= k
<1> DEFINE T == {m \in Nat : \A k \in S : m <= k}
<1>1. \E m \in S : \A k \in S : m <= k
  <2> SUFFICES ASSUME \A m \in S : \E k \in S : k < m PROVE FALSE
    OBVIOUS
  <2>1. T \in SUBSET Nat /\ 0 \in T
    OBVIOUS
  <2>2. ASSUME NEW m \in T PROVE m + 1 \in T
    OBVIOUS
  <2>3. T = Nat
    <3> HIDE DEF T
    <3> QED BY <2>1, <2>2, SetInduction
  <2>4. PICK k \in S : TRUE
    OBVIOUS
  <2>5. k + 1 \in T
    BY <2>3
  <2> QED BY <2>4, <2>5
<1> QED BY <1>1 DEF Least

(* An age stays a number when time goes on.                                *)
LEMMA OlderIs ==
  ASSUME NEW a \in Nat, Ages \subseteq Nat
  PROVE  Older(a) \in Nat
<1> DEFINE S == {b \in Ages : b < a}
<1>1. S \subseteq 0 .. a
  <2> SUFFICES ASSUME NEW b \in Ages, b < a PROVE b \in 0 .. a
    OBVIOUS
  <2> QED OBVIOUS
<1>2. IsFiniteSet(0 .. a)
  BY FS_Interval, 0 \in Int, a \in Int
<1>3. IsFiniteSet(S)
  BY <1>1, <1>2, FS_Subset
<1>4. Cardinality(S) \in Nat
  BY <1>3, FS_CardinalityType
<1> QED BY <1>4 DEF Older

(* The free bytes are the room of the VC queue less what is in it and what *)
(* is reserved.                                                            *)
LEMMA FreeIs ==
  ASSUME reserved \in Nat, vcQueue \in Seq(Nat)
  PROVE  /\ Free \in 0 .. VcRoom
         /\ Free # 0 => Free = VcRoom - Total(vcQueue) - reserved
<1>1. Total(vcQueue) \in Nat
  BY TotalRuns
<1> QED BY <1>1, SueClientAssumption DEF Free

-----------------------------------------------------------------------------
(* PopTransactionsFromQueue and the load balancer that it calls back.      *)

(* What each pop leads from one set of states into the next, all of them   *)
(* together do.                                                            *)
LEMMA PoppedIn ==
  ASSUME NEW s, NEW d, NEW count \in Nat, NEW X,
         s \in X[0],
         \A i \in 0 .. count - 1 : \A t \in X[i] : PopOne(t, d) \in X[i + 1]
  PROVE  Popped(s, d, count) \in X[count]
<1> DEFINE F(f) == [i \in 0 .. count |-> IF i = 0 THEN s ELSE PopOne(f[i - 1], d)]
           pop[i \in 0 .. count] == IF i = 0 THEN s ELSE PopOne(pop[i - 1], d)
           P(n, g) == \A i \in 0 .. n : g[i] = IF i = 0 THEN s ELSE PopOne(g[i - 1], d)
           S == {n \in Nat : \E g : P(n, g)}
           T == {n \in Nat : n <= count => pop[n] \in X[n]}
<1>1. \E g : P(0, g)
  <2>1. P(0, [i \in 0 .. 0 |-> s])
    OBVIOUS
  <2> QED BY <2>1
<1>2. ASSUME NEW n \in Nat, NEW g, P(n, g)
      PROVE  \E h : P(n + 1, h)
  <2> DEFINE h == [i \in 0 .. n + 1 |-> IF i = n + 1 THEN PopOne(g[n], d) ELSE g[i]]
  <2>1. ASSUME NEW i \in 0 .. n + 1
        PROVE  h[i] = IF i = 0 THEN s ELSE PopOne(h[i - 1], d)
    <3>1. CASE i = n + 1
      <4>1. h[i] = PopOne(g[n], d) /\ h[i - 1] = g[n]
        BY <3>1
      <4> QED BY <3>1, <4>1
    <3>2. CASE i \in 0 .. n
      <4>1. h[i] = g[i] /\ (i # 0 => h[i - 1] = g[i - 1])
        BY <3>2
      <4>2. g[i] = IF i = 0 THEN s ELSE PopOne(g[i - 1], d)
        BY <1>2, <3>2
      <4> QED BY <4>1, <4>2
    <3> QED BY <3>1, <3>2
  <2>2. P(n + 1, h)
    BY <2>1
  <2> HIDE DEF P, h
  <2> QED BY <2>2
<1>3. S = Nat
  <2> HIDE DEF P
  <2>1. S \in SUBSET Nat /\ 0 \in S /\ \A n \in S : n + 1 \in S
    BY <1>1, <1>2
  <2> HIDE DEF S
  <2> QED BY <2>1, SetInduction
<1>4. PICK g : P(count, g)
  <2> HIDE DEF P
  <2> QED BY <1>3
<1>5. pop = F(pop)
  <2> DEFINE h == [i \in 0 .. count |-> g[i]]
  <2>1. h = F(h)
    BY <1>4
  <2> HIDE DEF h
  <2> QED BY <2>1
<1>6. Popped(s, d, count) = pop[count]
  BY DEF Popped
<1>7. \A i \in 0 .. count : pop[i] = IF i = 0 THEN s ELSE PopOne(pop[i - 1], d)
  BY <1>5
<1> HIDE DEF pop
<1>8. 0 \in T
  BY <1>7
<1>9. ASSUME NEW n \in T PROVE n + 1 \in T
  <2> SUFFICES ASSUME n + 1 <= count PROVE pop[n + 1] \in X[n + 1]
    OBVIOUS
  <2>1. n \in 0 .. count - 1 /\ pop[n] \in X[n]
    OBVIOUS
  <2>2. pop[n + 1] = PopOne(pop[n], d)
    BY <1>7
  <2> QED BY <2>1, <2>2
<1>10. T = Nat
  <2>1. T \in SUBSET Nat
    OBVIOUS
  <2> HIDE DEF T
  <2> QED BY <1>8, <1>9, <2>1, SetInduction
<1>11. count \in T
  <2> HIDE DEF T
  <2> QED BY <1>10
<1> QED BY <1>6, <1>11

(* Queues and a buffer as DoSendBurst finds them between two pops.         *)
Holding == {t \in [queue : [Dests -> Seq(Entry)], buffer : Seq(Transaction)] :
              \A e \in Dests : Len(t.queue[e]) <= DestQueueRoom}

(* AddTransaction puts a transaction at the end of its queue.              *)
LEMMA AddTransactionIs ==
  ASSUME NEW q \in [Dests -> Seq(Entry)], NEW x \in Transaction
  PROVE  /\ AddTransaction(q, x) \in [Dests -> Seq(Entry)]
         /\ AddTransaction(q, x)[x.to] = Append(q[x.to], [n |-> x.n, age |-> 0])
         /\ \A e \in Dests : e # x.to => AddTransaction(q, x)[e] = q[e]
         /\ [n |-> x.n, age |-> 0] \in Entry
<1>1. x.to \in Dests /\ x.n \in Nat \ {0}
  BY DEF Transaction
<1>2. [n |-> x.n, age |-> 0] \in Entry
  BY <1>1 DEF Entry
<1>3. Append(q[x.to], [n |-> x.n, age |-> 0]) \in Seq(Entry)
  BY <1>1, <1>2
<1> QED BY <1>1, <1>2, <1>3 DEF AddTransaction

(* A queue with space takes one more.                                      *)
LEMMA AddedFits ==
  ASSUME NEW q \in [Dests -> Seq(Entry)], NEW x \in Transaction, HasSpace(q, x.to),
         \A e \in Dests : Len(q[e]) <= DestQueueRoom
  PROVE  \A e \in Dests : Len(AddTransaction(q, x)[e]) <= DestQueueRoom
<1> SUFFICES ASSUME NEW e \in Dests PROVE Len(AddTransaction(q, x)[e]) <= DestQueueRoom
  OBVIOUS
<1>1. CASE e = x.to
  <2> DEFINE y == [n |-> x.n, age |-> 0]
  <2>1. y \in Entry /\ AddTransaction(q, x)[e] = Append(q[e], y)
    BY <1>1, AddTransactionIs
  <2>2. Len(Append(q[e], y)) = Len(q[e]) + 1 /\ Len(q[e]) \in Nat
    BY <2>1
  <2> QED BY <1>1, <2>1, <2>2, SueClientAssumption DEF HasSpace
<1>2. CASE e # x.to
  BY <1>2, AddTransactionIs
<1> QED BY <1>1, <1>2

(* A pop takes the first transaction of the queue; then either the buffer  *)
(* stays as it is, or its first transaction moves to its queue.            *)
LEMMA PopOneIs ==
  ASSUME NEW d \in Dests, NEW t \in Holding, t.queue[d] # <<>>
  PROVE  LET q == [t.queue EXCEPT ![d] = Tail(@)] IN
         /\ q \in [Dests -> Seq(Entry)]
         /\ \A e \in Dests : Len(q[e]) <= DestQueueRoom
         /\ \/ PopOne(t, d) = [queue |-> q, buffer |-> t.buffer]
            \/ /\ t.buffer # <<>> /\ HasSpace(q, Head(t.buffer).to)
               /\ PopOne(t, d) = [queue |-> AddTransaction(q, Head(t.buffer)),
                                  buffer |-> Tail(t.buffer)]
<1> DEFINE q == [t.queue EXCEPT ![d] = Tail(@)]
           s == [queue |-> q, buffer |-> t.buffer]
<1>1. t.queue \in [Dests -> Seq(Entry)] /\ \A e \in Dests : Len(t.queue[e]) <= DestQueueRoom
  BY DEF Holding
<1>2. /\ Tail(t.queue[d]) \in Seq(Entry)
      /\ Len(Tail(t.queue[d])) = Len(t.queue[d]) - 1 /\ Len(t.queue[d]) \in Nat
  BY <1>1, HeadTailProperties
<1>3. q \in [Dests -> Seq(Entry)]
  BY <1>1, <1>2
<1>4. ASSUME NEW e \in Dests PROVE Len(q[e]) <= DestQueueRoom
  <2>1. CASE e = d
    BY <1>1, <1>2, <2>1, SueClientAssumption
  <2>2. CASE e # d
    BY <1>1, <2>2
  <2> QED BY <2>1, <2>2
<1>5. PopOne(t, d) = Rebalanced(s)
  BY DEF PopOne
<1>6. s.queue = q /\ s.buffer = t.buffer
  OBVIOUS
<1> HIDE DEF s
<1>7. \/ Rebalanced(s) = s
      \/ /\ s.buffer # <<>> /\ HasSpace(s.queue, Head(s.buffer).to)
         /\ Rebalanced(s) = [queue |-> AddTransaction(s.queue, Head(s.buffer)),
                             buffer |-> Tail(s.buffer)]
  BY DEF Rebalanced
<1> HIDE DEF q
<1>8. \/ PopOne(t, d) = [queue |-> q, buffer |-> t.buffer]
      \/ /\ t.buffer # <<>> /\ HasSpace(q, Head(t.buffer).to)
         /\ PopOne(t, d) = [queue |-> AddTransaction(q, Head(t.buffer)),
                            buffer |-> Tail(t.buffer)]
  BY <1>5, <1>6, <1>7 DEF s
<1> QED BY <1>3, <1>4, <1>8 DEF q

(* A pop keeps the types and the room of the queues, and adds nothing to   *)
(* the buffer.                                                             *)
LEMMA PopOneHolds ==
  ASSUME NEW d \in Dests, NEW t \in Holding
  PROVE  /\ PopOne(t, d) \in Holding
         /\ \/ PopOne(t, d).buffer = t.buffer
            \/ t.buffer # <<>> /\ PopOne(t, d).buffer = Tail(t.buffer)
<1>1. CASE t.queue[d] = <<>>
  BY <1>1 DEF PopOne
<1>2. CASE t.queue[d] # <<>>
  <2> DEFINE q == [t.queue EXCEPT ![d] = Tail(@)]
  <2>1. /\ q \in [Dests -> Seq(Entry)]
        /\ \A e \in Dests : Len(q[e]) <= DestQueueRoom
        /\ \/ PopOne(t, d) = [queue |-> q, buffer |-> t.buffer]
           \/ /\ t.buffer # <<>> /\ HasSpace(q, Head(t.buffer).to)
              /\ PopOne(t, d) = [queue |-> AddTransaction(q, Head(t.buffer)),
                                 buffer |-> Tail(t.buffer)]
    BY <1>2, PopOneIs
  <2> HIDE DEF q
  <2>2. t.buffer \in Seq(Transaction)
    BY DEF Holding
  <2>3. CASE PopOne(t, d) = [queue |-> q, buffer |-> t.buffer]
    BY <2>1, <2>2, <2>3 DEF Holding
  <2>4. CASE /\ t.buffer # <<>> /\ HasSpace(q, Head(t.buffer).to)
             /\ PopOne(t, d) = [queue |-> AddTransaction(q, Head(t.buffer)),
                                buffer |-> Tail(t.buffer)]
    <3> DEFINE x == Head(t.buffer)
               a == AddTransaction(q, x)
    <3>1. x \in Transaction /\ Tail(t.buffer) \in Seq(Transaction)
      BY <2>2, <2>4
    <3>2. a \in [Dests -> Seq(Entry)] /\ \A e \in Dests : Len(a[e]) <= DestQueueRoom
      BY <2>1, <2>4, <3>1, AddTransactionIs, AddedFits
    <3>3. PopOne(t, d) = [queue |-> a, buffer |-> Tail(t.buffer)]
      BY <2>4
    <3> HIDE DEF a, x
    <3> QED BY <2>4, <3>1, <3>2, <3>3 DEF Holding
  <2> QED BY <2>1, <2>3, <2>4
<1> QED BY <1>1, <1>2

(* So do all the pops of a burst.                                          *)
LEMMA PoppedHolds ==
  ASSUME NEW d \in Dests, NEW count \in Nat, NEW s \in Holding, Len(s.buffer) <= 1
  PROVE  /\ Popped(s, d, count) \in Holding
         /\ Popped(s, d, count).buffer \in {s.buffer, <<>>}
<1> DEFINE Y == {t \in Holding : t.buffer \in {s.buffer, <<>>}}
           X == [i \in 0 .. count |-> Y]
<1>1. ASSUME NEW t \in Y PROVE PopOne(t, d) \in Y
  <2>1. t.buffer \in Seq(Transaction) /\ Len(t.buffer) <= 1
    BY DEF Holding
  <2>2. t.buffer # <<>> => Tail(t.buffer) = <<>>
    BY <2>1
  <2> QED BY <2>2, PopOneHolds
<1>2. s \in X[0] /\ \A i \in 0 .. count - 1 : \A t \in X[i] : PopOne(t, d) \in X[i + 1]
  BY <1>1
<1> HIDE DEF X
<1>3. Popped(s, d, count) \in X[count]
  BY <1>2, PoppedIn
<1> QED BY <1>3 DEF X

-----------------------------------------------------------------------------
(* The bursts a round schedules.                                           *)

(* Earlier bursts keep all but their freshness.                            *)
LEMMA AgedIs ==
  ASSUME NEW s \in Seq(Burst)
  PROVE  /\ Aged(s) \in Seq(Burst) /\ Len(Aged(s)) = Len(s)
         /\ \A k \in 1 .. Len(s) : /\ Aged(s)[k].to = s[k].to
                                   /\ Aged(s)[k].load = s[k].load
                                   /\ Aged(s)[k].in = s[k].in
<1>1. Len(s) \in Nat /\ DOMAIN s = 1 .. Len(s)
  OBVIOUS
<1>2. ASSUME NEW k \in 1 .. Len(s)
      PROVE  /\ [s[k] EXCEPT !.fresh = FALSE] \in Burst
             /\ [s[k] EXCEPT !.fresh = FALSE].to = s[k].to
             /\ [s[k] EXCEPT !.fresh = FALSE].load = s[k].load
             /\ [s[k] EXCEPT !.fresh = FALSE].in = s[k].in
  <2>1. s[k] \in Burst
    BY ElementOfSeq
  <2> QED BY <2>1 DEF Burst
<1>3. Aged(s) \in [1 .. Len(s) -> Burst]
  BY <1>1, <1>2 DEF Aged
<1>4. Aged(s) \in Seq(Burst) /\ Len(Aged(s)) = Len(s)
  BY <1>1, <1>3
<1> QED BY <1>1, <1>2, <1>4 DEF Aged

(* The bursts for these loads, as Pack schedules them.                     *)
NewBursts(d, loads) ==
  [k \in DOMAIN loads |-> [to |-> d, load |-> loads[k],
                           in |-> k * PackingDelay, fresh |-> TRUE]]

(* What they are.                                                          *)
LEMMA NewBurstsAre ==
  ASSUME NEW d \in Dests, NEW loads \in Seq(Seq(Nat \ {0}))
  PROVE  /\ NewBursts(d, loads) \in Seq(Burst)
         /\ Len(NewBursts(d, loads)) = Len(loads)
         /\ \A k \in 1 .. Len(loads) : /\ NewBursts(d, loads)[k].to = d
                                       /\ NewBursts(d, loads)[k].load = loads[k]
                                       /\ NewBursts(d, loads)[k].in = k * PackingDelay
<1>1. Len(loads) \in Nat /\ DOMAIN loads = 1 .. Len(loads)
  OBVIOUS
<1>2. ASSUME NEW k \in 1 .. Len(loads)
      PROVE  [to |-> d, load |-> loads[k], in |-> k * PackingDelay, fresh |-> TRUE] \in Burst
  <2>1. loads[k] \in Seq(Nat \ {0})
    BY ElementOfSeq
  <2>2. k * PackingDelay \in Nat
    BY SueClientAssumption
  <2> QED BY <2>1, <2>2 DEF Burst
<1>3. NewBursts(d, loads) \in [1 .. Len(loads) -> Burst]
  BY <1>1, <1>2 DEF NewBursts
<1>4. NewBursts(d, loads) \in Seq(Burst) /\ Len(NewBursts(d, loads)) = Len(loads)
  <2> DEFINE n == Len(loads)
             b == NewBursts(d, loads)
  <2>1. n \in Nat /\ b \in [1 .. n -> Burst]
    BY <1>1, <1>3
  <2> HIDE DEF n, b
  <2>2. b \in Seq(Burst) /\ Len(b) = n
    BY <2>1
  <2> QED BY <2>2 DEF n, b
<1> QED BY <1>1, <1>4 DEF NewBursts

(* A round that packs the first n transactions of the queue of d.          *)
Packs(d, n, loads) ==
  /\ d \in Dests /\ n \in 0 .. Len(queue[d])
  /\ Free # 0 /\ n <= Packable[Free]
  /\ loads = SmartPacking(queue[d], n)
  /\ bursts' = Aged(bursts) \o NewBursts(d, loads)
  /\ reserved' = Reserve(loads)

(* A round packs transactions of one queue into free bytes, or changes     *)
(* neither bursts nor reservation.                                         *)
LEMMA PackIs ==
  ASSUME TypeOK, Pack
  PROVE  \/ bursts' = Aged(bursts) /\ reserved' = reserved
         \/ \E d, n, loads : Packs(d, n, loads)
<1>1. Free \in 0 .. VcRoom
  BY FreeIs DEF TypeOK
<1>2. Packable[Free] \in Nat
  BY <1>1, PackingFits
<1>3. ASSUME Packable[Free] # 0, NEW d \in Longest,
             LET loads == SmartPacking(queue[d], Least({Packable[Free], Len(queue[d])}))
             IN /\ bursts' = Aged(bursts) \o
                     [k \in DOMAIN loads |-> [to |-> d, load |-> loads[k],
                                              in |-> k * PackingDelay, fresh |-> TRUE]]
                /\ reserved' = Reserve(loads)
      PROVE  \E e, n, loads : Packs(e, n, loads)
  <2> DEFINE n == Least({Packable[Free], Len(queue[d])})
             loads == SmartPacking(queue[d], n)
  <2>1. d \in Dests
    BY DEF Longest, Waiting
  <2>2. Len(queue[d]) \in Nat
    BY <2>1 DEF TypeOK
  <2>3. n \in Nat /\ n <= Packable[Free] /\ n <= Len(queue[d])
    BY <1>2, <2>2, LeastOfTwo
  <2>4. Free # 0
    BY <1>1, <1>3, PackableIs, Sizes DEF PackableFrom
  <2>5. bursts' = Aged(bursts) \o NewBursts(d, loads) /\ reserved' = Reserve(loads)
    BY <1>3 DEF NewBursts
  <2> HIDE DEF n
  <2>6. Packs(d, n, loads)
    BY <2>1, <2>2, <2>3, <2>4, <2>5 DEF Packs
  <2> QED BY <2>6
<1> QED BY <1>3 DEF Pack

-----------------------------------------------------------------------------
(* Time going on.                                                          *)

(* Ages are numbers.                                                       *)
LEMMA AgesAreNat ==
  ASSUME queue \in [Dests -> Seq(Entry)]
  PROVE  Ages \subseteq Nat
<1> SUFFICES ASSUME NEW d \in Dests, NEW k \in DOMAIN queue[d]
             PROVE  queue[d][k].age \in Nat
  BY DEF Ages
<1>1. queue[d] \in Seq(Entry)
  OBVIOUS
<1>2. queue[d][k] \in Entry
  BY <1>1, ElementOfSeq
<1> QED BY <1>2 DEF Entry

(* A queue when its entries have become older.                             *)
AgedQueue(q) == [k \in DOMAIN q |-> [q[k] EXCEPT !.age = Older(@)]]

(* It has the same transactions in the same order.                         *)
LEMMA AgedQueueIs ==
  ASSUME Ages \subseteq Nat, NEW q \in Seq(Entry)
  PROVE  /\ AgedQueue(q) \in Seq(Entry) /\ Len(AgedQueue(q)) = Len(q)
         /\ \A k \in 1 .. Len(q) : AgedQueue(q)[k].n = q[k].n
<1>1. Len(q) \in Nat /\ DOMAIN q = 1 .. Len(q)
  OBVIOUS
<1>2. ASSUME NEW k \in 1 .. Len(q)
      PROVE  /\ [q[k] EXCEPT !.age = Older(@)] \in Entry
             /\ [q[k] EXCEPT !.age = Older(@)].n = q[k].n
  <2>1. q[k] \in Entry
    BY ElementOfSeq
  <2>2. Older(q[k].age) \in Nat
    BY <2>1, OlderIs DEF Entry
  <2> QED BY <2>1, <2>2 DEF Entry
<1>3. AgedQueue(q) \in [1 .. Len(q) -> Entry]
  BY <1>1, <1>2 DEF AgedQueue
<1>4. AgedQueue(q) \in Seq(Entry) /\ Len(AgedQueue(q)) = Len(q)
  BY <1>1, <1>3
<1> QED BY <1>1, <1>2, <1>4 DEF AgedQueue

(* Bursts when time has gone on by wait.                                   *)
Sooner(s, wait) == [k \in DOMAIN s |-> [s[k] EXCEPT !.in = @ - wait]]

(* They keep all but the time they are away.                               *)
LEMMA SoonerIs ==
  ASSUME NEW s \in Seq(Burst), NEW wait \in Nat,
         \A k \in 1 .. Len(s) : wait <= s[k].in
  PROVE  /\ Sooner(s, wait) \in Seq(Burst) /\ Len(Sooner(s, wait)) = Len(s)
         /\ \A k \in 1 .. Len(s) : /\ Sooner(s, wait)[k].to = s[k].to
                                   /\ Sooner(s, wait)[k].load = s[k].load
                                   /\ Sooner(s, wait)[k].in = s[k].in - wait
<1>1. Len(s) \in Nat /\ DOMAIN s = 1 .. Len(s)
  OBVIOUS
<1>2. ASSUME NEW k \in 1 .. Len(s)
      PROVE  /\ [s[k] EXCEPT !.in = @ - wait] \in Burst
             /\ [s[k] EXCEPT !.in = @ - wait].to = s[k].to
             /\ [s[k] EXCEPT !.in = @ - wait].load = s[k].load
             /\ [s[k] EXCEPT !.in = @ - wait].in = s[k].in - wait
  <2>1. s[k] \in Burst
    BY ElementOfSeq
  <2>2. s[k].in - wait \in Nat
    BY <2>1 DEF Burst
  <2> QED BY <2>1, <2>2 DEF Burst
<1>3. Sooner(s, wait) \in [1 .. Len(s) -> Burst]
  BY <1>1, <1>2 DEF Sooner
<1>4. Sooner(s, wait) \in Seq(Burst) /\ Len(Sooner(s, wait)) = Len(s)
  BY <1>1, <1>3
<1> QED BY <1>1, <1>2, <1>4 DEF Sooner

(* Time goes on by no more than what the next event is away.               *)
LEMMA AdvanceIs ==
  ASSUME TypeOK, Advance
  PROVE  \E wait \in Nat :
           /\ \A k \in 1 .. Len(bursts) : wait <= bursts[k].in
           /\ round # Never => wait <= round
           /\ round' = IF round = Never THEN Never ELSE round - wait
           /\ bursts' = Sooner(bursts, wait)
           /\ queue' = [d \in Dests |-> AgedQueue(queue[d])]
<1> DEFINE pending == {bursts[k].in : k \in DOMAIN bursts} \cup ({round} \ {Never})
           wait == Least(pending)
<1>1. bursts \in Seq(Burst) /\ round \in Never .. SchedulingInterval
  BY DEF TypeOK
<1>2. DOMAIN bursts = 1 .. Len(bursts)
  BY <1>1
<1>3. \A k \in DOMAIN bursts : bursts[k].in \in Nat
  <2> SUFFICES ASSUME NEW k \in DOMAIN bursts PROVE bursts[k].in \in Nat
    OBVIOUS
  <2>1. bursts[k] \in Burst
    BY <1>1, ElementOfSeq
  <2> QED BY <2>1 DEF Burst
<1>4. pending \in SUBSET Nat /\ pending # {}
  <2>1. {round} \ {Never} \subseteq Nat
    BY <1>1, SueClientAssumption DEF Never
  <2>2. {bursts[k].in : k \in DOMAIN bursts} \subseteq Nat
    BY <1>3
  <2> QED BY <2>1, <2>2 DEF Advance
<1>5. wait \in pending /\ \A t \in pending : wait <= t
  <2> HIDE DEF pending
  <2> QED BY <1>4, LeastIs
<1>6. /\ round' = IF round = Never THEN Never ELSE round - wait
      /\ bursts' = Sooner(bursts, wait)
      /\ queue' = [d \in Dests |-> AgedQueue(queue[d])]
  BY DEF Advance, Sooner, AgedQueue
<1>7. wait \in Nat
  BY <1>4, <1>5
<1> HIDE DEF wait
<1> QED BY <1>2, <1>5, <1>6, <1>7

-----------------------------------------------------------------------------
(* Type correctness.                                                       *)

(* The initial state has the types.                                        *)
LEMMA TypeInit == Init => TypeOK
<1> SUFFICES ASSUME Init PROVE TypeOK
  OBVIOUS
<1>1. generated \in 0 .. TotalTransactions /\ given \in [Dests -> 0 .. generated]
  BY SueClientAssumption DEF Init
<1>2. queue \in [Dests -> Seq(Entry)] /\ \A d \in Dests : Len(queue[d]) <= DestQueueRoom
  BY SueClientAssumption DEF Init
<1>3. buffer \in Seq(Transaction) /\ Len(buffer) <= 1 /\ paused = (buffer # <<>>)
  <2>1. paused = (buffer # <<>>)
    BY Zenon DEF Init
  <2> QED BY <2>1 DEF Init
<1>4. sent \in [Dests -> Seq(Nat \ {0})]
  BY DEF Init
<1>5. round \in Never .. SchedulingInterval
  BY SueClientAssumption DEF Init, Never
<1> QED BY <1>1, <1>2, <1>3, <1>4, <1>5 DEF Init, TypeOK

(* GenerateTransaction keeps the types: the generator is paused as long as *)
(* a transaction is buffered, so that the buffer holds at most one.        *)
LEMMA GenerateTyped ==
  ASSUME TypeOK, NEW d \in Dests, GenerateTransaction(d)
  PROVE  TypeOK'
<1> DEFINE x == [to |-> d, n |-> given[d] + 1]
<1>1. /\ generated \in 0 .. TotalTransactions /\ given \in [Dests -> 0 .. generated]
      /\ ~paused /\ generated < TotalTransactions
      /\ given' = [given EXCEPT ![d] = @ + 1] /\ generated' = generated + 1
  BY DEF TypeOK, GenerateTransaction
<1>2. generated' \in 0 .. TotalTransactions
  BY <1>1, SueClientAssumption
<1>3. given' \in [Dests -> 0 .. generated']
  BY <1>1
<1>4. x \in Transaction /\ x.to = d
  <2>1. given[d] + 1 \in Nat \ {0}
    BY <1>1
  <2> QED BY <2>1 DEF Transaction
<1>5. buffer = <<>>
  BY <1>1 DEF TypeOK
<1>6. /\ queue \in [Dests -> Seq(Entry)]
      /\ \A e \in Dests : Len(queue[e]) <= DestQueueRoom
  BY DEF TypeOK
<1> HIDE DEF x
<1>7. /\ buffer' \in Seq(Transaction) /\ Len(buffer') <= 1 /\ paused' = (buffer' # <<>>)
      /\ queue' \in [Dests -> Seq(Entry)]
      /\ \A e \in Dests : Len(queue'[e]) <= DestQueueRoom
  <2>1. CASE HasSpace(queue, d) /\ queue' = AddTransaction(queue, x) /\ UNCHANGED <<paused, buffer>>
    <3>1. queue' \in [Dests -> Seq(Entry)]
      BY <1>4, <1>6, <2>1, AddTransactionIs
    <3>2. \A e \in Dests : Len(queue'[e]) <= DestQueueRoom
      BY <1>4, <1>6, <2>1, AddedFits
    <3> QED BY <2>1, <3>1, <3>2 DEF TypeOK
  <2>2. CASE Buffer(x)
    <3>1. buffer' = <<x>> /\ paused' = TRUE /\ queue' = queue
      BY <1>5, <2>2 DEF Buffer
    <3>2. buffer' \in Seq(Transaction) /\ Len(buffer') <= 1
      BY <1>4, <3>1
    <3>3. paused' = (buffer' # <<>>)
      <4>1. buffer' # <<>>
        BY <3>1
      <4> QED BY <3>1, <4>1, Zenon
    <3> QED BY <1>6, <3>1, <3>2, <3>3, Zenon
  <2>3. \/ HasSpace(queue, d) /\ queue' = AddTransaction(queue, x) /\ UNCHANGED <<paused, buffer>>
        \/ Buffer(x)
    BY DEF GenerateTransaction, x
  <2> QED BY <2>1, <2>2, <2>3, Zenon
<1> QED BY <1>2, <1>3, <1>7 DEF TypeOK, GenerateTransaction

(* ScheduleNextSend keeps the types.                                       *)
LEMMA ScheduleTyped ==
  ASSUME TypeOK, ScheduleNextSend
  PROVE  TypeOK'
<1>1. bursts' \in Seq(Burst) /\ reserved' \in Nat
  <2>1. Aged(bursts) \in Seq(Burst)
    BY AgedIs DEF TypeOK
  <2>2. CASE bursts' = Aged(bursts) /\ reserved' = reserved
    BY <2>1, <2>2 DEF TypeOK
  <2>3. ASSUME NEW d, NEW n, NEW loads, Packs(d, n, loads)
        PROVE  bursts' \in Seq(Burst) /\ reserved' \in Nat
    <3>1. /\ d \in Dests /\ n \in 0 .. Len(queue[d]) /\ queue[d] \in Seq(Entry)
          /\ loads = SmartPacking(queue[d], n)
      BY <2>3 DEF Packs, TypeOK
    <3>2. loads \in Seq(Seq(Nat \ {0}))
      BY <3>1, LoadsAre
    <3>3. NewBursts(d, loads) \in Seq(Burst)
      BY <3>1, <3>2, NewBurstsAre
    <3>4. Total([k \in DOMAIN loads |-> SizeOf(loads[k])]) \in Nat
      BY <3>1, LoadsTotal, TotalRuns
    <3>5. reserved' \in Nat
      BY <2>3, <3>4 DEF Packs, Reserve, TypeOK
    <3>6. bursts' \in Seq(Burst)
      BY <2>1, <2>3, <3>3 DEF Packs
    <3> QED BY <3>5, <3>6
  <2> QED BY <2>2, <2>3, PackIs DEF ScheduleNextSend
<1>2. round' \in Never .. SchedulingInterval
  BY SueClientAssumption DEF ScheduleNextSend, Never
<1> QED BY <1>1, <1>2 DEF TypeOK, ScheduleNextSend

(* DoSendBurst for burst k, after the pops.                                *)
Sends(k, after) ==
  /\ k \in DOMAIN bursts
  /\ after = Popped([queue |-> queue, buffer |-> buffer], bursts[k].to, Count(bursts[k].load))
  /\ bursts[k].in = 0 /\ \A j \in 1 .. k - 1 : bursts[j].in # 0
  /\ bursts' = RemoveAt(bursts, k)
  /\ sent' = [sent EXCEPT ![bursts[k].to] = @ \o bursts[k].load]
  /\ vcQueue' = Append(vcQueue, SizeOf(bursts[k].load))
  /\ reserved' = IF reserved >= SizeOf(bursts[k].load)
                   THEN reserved - SizeOf(bursts[k].load) ELSE 0
  /\ queue' = after.queue /\ buffer' = after.buffer
  /\ paused' = (paused /\ after.buffer # <<>>)

(* The size of a burst is a number.                                        *)
LEMMA SizeIsNat ==
  ASSUME NEW load \in Seq(Nat \ {0})
  PROVE  SizeOf(load) \in Nat
<1>1. Len(load) \in Nat
  OBVIOUS
<1> DEFINE l == Len(load)
<1> HIDE DEF l
<1>2. l * TransactionSize \in Nat
  BY <1>1, Sizes DEF l
<1> QED BY <1>2, Sizes DEF SizeOf, l

(* DoSendBurst keeps the types.                                            *)
LEMMA SendTyped ==
  ASSUME TypeOK, DoSendBurst
  PROVE  TypeOK'
<1>1. PICK k, after : Sends(k, after)
  BY DEF DoSendBurst, Sends
<1> DEFINE s == [queue |-> queue, buffer |-> buffer]
<1>2. bursts[k] \in Burst
  BY <1>1, ElementOfSeq DEF Sends, TypeOK
<1>3. /\ bursts[k].to \in Dests /\ bursts[k].load \in Seq(Nat \ {0})
      /\ Len(bursts[k].load) \in Nat
  BY <1>2 DEF Burst
<1>4. s \in Holding /\ s.buffer = buffer /\ Len(buffer) <= 1
  BY DEF Holding, TypeOK
<1> HIDE DEF s
<1>5. after \in Holding /\ after.buffer \in {buffer, <<>>}
  BY <1>1, <1>3, <1>4, PoppedHolds DEF Sends, Count, s
<1>6. /\ queue' \in [Dests -> Seq(Entry)]
      /\ \A e \in Dests : Len(queue'[e]) <= DestQueueRoom
      /\ buffer' \in Seq(Transaction)
  BY <1>1, <1>5 DEF Sends, Holding
<1>7. Len(buffer') <= 1 /\ paused' = (buffer' # <<>>)
  <2>1. paused = (buffer # <<>>) /\ buffer' = after.buffer
        /\ paused' = (paused /\ after.buffer # <<>>)
    BY <1>1 DEF Sends, TypeOK
  <2>2. Len(buffer') <= 1
    BY <1>4, <1>5, <2>1
  <2>3. buffer' # <<>> => buffer # <<>>
    BY <1>5, <2>1
  <2>4. paused' = (buffer' # <<>>)
    BY <2>1, <2>3, Zenon
  <2> QED BY <2>2, <2>4
<1>8. SizeOf(bursts[k].load) \in Nat
  BY <1>3, SizeIsNat
<1>9. vcQueue' \in Seq(Nat) /\ reserved' \in Nat
  BY <1>1, <1>8 DEF Sends, TypeOK
<1>10. bursts' \in Seq(Burst)
  BY <1>1, RemoveAtIs DEF Sends, TypeOK
<1>11. sent' \in [Dests -> Seq(Nat \ {0})]
  <2>1. sent \in [Dests -> Seq(Nat \ {0})]
    BY DEF TypeOK
  <2>2. sent[bursts[k].to] \o bursts[k].load \in Seq(Nat \ {0})
    BY <1>3, <2>1
  <2> QED BY <1>1, <1>3, <2>1, <2>2 DEF Sends
<1> QED BY <1>6, <1>7, <1>9, <1>10, <1>11 DEF TypeOK, DoSendBurst

(* Time going on keeps the types.                                          *)
LEMMA AdvanceTyped ==
  ASSUME TypeOK, Advance
  PROVE  TypeOK'
<1>1. PICK wait \in Nat :
           /\ \A k \in 1 .. Len(bursts) : wait <= bursts[k].in
           /\ round # Never => wait <= round
           /\ round' = IF round = Never THEN Never ELSE round - wait
           /\ bursts' = Sooner(bursts, wait)
           /\ queue' = [d \in Dests |-> AgedQueue(queue[d])]
  BY AdvanceIs
<1>2. bursts' \in Seq(Burst)
  BY <1>1, SoonerIs DEF TypeOK
<1>3. round' \in Never .. SchedulingInterval
  BY <1>1, SueClientAssumption DEF TypeOK, Never
<1>4. Ages \subseteq Nat
  BY AgesAreNat DEF TypeOK
<1>5. queue' \in [Dests -> Seq(Entry)] /\ \A d \in Dests : Len(queue'[d]) <= DestQueueRoom
  BY <1>1, <1>4, AgedQueueIs DEF TypeOK
<1> QED BY <1>2, <1>3, <1>5 DEF TypeOK, Advance

(* Every step keeps the types.                                             *)
LEMMA TypeStep == TypeOK /\ [Next]_vars => TypeOK'
<1> SUFFICES ASSUME TypeOK, [Next]_vars PROVE TypeOK'
  OBVIOUS
<1>1. ASSUME NEW d \in Dests, GenerateTransaction(d) PROVE TypeOK'
  BY <1>1, GenerateTyped
<1>2. CASE Complete
  BY <1>2 DEF Complete, TypeOK
<1>3. CASE ScheduleNextSend
  BY <1>3, ScheduleTyped
<1>4. CASE DoSendBurst
  BY <1>4, SendTyped
<1>5. CASE Advance
  BY <1>5, AdvanceTyped
<1>6. CASE Transmit
  <2>1. vcQueue' \in Seq(Nat)
    BY <1>6 DEF Transmit, TypeOK
  <2> QED BY <1>6, <2>1 DEF Transmit, TypeOK
<1>7. CASE UNCHANGED vars
  BY <1>7 DEF vars, TypeOK
<1> QED BY <1>1, <1>2, <1>3, <1>4, <1>5, <1>6, <1>7 DEF Next, RunEvents

(* Every variable has its type, at most one transaction is buffered,       *)
(* exactly then is the generator paused, and no queue exceeds              *)
(* m_destQueueMaxBytes: for all sizes, delays and numbers of destinations  *)
(* (DistributeTransaction, ProcessBufferedTransactions, AddTransaction).   *)
THEOREM TypeCorrect == Spec => []TypeOK
BY TypeInit, TypeStep, PTL DEF Spec

-----------------------------------------------------------------------------
(* The reservation as a sum over the bursts under way.                     *)

(* The sizes of bursts.                                                    *)
BurstSizes(s) == [k \in DOMAIN s |-> SizeOf(s[k].load)]

(* What they are.                                                          *)
LEMMA BurstSizesAre ==
  ASSUME NEW s \in Seq(Burst)
  PROVE  /\ BurstSizes(s) \in Seq(Nat) /\ Len(BurstSizes(s)) = Len(s)
         /\ \A k \in 1 .. Len(s) : BurstSizes(s)[k] = SizeOf(s[k].load)
<1>1. Len(s) \in Nat /\ DOMAIN s = 1 .. Len(s)
  OBVIOUS
<1>2. ASSUME NEW k \in 1 .. Len(s) PROVE SizeOf(s[k].load) \in Nat
  <2>1. s[k] \in Burst
    BY ElementOfSeq
  <2> QED BY <2>1, SizeIsNat DEF Burst
<1>3. BurstSizes(s) \in [1 .. Len(s) -> Nat]
  BY <1>1, <1>2 DEF BurstSizes
<1>4. BurstSizes(s) \in Seq(Nat) /\ Len(BurstSizes(s)) = Len(s)
  <2> DEFINE n == Len(s)
             b == BurstSizes(s)
  <2>1. n \in Nat /\ b \in [1 .. n -> Nat]
    BY <1>1, <1>3
  <2> HIDE DEF n, b
  <2>2. b \in Seq(Nat) /\ Len(b) = n
    BY <2>1
  <2> QED BY <2>2 DEF n, b
<1> QED BY <1>1, <1>4 DEF BurstSizes

(* They depend on the loads alone.                                         *)
LEMMA SameSizes ==
  ASSUME NEW s \in Seq(Burst), NEW t \in Seq(Burst), Len(s) = Len(t),
         \A k \in 1 .. Len(s) : s[k].load = t[k].load
  PROVE  BurstSizes(s) = BurstSizes(t)
BY DEF BurstSizes

(* The sizes of two sequences of bursts, one after the other.              *)
LEMMA SizesConcat ==
  ASSUME NEW s \in Seq(Burst), NEW t \in Seq(Burst)
  PROVE  Total(BurstSizes(s \o t)) = Total(BurstSizes(s)) + Total(BurstSizes(t))
<1> DEFINE u == s \o t
           a == BurstSizes(s)
           b == BurstSizes(t)
           c == BurstSizes(u)
<1>1. /\ u \in Seq(Burst) /\ Len(u) = Len(s) + Len(t)
      /\ \A k \in 1 .. Len(s) + Len(t) : u[k] = IF k <= Len(s) THEN s[k] ELSE t[k - Len(s)]
  BY ConcatProperties, Zenon
<1> HIDE DEF u
<1>2. /\ a \in Seq(Nat) /\ Len(a) = Len(s)
      /\ \A k \in 1 .. Len(s) : a[k] = SizeOf(s[k].load)
  BY BurstSizesAre
<1>3. /\ b \in Seq(Nat) /\ Len(b) = Len(t)
      /\ \A k \in 1 .. Len(t) : b[k] = SizeOf(t[k].load)
  BY BurstSizesAre
<1>4. /\ c \in Seq(Nat) /\ Len(c) = Len(u)
      /\ \A k \in 1 .. Len(u) : c[k] = SizeOf(u[k].load)
  BY <1>1, BurstSizesAre
<1>5. Len(s) \in Nat /\ Len(t) \in Nat
  OBVIOUS
<1> HIDE DEF a, b, c
<1>6. /\ a \o b \in Seq(Nat) /\ Len(a \o b) = Len(a) + Len(b)
      /\ \A k \in 1 .. Len(a) + Len(b) : (a \o b)[k] = IF k <= Len(a) THEN a[k] ELSE b[k - Len(a)]
  <2>1. a \in Seq(Nat) /\ b \in Seq(Nat)
    BY <1>2, <1>3
  <2> QED BY <2>1, ConcatProperties, Zenon
<1>7. ASSUME NEW k \in 1 .. Len(s) + Len(t) PROVE c[k] = (a \o b)[k]
  <2>1. /\ c[k] = SizeOf(u[k].load)
        /\ u[k] = IF k <= Len(s) THEN s[k] ELSE t[k - Len(s)]
        /\ (a \o b)[k] = IF k <= Len(s) THEN a[k] ELSE b[k - Len(s)]
    BY <1>1, <1>2, <1>3, <1>4, <1>6
  <2>2. CASE k <= Len(s)
    BY <1>2, <1>5, <2>1, <2>2
  <2>3. CASE ~(k <= Len(s))
    <3>1. k - Len(s) \in 1 .. Len(t)
      BY <1>5, <2>3
    <3> QED BY <1>3, <2>1, <2>3, <3>1
  <2> QED BY <2>2, <2>3
<1>8. c = a \o b
  <2>1. Len(c) = Len(a \o b) /\ Len(c) = Len(s) + Len(t)
    BY <1>1, <1>2, <1>3, <1>4, <1>6
  <2> QED BY <1>4, <1>6, <1>7, <2>1, SeqEqual
<1>9. Total(c) = Total(a) + Total(b)
  BY <1>2, <1>3, <1>8, TotalConcat
<1> QED BY <1>9 DEF a, b, c, u

(* A burst taken out takes its size with it.                               *)
LEMMA SizesRemoveAt ==
  ASSUME NEW s \in Seq(Burst), NEW k \in 1 .. Len(s)
  PROVE  Total(BurstSizes(s)) = Total(BurstSizes(RemoveAt(s, k))) + SizeOf(s[k].load)
<1> DEFINE r == RemoveAt(s, k)
           a == BurstSizes(s)
           b == BurstSizes(r)
<1>1. /\ r \in Seq(Burst) /\ Len(r) = Len(s) - 1
      /\ \A i \in 1 .. Len(s) - 1 : r[i] = IF i < k THEN s[i] ELSE s[i + 1]
  BY RemoveAtIs
<1> HIDE DEF r
<1>2. /\ a \in Seq(Nat) /\ Len(a) = Len(s)
      /\ \A i \in 1 .. Len(s) : a[i] = SizeOf(s[i].load)
  BY BurstSizesAre
<1>3. /\ b \in Seq(Nat) /\ Len(b) = Len(r)
      /\ \A i \in 1 .. Len(r) : b[i] = SizeOf(r[i].load)
  BY <1>1, BurstSizesAre
<1> HIDE DEF a, b
<1> DEFINE c == RemoveAt(a, k)
<1>4. /\ c \in Seq(Nat) /\ Len(c) = Len(a) - 1
      /\ \A i \in 1 .. Len(a) - 1 : c[i] = IF i < k THEN a[i] ELSE a[i + 1]
  <2>1. a \in Seq(Nat) /\ k \in 1 .. Len(a)
    BY <1>2
  <2> HIDE DEF c
  <2> QED BY <2>1, RemoveAtIs DEF c
<1>5. Total(a) = Total(c) + a[k]
  BY <1>2, TotalRemoveAt
<1> HIDE DEF c
<1>6. ASSUME NEW i \in 1 .. Len(s) - 1 PROVE b[i] = c[i]
  <2>1. /\ Len(s) \in Nat /\ i \in 1 .. Len(s) /\ i + 1 \in 1 .. Len(s)
    OBVIOUS
  <2>2. /\ r[i] = IF i < k THEN s[i] ELSE s[i + 1]
        /\ c[i] = IF i < k THEN a[i] ELSE a[i + 1]
        /\ b[i] = SizeOf(r[i].load)
    BY <1>1, <1>2, <1>3, <1>4, <2>1
  <2>3. a[i] = SizeOf(s[i].load) /\ a[i + 1] = SizeOf(s[i + 1].load)
    BY <1>2, <2>1
  <2> QED BY <2>2, <2>3
<1>7. b = c
  <2>1. Len(b) = Len(c) /\ Len(b) = Len(s) - 1
    BY <1>1, <1>2, <1>3, <1>4
  <2> QED BY <1>3, <1>4, <1>6, <2>1, SeqEqual
<1>8. a[k] = SizeOf(s[k].load)
  BY <1>2
<1> QED BY <1>5, <1>7, <1>8 DEF a, b, r

-----------------------------------------------------------------------------
(* The room of the VC queue covers what is in it and what is reserved.     *)

(* At the beginning nothing is reserved.                                   *)
LEMMA CapacityInit == Init => CapacityCovered
<1> SUFFICES ASSUME Init PROVE CapacityCovered
  OBVIOUS
<1>1. [k \in DOMAIN bursts |-> SizeOf(bursts[k].load)] = <<>>
  BY DEF Init
<1>2. vcQueue = <<>> /\ reserved = 0
  BY DEF Init
<1> QED BY <1>1, <1>2, TotalEmpty, SueClientAssumption DEF CapacityCovered

(* A step that leaves the loads of the bursts, the reservation and the VC  *)
(* queue alone keeps the capacity covered.                                 *)
LEMMA CapacityKept ==
  ASSUME TypeOK, TypeOK', CapacityCovered, reserved' = reserved, vcQueue' = vcQueue,
         Len(bursts') = Len(bursts),
         \A k \in 1 .. Len(bursts) : bursts'[k].load = bursts[k].load
  PROVE  CapacityCovered'
<1>1. BurstSizes(bursts') = BurstSizes(bursts)
  BY SameSizes DEF TypeOK
<1> QED BY <1>1 DEF CapacityCovered, BurstSizes

(* ScheduleNextSend reserves what its bursts need, which fits.             *)
LEMMA ScheduleCovered ==
  ASSUME TypeOK, TypeOK', CapacityCovered, ScheduleNextSend
  PROVE  CapacityCovered'
<1>1. vcQueue' = vcQueue
  BY DEF ScheduleNextSend
<1>2. /\ Aged(bursts) \in Seq(Burst) /\ Len(Aged(bursts)) = Len(bursts)
      /\ \A k \in 1 .. Len(bursts) : Aged(bursts)[k].load = bursts[k].load
  BY AgedIs DEF TypeOK
<1>3. CASE bursts' = Aged(bursts) /\ reserved' = reserved
  BY <1>1, <1>2, <1>3, CapacityKept
<1>4. ASSUME NEW d, NEW n, NEW loads, Packs(d, n, loads)
      PROVE  CapacityCovered'
  <2>1. /\ d \in Dests /\ n \in 0 .. Len(queue[d]) /\ queue[d] \in Seq(Entry)
        /\ loads = SmartPacking(queue[d], n) /\ Free # 0 /\ n <= Packable[Free]
        /\ bursts' = Aged(bursts) \o NewBursts(d, loads)
        /\ reserved' = Reserve(loads)
    BY <1>4 DEF Packs, TypeOK
  <2>2. loads \in Seq(Seq(Nat \ {0}))
    BY <2>1, LoadsAre
  <2>3. /\ NewBursts(d, loads) \in Seq(Burst)
        /\ Len(NewBursts(d, loads)) = Len(loads)
        /\ \A k \in 1 .. Len(loads) : NewBursts(d, loads)[k].load = loads[k]
    BY <2>1, <2>2, NewBurstsAre
  <2>4. BurstSizes(NewBursts(d, loads)) = [k \in DOMAIN loads |-> SizeOf(loads[k])]
    BY <2>2, <2>3 DEF BurstSizes
  <2>5. Total([k \in DOMAIN loads |-> SizeOf(loads[k])]) = BurstBytes(n)
    BY <2>1, LoadsTotal
  <2>6. BurstSizes(Aged(bursts)) = BurstSizes(bursts)
    BY <1>2, SameSizes DEF TypeOK
  <2>7. Total(BurstSizes(bursts')) = Total(BurstSizes(bursts)) + BurstBytes(n)
    BY <1>2, <2>1, <2>3, <2>4, <2>5, <2>6, SizesConcat
  <2>8. reserved' = reserved + BurstBytes(n)
    BY <2>1, <2>5 DEF Reserve
  <2>9. reserved = Total(BurstSizes(bursts))
    BY DEF CapacityCovered, BurstSizes
  <2>10. Free \in 0 .. VcRoom /\ Free = VcRoom - Total(vcQueue) - reserved
    BY <2>1, FreeIs DEF TypeOK
  <2>11. BurstBytes(n) <= Free
    <3>1. n \in Nat
      BY <2>1
    <3> QED BY <2>1, <2>10, <3>1, PackingFits
  <2>12. Total(vcQueue) \in Nat /\ reserved \in Nat /\ BurstBytes(n) \in Nat
    <3>1. Total([k \in DOMAIN loads |-> SizeOf(loads[k])]) \in Nat
      BY <2>1, LoadsTotal, TotalRuns
    <3> QED BY <2>5, <3>1, TotalRuns DEF TypeOK
  <2>13. reserved' + Total(vcQueue') <= VcRoom
    BY <1>1, <2>8, <2>10, <2>11, <2>12, SueClientAssumption
  <2>14. reserved' = Total(BurstSizes(bursts'))
    BY <2>7, <2>8, <2>9
  <2> QED BY <2>13, <2>14 DEF CapacityCovered, BurstSizes
<1> QED BY <1>3, <1>4, PackIs DEF ScheduleNextSend

(* DoSendBurst turns the reservation of its burst into a packet; the       *)
(* release never meets its guard against less than zero.                   *)
LEMMA SendCovered ==
  ASSUME TypeOK, TypeOK', CapacityCovered, DoSendBurst
  PROVE  CapacityCovered'
<1>1. PICK k, after : Sends(k, after)
  BY DEF DoSendBurst, Sends
<1> DEFINE size == SizeOf(bursts[k].load)
<1>2. bursts \in Seq(Burst) /\ vcQueue \in Seq(Nat) /\ k \in 1 .. Len(bursts)
  <2>1. bursts \in Seq(Burst) /\ vcQueue \in Seq(Nat) /\ k \in DOMAIN bursts
    BY <1>1 DEF Sends, TypeOK
  <2> QED BY <2>1
<1>3. size \in Nat
  <2>1. bursts[k] \in Burst
    BY <1>2, ElementOfSeq
  <2> QED BY <2>1, SizeIsNat DEF Burst
<1>4. Total(BurstSizes(bursts)) = Total(BurstSizes(bursts')) + size
  BY <1>1, <1>2, SizesRemoveAt DEF Sends
<1>5. Total(BurstSizes(bursts')) \in Nat
  BY BurstSizesAre, TotalRuns DEF TypeOK
<1>6. vcQueue' = Append(vcQueue, size)
      /\ reserved' = IF reserved >= size THEN reserved - size ELSE 0
  BY <1>1 DEF Sends
<1>7. reserved = Total(BurstSizes(bursts)) /\ reserved + Total(vcQueue) <= VcRoom
  BY DEF CapacityCovered, BurstSizes
<1> HIDE DEF size
<1>8. Total(vcQueue') = Total(vcQueue) + size /\ Total(vcQueue) \in Nat
  BY <1>2, <1>3, <1>6, TotalAppend, TotalRuns
<1>9. reserved' = Total(BurstSizes(bursts'))
  BY <1>3, <1>4, <1>5, <1>6, <1>7
<1>10. reserved' + Total(vcQueue') <= VcRoom
  BY <1>3, <1>4, <1>5, <1>7, <1>8, <1>9, SueClientAssumption
<1> QED BY <1>9, <1>10 DEF CapacityCovered, BurstSizes

(* Every step keeps the capacity covered.                                  *)
LEMMA CapacityStep == TypeOK /\ TypeOK' /\ CapacityCovered /\ [Next]_vars => CapacityCovered'
<1> SUFFICES ASSUME TypeOK, TypeOK', CapacityCovered, [Next]_vars
             PROVE  CapacityCovered'
  OBVIOUS
<1>1. ASSUME UNCHANGED <<bursts, reserved, vcQueue>> PROVE CapacityCovered'
  BY <1>1 DEF CapacityCovered
<1>2. ASSUME NEW d \in Dests, GenerateTransaction(d) PROVE CapacityCovered'
  BY <1>1, <1>2 DEF GenerateTransaction
<1>3. CASE Complete
  BY <1>1, <1>3 DEF Complete
<1>4. CASE ScheduleNextSend
  BY <1>4, ScheduleCovered
<1>5. CASE DoSendBurst
  BY <1>5, SendCovered
<1>6. CASE Advance
  <2>1. PICK wait \in Nat : /\ \A k \in 1 .. Len(bursts) : wait <= bursts[k].in
                            /\ bursts' = Sooner(bursts, wait)
    BY <1>6, AdvanceIs
  <2>2. Len(bursts') = Len(bursts) /\ \A k \in 1 .. Len(bursts) : bursts'[k].load = bursts[k].load
    BY <2>1, SoonerIs DEF TypeOK
  <2> QED BY <1>6, <2>2, CapacityKept DEF Advance
<1>7. CASE Transmit
  <2>1. vcQueue \in Seq(Nat) /\ vcQueue # <<>> /\ vcQueue' = Tail(vcQueue)
        /\ bursts' = bursts /\ reserved' = reserved
    BY <1>7 DEF Transmit, TypeOK
  <2>2. Total(vcQueue) = Total(Tail(vcQueue)) + Head(vcQueue) /\ Head(vcQueue) \in Nat
        /\ Total(Tail(vcQueue)) \in Nat
    <3>1. Head(vcQueue) \in Nat /\ Tail(vcQueue) \in Seq(Nat)
      BY <2>1
    <3>2. Total(Tail(vcQueue)) \in Nat
      BY <3>1, TotalRuns
    <3> QED BY <2>1, <3>1, <3>2, TotalTail
  <2>3. reserved \in Nat /\ VcRoom \in Nat
    BY SueClientAssumption DEF TypeOK
  <2> QED BY <2>1, <2>2, <2>3 DEF CapacityCovered
<1>8. CASE UNCHANGED vars
  BY <1>1, <1>8 DEF vars
<1> QED BY <1>2, <1>3, <1>4, <1>5, <1>6, <1>7, <1>8 DEF Next, RunEvents

(* The reservation is exactly that of the bursts under way and together    *)
(* with the VC queue within its room, for all sizes and delays: the        *)
(* reservation that ScheduleNextSend asserts to succeed                    *)
(* (ReserveVcCapacity) does, and the packet of DoSendBurst finds room      *)
(* (SendTo).                                                               *)
THEOREM CapacityAlwaysCovered == Spec => []CapacityCovered
<1>1. Init => TypeOK /\ CapacityCovered
  BY TypeInit, CapacityInit
<1>2. (TypeOK /\ CapacityCovered) /\ [Next]_vars => (TypeOK /\ CapacityCovered)'
  BY TypeStep, CapacityStep
<1> QED BY <1>1, <1>2, PTL DEF Spec

-----------------------------------------------------------------------------
(* The order of transactions. A round packs what is at the head of a queue *)
(* and leaves it there until the bursts are sent; that the next round does *)
(* not pack it again rests on the times alone.                             *)

(* The last burst that a round can schedule is sent before the next round. *)
(* A condition on the configured times and sizes that the code neither     *)
(* checks nor states: with the values of SueClient.cfg it holds, with      *)
(* those of SueOverlap.cfg it does not, and there transactions are lost.   *)
RoundsApart ==
  \A c \in 0 .. VcRoom : \A n \in 0 .. DestQueueRoom :
    n <= Packable[c] => BurstCount(n) * PackingDelay < SchedulingInterval

(* 1 if buffer b holds a transaction for d.                                *)
Held(b, d) == IF b # <<>> /\ Head(b).to = d THEN 1 ELSE 0

(* Transactions are sent in the order of their numbers, wait in the order  *)
(* of their numbers, and the one in the buffer is the last of its          *)
(* destination.                                                            *)
Numbered ==
  /\ \A d \in Dests :
       /\ \A k \in 1 .. Len(sent[d]) : sent[d][k] = k
       /\ \A k \in 1 .. Len(queue[d]) : queue[d][k].n = Len(sent[d]) + k
       /\ Len(sent[d]) + Len(queue[d]) + Held(buffer, d) = given[d]
  /\ buffer # <<>> => Head(buffer).n = given[Head(buffer).to]

(* The number of the first transaction of burst k, and the one after its   *)
(* last.                                                                   *)
First(k) == bursts[k].load[1]
After(k) == First(k) + Len(bursts[k].load)

(* All bursts under way are of one round, for one destination, at          *)
(* different times, and sent before the next round.                        *)
OneAfterAnother ==
  /\ \A j, k \in 1 .. Len(bursts) :
       bursts[j].to = bursts[k].to /\ (j < k => bursts[j].in < bursts[k].in)
  /\ round # Never => \A k \in 1 .. Len(bursts) : bursts[k].in < round

(* The bursts carry, one after the other, what is at the head of the queue *)
(* they were packed from.                                                  *)
FromTheHead ==
  \A k \in 1 .. Len(bursts) :
    /\ Len(bursts[k].load) >= 1
    /\ \A i \in 1 .. Len(bursts[k].load) : bursts[k].load[i] = First(k) + i - 1
    /\ First(k) = IF k = 1 THEN Len(sent[bursts[k].to]) + 1 ELSE After(k - 1)
    /\ After(k) <= Len(sent[bursts[k].to]) + Len(queue[bursts[k].to]) + 1

(* The inductive invariant of the order. That sent, queue and buffer are   *)
(* in order is not inductive: a burst takes from the queue whatever is     *)
(* there when it is sent. So the bursts must carry what is at the head     *)
(* (FromTheHead), which a round before the last burst is sent would break  *)
(* (OneAfterAnother).                                                      *)
OrderInv == TypeOK /\ Numbered /\ OneAfterAnother /\ FromTheHead

(* What has been sent to e once i transactions were taken out of the queue *)
(* of d, too.                                                              *)
Taken(e, d, i) == Len(sent[e]) + (IF e = d THEN i ELSE 0)

(* The queues and the buffer after i pops from the queue of d.             *)
InOrder(t, d, i) ==
  \A e \in Dests :
    /\ \A k \in 1 .. Len(t.queue[e]) : t.queue[e][k].n = Taken(e, d, i) + k
    /\ Taken(e, d, i) + Len(t.queue[e]) + Held(t.buffer, e) = given[e]

(* Lengths and counters are numbers.                                       *)
LEMMA Lengths ==
  ASSUME TypeOK, NEW d \in Dests
  PROVE  /\ Len(sent[d]) \in Nat /\ Len(queue[d]) \in Nat /\ given[d] \in Nat
         /\ queue[d] \in Seq(Entry) /\ sent[d] \in Seq(Nat \ {0})
<1>1. queue[d] \in Seq(Entry) /\ sent[d] \in Seq(Nat \ {0}) /\ given[d] \in Nat
  BY DEF TypeOK
<1> QED BY <1>1

(* The buffer counts for one at most.                                      *)
LEMMA HeldIs ==
  ASSUME NEW b, NEW d
  PROVE  Held(b, d) \in {0, 1} /\ Held(<<>>, d) = 0
BY DEF Held

(* While fewer transactions were taken than the queue had, the queue has   *)
(* some left: what the load balancer adds makes up for what it counts.     *)
LEMMA NotYetEmpty ==
  ASSUME TypeOK, Numbered, NEW d \in Dests, NEW i \in Nat,
         NEW t \in Holding, t.buffer \in {buffer, <<>>}, InOrder(t, d, i)
  PROVE  /\ Len(t.queue[d]) \in Nat /\ t.queue[d] \in Seq(Entry)
         /\ Len(t.queue[d]) >= Len(queue[d]) - i
<1>1. t.queue[d] \in Seq(Entry)
  BY DEF Holding
<1>2. Len(t.queue[d]) \in Nat
  BY <1>1
<1>3. Len(sent[d]) + i + Len(t.queue[d]) + Held(t.buffer, d) = given[d]
  BY DEF InOrder, Taken
<1>4. Len(sent[d]) + Len(queue[d]) + Held(buffer, d) = given[d]
  BY DEF Numbered
<1>5. Held(t.buffer, d) <= Held(buffer, d)
  <2>1. CASE t.buffer = buffer
    BY <2>1, HeldIs
  <2>2. CASE t.buffer = <<>>
    BY <2>2, HeldIs
  <2> QED BY <2>1, <2>2
<1>6. Held(t.buffer, d) \in {0, 1} /\ Held(buffer, d) \in {0, 1}
  BY HeldIs
<1>7. Len(sent[d]) \in Nat /\ Len(queue[d]) \in Nat
  BY Lengths
<1>8. Len(t.queue[d]) >= Len(queue[d]) - i
  <2> DEFINE a == Len(t.queue[d])
             b == Len(queue[d])
             c == Len(sent[d])
             h == Held(t.buffer, d)
             g == Held(buffer, d)
  <2>1. /\ a \in Nat /\ b \in Nat /\ c \in Nat /\ h \in Nat /\ g \in Nat
        /\ h <= g
    <3>1. \A x \in {0, 1} : x \in Nat
      OBVIOUS
    <3> QED BY <1>2, <1>5, <1>6, <1>7, <3>1
  <2>2. c + i + a + h = c + b + g
    BY <1>3, <1>4
  <2> HIDE DEF a, b, c, g, h
  <2>3. a >= b - i
    BY <2>1, <2>2
  <2> QED BY <2>3 DEF a, b
<1> QED BY <1>1, <1>2, <1>8

(* What one more pop takes.                                                *)
LEMMA TakenIs ==
  ASSUME TypeOK, NEW e \in Dests, NEW d, NEW i \in Nat
  PROVE  /\ Taken(e, d, i) \in Nat
         /\ e = d => /\ Taken(e, d, i) = Len(sent[e]) + i
                     /\ Taken(e, d, i + 1) = Taken(e, d, i) + 1
         /\ e # d => Taken(e, d, i) = Len(sent[e])
<1> DEFINE n == Len(sent[e])
<1>1. n \in Nat
  BY Lengths
<1> HIDE DEF n
<1>2. \A j \in Nat : Taken(e, d, j) = n + (IF e = d THEN j ELSE 0)
  BY DEF Taken, n
<1>3. CASE e = d
  <2>1. Taken(e, d, i) = n + i /\ Taken(e, d, i + 1) = n + (i + 1)
    BY <1>2, <1>3
  <2>2. Taken(e, d, i) \in Nat /\ Taken(e, d, i + 1) = Taken(e, d, i) + 1
    BY <1>1, <2>1
  <2>3. Taken(e, d, i) = Len(sent[e]) + i
    BY <2>1 DEF n
  <2> QED BY <1>3, <2>2, <2>3, Zenon
<1>4. CASE e # d
  <2>1. Taken(e, d, i) = n
    BY <1>1, <1>2, <1>4
  <2> QED BY <1>1, <1>4, <2>1 DEF n
<1> QED BY <1>3, <1>4

(* A pop keeps the order: a transaction from the buffer comes after all    *)
(* that wait in its queue.                                                 *)
LEMMA PopOneInOrder ==
  ASSUME TypeOK, Numbered, NEW d \in Dests, NEW i \in Nat, i < Len(queue[d]),
         NEW t \in Holding, t.buffer \in {buffer, <<>>}, InOrder(t, d, i)
  PROVE  InOrder(PopOne(t, d), d, i + 1)
<1> DEFINE q == [t.queue EXCEPT ![d] = Tail(@)]
<1>1. Len(t.queue[d]) \in Nat /\ t.queue[d] \in Seq(Entry) /\ t.queue[d] # <<>>
  <2>1. Len(t.queue[d]) > 0
    BY NotYetEmpty, Lengths
  <2> QED BY <2>1, NotYetEmpty
<1>2. /\ q \in [Dests -> Seq(Entry)]
      /\ \A e \in Dests : Len(q[e]) <= DestQueueRoom
      /\ \/ PopOne(t, d) = [queue |-> q, buffer |-> t.buffer]
         \/ /\ t.buffer # <<>> /\ HasSpace(q, Head(t.buffer).to)
            /\ PopOne(t, d) = [queue |-> AddTransaction(q, Head(t.buffer)),
                               buffer |-> Tail(t.buffer)]
  BY <1>1, PopOneIs
<1>3. ASSUME NEW e \in Dests
      PROVE  /\ Taken(e, d, i) \in Nat /\ Taken(e, d, i + 1) \in Nat
             /\ Len(q[e]) \in Nat
             /\ \A k \in 1 .. Len(q[e]) : q[e][k].n = Taken(e, d, i + 1) + k
             /\ Taken(e, d, i + 1) + Len(q[e]) = Taken(e, d, i) + Len(t.queue[e])
  <2>1. t.queue \in [Dests -> Seq(Entry)]
    BY DEF Holding
  <2>2. Taken(e, d, i) \in Nat /\ Taken(e, d, i + 1) \in Nat
    BY TakenIs
  <2>3. CASE e = d
    <3>1. q[e] = Tail(t.queue[d]) /\ Taken(e, d, i + 1) = Taken(e, d, i) + 1
      <4>1. q[e] = Tail(t.queue[d])
        BY <2>1, <2>3
      <4>2. Taken(e, d, i + 1) = Taken(e, d, i) + 1
        BY <2>3, TakenIs
      <4> QED BY <4>1, <4>2, Zenon
    <3>2. /\ Len(q[e]) = Len(t.queue[d]) - 1
          /\ \A k \in 1 .. Len(q[e]) : q[e][k] = t.queue[d][k + 1]
      BY <1>1, <3>1, HeadTailProperties
    <3>3. \A k \in 1 .. Len(t.queue[d]) : t.queue[d][k].n = Taken(e, d, i) + k
      BY <2>3 DEF InOrder
    <3>4. ASSUME NEW k \in 1 .. Len(q[e]) PROVE q[e][k].n = Taken(e, d, i + 1) + k
      <4>1. k + 1 \in 1 .. Len(t.queue[d])
        BY <1>1, <3>2
      <4>2. q[e][k].n = Taken(e, d, i) + (k + 1)
        BY <3>2, <3>3, <4>1
      <4> HIDE DEF q
      <4> QED BY <2>2, <3>1, <4>2
    <3> HIDE DEF q
    <3>5. Len(q[e]) \in Nat /\ Taken(e, d, i + 1) + Len(q[e]) = Taken(e, d, i) + Len(t.queue[e])
      <4>1. Len(t.queue[d]) # 0
        BY <1>1
      <4> QED BY <1>1, <2>2, <2>3, <3>1, <3>2, <4>1
    <3> QED BY <2>2, <3>4, <3>5
  <2>4. CASE e # d
    <3>1. q[e] = t.queue[e] /\ Taken(e, d, i + 1) = Taken(e, d, i)
      BY <2>1, <2>4 DEF Taken
    <3>2. Len(t.queue[e]) \in Nat
      BY <2>1
    <3>3. \A k \in 1 .. Len(t.queue[e]) : t.queue[e][k].n = Taken(e, d, i) + k
      BY DEF InOrder
    <3> HIDE DEF q
    <3> QED BY <2>2, <3>1, <3>2, <3>3
  <2> QED BY <2>3, <2>4
<1>4. ASSUME NEW e \in Dests
      PROVE  Taken(e, d, i) + Len(t.queue[e]) + Held(t.buffer, e) = given[e]
  BY DEF InOrder
<1> HIDE DEF q
<1>5. CASE PopOne(t, d) = [queue |-> q, buffer |-> t.buffer]
  <2>1. PopOne(t, d).queue = q /\ PopOne(t, d).buffer = t.buffer
    BY <1>5
  <2>2. ASSUME NEW e \in Dests
        PROVE  Taken(e, d, i + 1) + Len(q[e]) + Held(t.buffer, e) = given[e]
    BY <1>3, <1>4
  <2> QED BY <1>3, <2>1, <2>2 DEF InOrder
<1>6. CASE /\ t.buffer # <<>> /\ HasSpace(q, Head(t.buffer).to)
           /\ PopOne(t, d) = [queue |-> AddTransaction(q, Head(t.buffer)),
                              buffer |-> Tail(t.buffer)]
  <2> DEFINE x == Head(buffer)
             y == [n |-> x.n, age |-> 0]
             a == AddTransaction(q, x)
  <2>1. /\ t.buffer = buffer /\ buffer # <<>> /\ buffer \in Seq(Transaction)
        /\ Len(buffer) <= 1
    BY <1>6 DEF TypeOK
  <2>2. x \in Transaction /\ Tail(buffer) = <<>>
    BY <2>1
  <2>3. x.to \in Dests /\ x.n = given[x.to]
    BY <2>1, <2>2 DEF Transaction, Numbered
  <2>4. /\ y \in Entry /\ y.n = x.n /\ a[x.to] = Append(q[x.to], y)
        /\ \A e \in Dests : e # x.to => a[e] = q[e]
    BY <1>2, <2>2, AddTransactionIs
  <2>5. PopOne(t, d).queue = a /\ PopOne(t, d).buffer = <<>>
    BY <1>6, <2>1, <2>2
  <2>6. \A e \in Dests : Held(t.buffer, e) = IF e = x.to THEN 1 ELSE 0
    BY <2>1 DEF Held
  <2> HIDE DEF x, y, a
  <2>7. ASSUME NEW e \in Dests
        PROVE  /\ \A k \in 1 .. Len(a[e]) : a[e][k].n = Taken(e, d, i + 1) + k
               /\ Taken(e, d, i + 1) + Len(a[e]) + 0 = given[e]
    <3>1. CASE e = x.to
      <4>1. /\ q[e] \in Seq(Entry) /\ Len(a[e]) = Len(q[e]) + 1
            /\ \A k \in 1 .. Len(q[e]) : a[e][k] = q[e][k]
            /\ a[e][Len(q[e]) + 1] = y
        <5> DEFINE s == q[e]
        <5>1. s \in Seq(Entry) /\ y \in Entry /\ a[e] = Append(s, y)
          BY <1>2, <2>4, <3>1
        <5> HIDE DEF s
        <5>2. /\ Len(Append(s, y)) = Len(s) + 1
              /\ \A k \in 1 .. Len(s) : Append(s, y)[k] = s[k]
              /\ Append(s, y)[Len(s) + 1] = y
          BY <5>1, AppendProperties, Zenon
        <5> QED BY <5>1, <5>2 DEF s
      <4>2. Taken(e, d, i + 1) + Len(q[e]) + 1 = given[e]
        BY <1>3, <1>4, <2>6, <3>1
      <4>3. a[e][Len(q[e]) + 1].n = given[e]
        BY <2>3, <2>4, <3>1, <4>1
      <4>4. ASSUME NEW k \in 1 .. Len(a[e]) PROVE a[e][k].n = Taken(e, d, i + 1) + k
        <5>1. CASE k = Len(q[e]) + 1
          BY <1>3, <4>2, <4>3, <5>1
        <5>2. CASE k \in 1 .. Len(q[e])
          BY <1>3, <4>1, <5>2
        <5>3. k = Len(q[e]) + 1 \/ k \in 1 .. Len(q[e])
          <6> DEFINE m == Len(q[e])
          <6>1. m \in Nat /\ k \in 1 .. m + 1
            BY <1>3, <4>1
          <6> HIDE DEF m
          <6>2. k = m + 1 \/ k \in 1 .. m
            BY <6>1
          <6> QED BY <6>2 DEF m
        <5> QED BY <5>1, <5>2, <5>3
      <4>5. Taken(e, d, i + 1) + Len(a[e]) + 0 = given[e]
        <5>1. Taken(e, d, i + 1) \in Nat /\ Len(q[e]) \in Nat
          BY <1>3
        <5> QED BY <4>1, <4>2, <5>1
      <4> QED BY <4>4, <4>5
    <3>2. CASE e # x.to
      BY <1>3, <1>4, <2>4, <2>6, <3>2
    <3> QED BY <3>1, <3>2
  <2> QED BY <2>5, <2>7, HeldIs DEF InOrder
<1> QED BY <1>2, <1>5, <1>6

(* So do all the pops of a burst.                                          *)
LEMMA PoppedInOrder ==
  ASSUME TypeOK, Numbered, NEW d \in Dests, NEW count \in Nat, count <= Len(queue[d]),
         NEW after, after = Popped([queue |-> queue, buffer |-> buffer], d, count)
  PROVE  /\ after \in Holding /\ after.buffer \in {buffer, <<>>}
         /\ InOrder(after, d, count)
<1> DEFINE s == [queue |-> queue, buffer |-> buffer]
           Y(i) == {t \in Holding : t.buffer \in {buffer, <<>>} /\ InOrder(t, d, i)}
           X == [i \in 0 .. count |-> Y(i)]
<1>1. s \in Holding
  BY DEF Holding, TypeOK
<1>2. InOrder(s, d, 0)
  <2> SUFFICES ASSUME NEW e \in Dests
               PROVE  /\ \A k \in 1 .. Len(queue[e]) : queue[e][k].n = Taken(e, d, 0) + k
                      /\ Taken(e, d, 0) + Len(queue[e]) + Held(buffer, e) = given[e]
    BY DEF InOrder
  <2>1. Taken(e, d, 0) = Len(sent[e])
    BY Lengths DEF Taken
  <2> QED BY <2>1 DEF Numbered
<1>3. ASSUME NEW i \in 0 .. count - 1, NEW t \in Y(i) PROVE PopOne(t, d) \in Y(i + 1)
  <2>1. i \in Nat /\ i < Len(queue[d])
    BY Lengths
  <2>2. InOrder(PopOne(t, d), d, i + 1)
    BY <2>1, PopOneInOrder
  <2>3. buffer \in Seq(Transaction) /\ Len(buffer) <= 1
    BY DEF TypeOK
  <2>4. buffer # <<>> => Tail(buffer) = <<>>
    BY <2>3
  <2>5. PopOne(t, d) \in Holding /\ PopOne(t, d).buffer \in {buffer, <<>>}
    BY <2>4, PopOneHolds
  <2> QED BY <2>2, <2>5
<1>4. s \in X[0]
  BY <1>1, <1>2
<1>5. \A i \in 0 .. count - 1 : \A t \in X[i] : PopOne(t, d) \in X[i + 1]
  <2> SUFFICES ASSUME NEW i \in 0 .. count - 1, NEW t \in X[i] PROVE PopOne(t, d) \in X[i + 1]
    OBVIOUS
  <2>1. i \in 0 .. count /\ i + 1 \in 0 .. count
    OBVIOUS
  <2>2. X[i] = Y(i) /\ X[i + 1] = Y(i + 1)
    BY <2>1
  <2> HIDE DEF X, Y
  <2> QED BY <1>3, <2>2
<1>6. X[count] = Y(count)
  OBVIOUS
<1> HIDE DEF X, s
<1>7. Popped(s, d, count) \in X[count]
  BY <1>4, <1>5, PoppedIn
<1> QED BY <1>6, <1>7 DEF s

-----------------------------------------------------------------------------
(* The steps.                                                              *)

(* The parts of a burst under way have their types.                        *)
LEMMA BurstIs ==
  ASSUME TypeOK, NEW k \in 1 .. Len(bursts)
  PROVE  /\ bursts[k].to \in Dests /\ bursts[k].in \in Nat
         /\ bursts[k].load \in Seq(Nat \ {0}) /\ Len(bursts[k].load) \in Nat
<1>1. bursts[k] \in Burst
  BY ElementOfSeq DEF TypeOK
<1>2. bursts[k].load \in Seq(Nat \ {0})
  BY <1>1 DEF Burst
<1> QED BY <1>1, <1>2 DEF Burst

(* The transactions of a burst under way have numbers.                     *)
LEMMA FirstIs ==
  ASSUME OrderInv, NEW k \in 1 .. Len(bursts)
  PROVE  First(k) \in Nat \ {0} /\ After(k) = First(k) + Len(bursts[k].load)
<1>1. bursts[k].load \in Seq(Nat \ {0}) /\ Len(bursts[k].load) >= 1
  BY BurstIs DEF OrderInv, FromTheHead
<1>2. 1 \in 1 .. Len(bursts[k].load)
  BY <1>1
<1>3. bursts[k].load[1] \in Nat \ {0}
  BY <1>1, <1>2, ElementOfSeq
<1> QED BY <1>3 DEF First, After

(* Nothing has been generated at the beginning.                            *)
LEMMA OrderInit == Init => OrderInv
<1> SUFFICES ASSUME Init PROVE OrderInv
  OBVIOUS
<1>1. TypeOK
  BY TypeInit
<1>2. Len(bursts) = 0
  BY DEF Init
<1>3. OneAfterAnother /\ FromTheHead
  BY <1>2 DEF OneAfterAnother, FromTheHead
<1>4. Numbered
  <2>1. buffer = <<>>
    BY DEF Init
  <2>2. ASSUME NEW d \in Dests
        PROVE  Len(sent[d]) = 0 /\ Len(queue[d]) = 0 /\ given[d] = 0
    BY DEF Init
  <2>3. \A d \in Dests : Held(buffer, d) = 0
    BY <2>1, HeldIs, Zenon
  <2>4. ASSUME NEW d \in Dests
        PROVE  Len(sent[d]) + Len(queue[d]) + Held(buffer, d) = given[d]
    <3> DEFINE s == Len(sent[d])
               q == Len(queue[d])
    <3>1. s = 0 /\ q = 0 /\ Held(buffer, d) = 0 /\ given[d] = 0
      BY <2>2, <2>3
    <3> HIDE DEF s, q
    <3>2. s + q + Held(buffer, d) = given[d]
      BY <3>1
    <3> QED BY <3>2 DEF s, q
  <2>5. ASSUME NEW d \in Dests
        PROVE  1 .. Len(sent[d]) = {} /\ 1 .. Len(queue[d]) = {}
    BY <2>2
  <2> QED BY <2>1, <2>4, <2>5 DEF Numbered
<1> QED BY <1>1, <1>3, <1>4 DEF OrderInv

(* GenerateTransaction: a new transaction comes last, in its queue or in   *)
(* the buffer; it never overtakes the buffered one, since the generator is *)
(* paused while there is one.                                              *)
LEMMA GenerateOrdered ==
  ASSUME OrderInv, TypeOK', NEW d \in Dests, GenerateTransaction(d)
  PROVE  OrderInv'
<1> DEFINE x == [to |-> d, n |-> given[d] + 1]
           y == [n |-> x.n, age |-> 0]
<1>1. TypeOK /\ Numbered /\ OneAfterAnother /\ FromTheHead
  BY DEF OrderInv
<1>2. /\ given' = [given EXCEPT ![d] = @ + 1] /\ sent' = sent /\ bursts' = bursts
      /\ round' = round /\ ~paused
  BY DEF GenerateTransaction
<1>3. buffer = <<>>
  BY <1>1, <1>2 DEF TypeOK
<1>4. /\ given'[d] = given[d] + 1
      /\ \A e \in Dests : e # d => given'[e] = given[e]
      /\ \A e \in Dests : given[e] \in Nat /\ given'[e] \in Nat
  <2>1. \A e \in Dests : given[e] \in Nat
    BY <1>1, Lengths
  <2>2. given'[d] = given[d] + 1 /\ \A e \in Dests : e # d => given'[e] = given[e]
    BY <1>1, <1>2 DEF TypeOK
  <2> QED BY <2>1, <2>2
<1>5. x \in Transaction /\ x.to = d /\ x.n = given[d] + 1
  BY <1>4 DEF Transaction
<1>6. queue \in [Dests -> Seq(Entry)]
  BY <1>1 DEF TypeOK
<1>7. /\ AddTransaction(queue, x)[d] = Append(queue[d], y) /\ y \in Entry
      /\ y.n = given[d] + 1
      /\ \A e \in Dests : e # d => AddTransaction(queue, x)[e] = queue[e]
  BY <1>5, <1>6, AddTransactionIs
<1>8. \/ queue' = AddTransaction(queue, x) /\ buffer' = <<>>
      \/ queue' = queue /\ buffer' = <<x>>
  BY <1>3 DEF GenerateTransaction, Buffer
<1> DEFINE S(e) == Len(sent[e])
           Q(e) == Len(queue[e])
           R(e) == Len(queue'[e])
<1>9. ASSUME NEW e \in Dests
      PROVE  /\ S(e) \in Nat /\ Q(e) \in Nat /\ queue[e] \in Seq(Entry)
             /\ S(e) + Q(e) = given[e]
             /\ \A k \in 1 .. S(e) : sent[e][k] = k
             /\ \A k \in 1 .. Q(e) : queue[e][k].n = S(e) + k
  <2>1. Held(buffer, e) = 0
    BY <1>3, HeldIs, Zenon
  <2>2. S(e) \in Nat /\ Q(e) \in Nat /\ queue[e] \in Seq(Entry)
    BY <1>1, Lengths
  <2>3. /\ S(e) + Q(e) + Held(buffer, e) = given[e]
        /\ \A k \in 1 .. S(e) : sent[e][k] = k
        /\ \A k \in 1 .. Q(e) : queue[e][k].n = S(e) + k
    BY <1>1 DEF Numbered
  <2> HIDE DEF S, Q
  <2> QED BY <2>1, <2>2, <2>3
<1> HIDE DEF x, y
<1>10. \A e \in Dests : R(e) \in Nat /\ R(e) >= Q(e)
  <2>1. CASE queue' = queue
    BY <1>9, <2>1
  <2>2. CASE queue' = AddTransaction(queue, x)
    <3>1. queue[d] \in Seq(Entry) /\ R(d) = Len(Append(queue[d], y))
      BY <1>7, <1>9, <2>2
    <3>2. R(d) = Q(d) + 1
      BY <1>7, <3>1, AppendProperties
    <3>3. \A e \in Dests : e # d => R(e) = Q(e)
      BY <1>7, <2>2
    <3> HIDE DEF S, Q, R
    <3> QED BY <1>9, <3>2, <3>3
  <2> QED BY <1>8, <2>1, <2>2
<1>13. Numbered'
  <2> SUFFICES
        /\ \A e \in Dests :
             /\ \A k \in 1 .. S(e) : sent[e][k] = k
             /\ \A k \in 1 .. R(e) : queue'[e][k].n = S(e) + k
             /\ S(e) + R(e) + Held(buffer', e) = given'[e]
        /\ buffer' # <<>> => Head(buffer').n = given'[Head(buffer').to]
    BY <1>2 DEF Numbered
  <2>1. CASE queue' = AddTransaction(queue, x) /\ buffer' = <<>>
    <3>1. /\ R(d) = Q(d) + 1
          /\ \A k \in 1 .. Q(d) : queue'[d][k] = queue[d][k]
          /\ queue'[d][Q(d) + 1] = y
      <4> DEFINE s == queue[d]
      <4>1. s \in Seq(Entry) /\ y \in Entry /\ queue'[d] = Append(s, y)
        BY <1>7, <1>9, <2>1
      <4> HIDE DEF s
      <4> QED BY <4>1, AppendProperties DEF s
    <3>2. ASSUME NEW e \in Dests, e # d PROVE queue'[e] = queue[e] /\ R(e) = Q(e)
      BY <1>7, <2>1, <3>2
    <3>3. \A e \in Dests : Held(buffer', e) = 0
      BY <2>1, HeldIs, Zenon
    <3> HIDE DEF S, Q, R
    <3>4. ASSUME NEW k \in 1 .. R(d)
          PROVE  queue'[d][k].n = S(d) + k
      <4>1. CASE k = Q(d) + 1
        BY <1>7, <1>9, <3>1, <4>1
      <4>2. CASE k \in 1 .. Q(d)
        BY <1>9, <3>1, <4>2
      <4> QED BY <1>9, <3>1, <4>1, <4>2
    <3>5. ASSUME NEW e \in Dests
          PROVE  /\ \A k \in 1 .. R(e) : queue'[e][k].n = S(e) + k
                 /\ S(e) + R(e) + Held(buffer', e) = given'[e]
      <4>1. CASE e = d
        BY <1>4, <1>9, <3>1, <3>3, <3>4, <4>1
      <4>2. CASE e # d
        BY <1>4, <1>9, <3>2, <3>3, <4>2
      <4> QED BY <4>1, <4>2
    <3> QED BY <1>9, <2>1, <3>5
  <2>2. CASE queue' = queue /\ buffer' = <<x>>
    <3>1. Head(buffer') = x /\ buffer' # <<>>
      BY <2>2
    <3>2. \A e \in Dests : R(e) = Q(e)
      BY <2>2
    <3> HIDE DEF S, Q, R
    <3>3. ASSUME NEW e \in Dests
          PROVE  S(e) + R(e) + Held(buffer', e) = given'[e]
      <4>1. CASE e = d
        <5>1. Held(buffer', e) = 1
          BY <1>5, <3>1, <4>1 DEF Held
        <5> QED BY <1>4, <1>9, <3>2, <4>1, <5>1
      <4>2. CASE e # d
        <5>1. Held(buffer', e) = 0
          BY <1>5, <3>1, <4>2 DEF Held
        <5> QED BY <1>4, <1>9, <3>2, <4>2, <5>1
      <4> QED BY <4>1, <4>2
    <3>4. Head(buffer').n = given'[Head(buffer').to]
      BY <1>4, <1>5, <3>1
    <3> QED BY <1>9, <2>2, <3>2, <3>3, <3>4
  <2> QED BY <1>8, <2>1, <2>2
<1>11. OneAfterAnother'
  BY <1>1, <1>2 DEF OneAfterAnother
<1>12. FromTheHead'
  <2> SUFFICES ASSUME NEW k \in 1 .. Len(bursts)
               PROVE  After(k) <= Len(sent[bursts[k].to]) + Len(queue'[bursts[k].to]) + 1
    BY <1>1, <1>2 DEF FromTheHead, First, After
  <2>1. bursts[k].to \in Dests
    BY <1>1, BurstIs
  <2>2. After(k) <= Len(sent[bursts[k].to]) + Len(queue[bursts[k].to]) + 1
    BY <1>1 DEF FromTheHead
  <2> DEFINE e == bursts[k].to
  <2>3. After(k) \in Nat
    <3> DEFINE l == Len(bursts[k].load)
    <3>1. First(k) \in Nat \ {0} /\ After(k) = First(k) + l
      BY FirstIs
    <3>2. l \in Nat
      BY <1>1, BurstIs
    <3> HIDE DEF l
    <3> QED BY <3>1, <3>2
  <2>4. After(k) <= S(e) + Q(e) + 1
    BY <2>2
  <2>5. S(e) \in Nat /\ Q(e) \in Nat /\ R(e) \in Nat /\ R(e) >= Q(e)
    BY <1>9, <1>10, <2>1
  <2>6. After(k) <= S(e) + R(e) + 1
    <3> HIDE DEF S, Q, R, e
    <3> QED BY <2>3, <2>4, <2>5
  <2> QED BY <2>6
<1> QED BY <1>11, <1>12, <1>13 DEF OrderInv

(* Time going on changes no order.                                         *)
LEMMA AdvanceOrdered ==
  ASSUME OrderInv, TypeOK', Advance
  PROVE  OrderInv'
<1>1. TypeOK /\ Numbered /\ OneAfterAnother /\ FromTheHead
  BY DEF OrderInv
<1>2. PICK wait \in Nat :
           /\ \A k \in 1 .. Len(bursts) : wait <= bursts[k].in
           /\ round # Never => wait <= round
           /\ round' = IF round = Never THEN Never ELSE round - wait
           /\ bursts' = Sooner(bursts, wait)
           /\ queue' = [d \in Dests |-> AgedQueue(queue[d])]
  BY <1>1, AdvanceIs
<1>3. given' = given /\ sent' = sent /\ buffer' = buffer
  BY DEF Advance
<1>4. /\ Len(bursts') = Len(bursts)
      /\ \A k \in 1 .. Len(bursts) : /\ bursts'[k].to = bursts[k].to
                                     /\ bursts'[k].load = bursts[k].load
                                     /\ bursts'[k].in = bursts[k].in - wait
  BY <1>1, <1>2, SoonerIs DEF TypeOK
<1>5. ASSUME NEW d \in Dests
      PROVE  /\ Len(queue'[d]) = Len(queue[d])
             /\ \A k \in 1 .. Len(queue[d]) : queue'[d][k].n = queue[d][k].n
  <2>1. Ages \subseteq Nat /\ queue[d] \in Seq(Entry) /\ queue'[d] = AgedQueue(queue[d])
    BY <1>1, <1>2, AgesAreNat DEF TypeOK
  <2> QED BY <2>1, AgedQueueIs
<1>6. Numbered'
  BY <1>1, <1>3, <1>5 DEF Numbered
<1>7. OneAfterAnother'
  <2>1. ASSUME NEW j \in 1 .. Len(bursts), NEW k \in 1 .. Len(bursts)
        PROVE  bursts'[j].to = bursts'[k].to /\ (j < k => bursts'[j].in < bursts'[k].in)
    <3>1. bursts[j].in \in Nat /\ bursts[k].in \in Nat
      BY <1>1, BurstIs
    <3> QED BY <1>1, <1>4, <3>1 DEF OneAfterAnother
  <2>2. ASSUME NEW k \in 1 .. Len(bursts), round' # Never
        PROVE  bursts'[k].in < round'
    <3>1. round # Never /\ round' = round - wait /\ round \in Int
      BY <1>1, <1>2, <2>2, SueClientAssumption DEF TypeOK, Never
    <3>2. bursts[k].in < round /\ bursts[k].in \in Nat
      BY <1>1, <3>1, BurstIs DEF OneAfterAnother
    <3>3. bursts'[k].in = bursts[k].in - wait
      BY <1>4
    <3> QED BY <3>1, <3>2, <3>3
  <2> QED BY <1>4, <2>1, <2>2 DEF OneAfterAnother
<1>8. FromTheHead'
  <2> SUFFICES ASSUME NEW k \in 1 .. Len(bursts)
               PROVE  /\ Len(bursts'[k].load) >= 1
                      /\ \A i \in 1 .. Len(bursts'[k].load) :
                           bursts'[k].load[i] = First(k)' + i - 1
                      /\ First(k)' = IF k = 1 THEN Len(sent'[bursts'[k].to]) + 1
                                     ELSE After(k - 1)'
                      /\ After(k)' <= Len(sent'[bursts'[k].to]) + Len(queue'[bursts'[k].to]) + 1
    BY <1>4 DEF FromTheHead
  <2>1. bursts[k].to \in Dests
    BY <1>1, BurstIs
  <2>2. First(k)' = First(k) /\ After(k)' = After(k)
    BY <1>4 DEF First, After
  <2>3. k # 1 => After(k - 1)' = After(k - 1)
    <3> SUFFICES ASSUME k # 1 PROVE After(k - 1)' = After(k - 1)
      OBVIOUS
    <3>1. k - 1 \in 1 .. Len(bursts)
      BY <1>1 DEF TypeOK
    <3>2. bursts'[k - 1].load = bursts[k - 1].load
      BY <1>4, <3>1
    <3> QED BY <3>2 DEF First, After
  <2>4. bursts'[k].to = bursts[k].to /\ bursts'[k].load = bursts[k].load
    BY <1>4
  <2>5. Len(queue'[bursts[k].to]) = Len(queue[bursts[k].to])
    BY <1>5, <2>1
  <2> DEFINE s == Len(sent[bursts[k].to])
             q == Len(queue[bursts[k].to])
             l == bursts[k].load
  <2>6. /\ Len(l) >= 1
        /\ \A i \in 1 .. Len(l) : l[i] = First(k) + i - 1
        /\ First(k) = IF k = 1 THEN s + 1 ELSE After(k - 1)
        /\ After(k) <= s + q + 1
    BY <1>1 DEF FromTheHead
  <2>7. /\ bursts'[k].load = l
        /\ Len(sent'[bursts'[k].to]) = s
        /\ Len(queue'[bursts'[k].to]) = q
    BY <1>3, <2>4, <2>5
  <2> HIDE DEF s, q, l
  <2> QED BY <2>2, <2>3, <2>6, <2>7
<1> QED BY <1>6, <1>7, <1>8 DEF OrderInv

(* ScheduleNextSend: no burst of an earlier round is under way, so the new *)
(* ones carry what is at the head of the queue.                            *)
LEMMA ScheduleOrdered ==
  ASSUME RoundsApart, OrderInv, TypeOK', ScheduleNextSend
  PROVE  OrderInv'
<1>1. TypeOK /\ Numbered /\ OneAfterAnother /\ FromTheHead
  BY DEF OrderInv
<1>2. /\ given' = given /\ sent' = sent /\ buffer' = buffer /\ queue' = queue
      /\ round = 0 /\ round' \in {SchedulingInterval, Never}
  BY DEF ScheduleNextSend
<1>3. bursts \in Seq(Burst) /\ Len(bursts) = 0
  <2>1. bursts \in Seq(Burst) /\ Len(bursts) \in Nat
    BY <1>1 DEF TypeOK
  <2>2. ~(1 \in 1 .. Len(bursts))
    <3> SUFFICES ASSUME 1 \in 1 .. Len(bursts) PROVE FALSE
      OBVIOUS
    <3>1. bursts[1].in < 0
      BY <1>1, <1>2 DEF OneAfterAnother, Never
    <3>2. bursts[1].in \in Nat
      BY <1>1, BurstIs
    <3> QED BY <3>1, <3>2
  <2> QED BY <2>1, <2>2
<1>4. Aged(bursts) = <<>>
  <2>1. Aged(bursts) \in Seq(Burst) /\ Len(Aged(bursts)) = 0
    BY <1>3, AgedIs
  <2> QED BY <2>1
<1>5. Numbered'
  BY <1>1, <1>2 DEF Numbered
<1>6. OneAfterAnother' /\ FromTheHead'
  <2>1. CASE bursts' = Aged(bursts) /\ reserved' = reserved
    <3>1. Len(bursts') = 0
      BY <1>4, <2>1
    <3> QED BY <3>1 DEF OneAfterAnother, FromTheHead
  <2>2. ASSUME NEW d, NEW n, NEW loads, Packs(d, n, loads)
        PROVE  OneAfterAnother' /\ FromTheHead'
    <3> DEFINE q == queue[d]
               B == BurstCount(n)
               sn == Len(sent[d])
    <3>1. /\ d \in Dests /\ n \in 0 .. Len(q) /\ q \in Seq(Entry)
          /\ loads = SmartPacking(q, n) /\ n <= Packable[Free]
          /\ bursts' = Aged(bursts) \o NewBursts(d, loads)
      BY <1>1, <2>2 DEF Packs, TypeOK
    <3>2. /\ n \in Nat /\ Len(q) \in Nat /\ sn \in Nat /\ Len(q) <= DestQueueRoom
      <4>1. Len(q) \in Nat /\ sn \in Nat
        BY <1>1, <3>1, Lengths
      <4>2. Len(q) <= DestQueueRoom
        BY <1>1, <3>1 DEF TypeOK
      <4>3. n \in 0 .. Len(q)
        BY <3>1
      <4> HIDE DEF q, sn
      <4> QED BY <4>1, <4>2, <4>3
    <3>3. /\ B \in Nat /\ loads \in Seq(Seq(Nat \ {0})) /\ Len(loads) = B
          /\ \A k \in 1 .. B :
               /\ loads[k] \in Seq(Nat \ {0})
               /\ Len(loads[k]) = LoadLength(n, k)
               /\ \A i \in 1 .. LoadLength(n, k) :
                    loads[k][i] = q[(k - 1) * PerBurst + i].n
      BY <3>1, LoadsAre
    <3>4. /\ NewBursts(d, loads) \in Seq(Burst)
          /\ Len(NewBursts(d, loads)) = B
          /\ \A k \in 1 .. B : /\ NewBursts(d, loads)[k].to = d
                               /\ NewBursts(d, loads)[k].load = loads[k]
                               /\ NewBursts(d, loads)[k].in = k * PackingDelay
      BY <3>1, <3>3, NewBurstsAre
    <3>5. bursts' = NewBursts(d, loads)
      BY <1>4, <3>1, <3>4, ConcatEmptySeq
    <3>6. /\ Len(bursts') = B
          /\ \A k \in 1 .. B : /\ bursts'[k].to = d
                               /\ bursts'[k].load = loads[k]
                               /\ bursts'[k].in = k * PackingDelay
      BY <3>4, <3>5
    <3>7. B * PackingDelay < SchedulingInterval
      <4>1. Free \in 0 .. VcRoom
        BY <1>1, FreeIs DEF TypeOK
      <4>2. n \in 0 .. DestQueueRoom
        BY <3>1, <3>2, SueClientAssumption
      <4> QED BY <3>1, <4>1, <4>2 DEF RoundsApart
    <3>8. \A i \in 1 .. Len(q) : q[i].n = sn + i
      BY <1>1, <3>1 DEF Numbered
    <3> HIDE DEF q, B, sn
    <3>9. OneAfterAnother'
      <4>1. ASSUME NEW j \in 1 .. B, NEW k \in 1 .. B, j < k
            PROVE  j * PackingDelay < k * PackingDelay
        BY <3>3, <4>1, SueClientAssumption
      <4>2. ASSUME NEW k \in 1 .. B PROVE k * PackingDelay < SchedulingInterval
        <5>1. k * PackingDelay <= B * PackingDelay
          BY <3>3, SueClientAssumption
        <5>2. k * PackingDelay \in Nat /\ B * PackingDelay \in Nat
          BY <3>3, SueClientAssumption
        <5> QED BY <3>7, <5>1, <5>2, SueClientAssumption
      <4> QED BY <1>2, <3>6, <4>1, <4>2 DEF OneAfterAnother
    <3>10. ASSUME NEW k \in 1 .. B
           PROVE  /\ (k - 1) * PerBurst \in Nat
                  /\ Len(loads[k]) \in Nat /\ Len(loads[k]) >= 1
                  /\ (k - 1) * PerBurst + Len(loads[k]) <= n
                  /\ k < B => Len(loads[k]) = PerBurst
                  /\ k * PerBurst = (k - 1) * PerBurst + PerBurst
                  /\ \A i \in 1 .. Len(loads[k]) :
                       loads[k][i] = sn + (k - 1) * PerBurst + i
                  /\ First(k)' = sn + (k - 1) * PerBurst + 1
                  /\ After(k)' = First(k)' + Len(loads[k])
      <4> DEFINE p == (k - 1) * PerBurst
                 l == Len(loads[k])
      <4>1. /\ l \in 1 .. PerBurst /\ p \in Nat /\ p + l <= n
            /\ (k < B => l = PerBurst)
            /\ k * PerBurst = p + PerBurst
        BY <3>2, <3>3, LoadLengthIs DEF B
      <4>2. l \in Nat /\ l >= 1
        BY <4>1, Sizes
      <4>3. \A i \in 1 .. l : loads[k][i] = q[p + i].n
        BY <3>3
      <4> HIDE DEF p, l
      <4>4. ASSUME NEW i \in 1 .. l PROVE loads[k][i] = sn + p + i
        <5>1. p + i \in 1 .. Len(q)
          BY <3>1, <3>2, <4>1, <4>2
        <5>2. q[p + i].n = sn + (p + i)
          BY <3>8, <5>1
        <5> QED BY <3>2, <4>1, <4>3, <5>2
      <4>5. First(k)' = sn + p + 1
        <5>1. First(k)' = loads[k][1]
          BY <3>6 DEF First
        <5>2. 1 \in 1 .. l
          BY <4>2
        <5> QED BY <4>4, <5>1, <5>2
      <4>6. After(k)' = First(k)' + l
        BY <3>6 DEF After, l
      <4> QED BY <4>1, <4>2, <4>4, <4>5, <4>6 DEF p, l
    <3>11. ASSUME NEW k \in 1 .. B
           PROVE  /\ Len(bursts'[k].load) >= 1
                  /\ \A i \in 1 .. Len(bursts'[k].load) :
                       bursts'[k].load[i] = First(k)' + i - 1
                  /\ First(k)' = IF k = 1 THEN sn + 1 ELSE After(k - 1)'
                  /\ After(k)' <= sn + Len(q) + 1
      <4> DEFINE p == (k - 1) * PerBurst
                 l == Len(loads[k])
      <4>1. /\ p \in Nat /\ l \in Nat /\ l >= 1 /\ p + l <= n
            /\ \A i \in 1 .. l : loads[k][i] = sn + p + i
            /\ First(k)' = sn + p + 1 /\ After(k)' = First(k)' + l
        BY <3>10
      <4>2. bursts'[k].load = loads[k]
        BY <3>6
      <4>3. First(k)' = IF k = 1 THEN sn + 1 ELSE After(k - 1)'
        <5>1. CASE k = 1
          <6>1. p = 0
            BY <5>1, Sizes
          <6> QED BY <3>2, <4>1, <5>1, <6>1
        <5>2. CASE k # 1
          <6> DEFINE j == k - 1
                     r == (j - 1) * PerBurst
          <6>1. j \in 1 .. B /\ j < B
            BY <3>3, <5>2
          <6>2. /\ r \in Nat /\ Len(loads[j]) = PerBurst
                /\ j * PerBurst = r + PerBurst
                /\ First(j)' = sn + r + 1 /\ After(j)' = First(j)' + Len(loads[j])
            BY <3>10, <6>1
          <6>3. p = r + PerBurst
            BY <6>2
          <6> HIDE DEF p, r
          <6> QED BY <3>2, <4>1, <5>2, <6>2, <6>3, Sizes
        <5> QED BY <5>1, <5>2
      <4> HIDE DEF p, l
      <4>4. After(k)' <= sn + Len(q) + 1
        BY <3>1, <3>2, <4>1
      <4>5. \A i \in 1 .. l : loads[k][i] = First(k)' + i - 1
        BY <3>2, <4>1
      <4> QED BY <4>1, <4>2, <4>3, <4>4, <4>5 DEF l
    <3>12. FromTheHead'
      BY <1>2, <3>6, <3>11 DEF FromTheHead, q, sn
    <3> QED BY <3>9, <3>12
  <2> QED BY <1>1, <2>1, <2>2, PackIs DEF ScheduleNextSend
<1> QED BY <1>5, <1>6 DEF OrderInv

(* The burst that is due is the first one, and it carries the transactions *)
(* that come next.                                                         *)
LEMMA FirstBurst ==
  ASSUME OrderInv, NEW k, NEW after, Sends(k, after)
  PROVE  LET d == bursts[1].to
             load == bursts[1].load
         IN  /\ k = 1 /\ Len(bursts) \in Nat /\ 1 \in 1 .. Len(bursts)
             /\ d \in Dests /\ load \in Seq(Nat \ {0}) /\ Len(load) \in Nat
             /\ Len(load) >= 1 /\ Len(load) <= Len(queue[d])
             /\ \A i \in 1 .. Len(load) : load[i] = Len(sent[d]) + i
             /\ First(1) = Len(sent[d]) + 1
             /\ After(1) = First(1) + Len(load)
<1>1. TypeOK /\ OneAfterAnother /\ FromTheHead
  BY DEF OrderInv
<1>2. Len(bursts) \in Nat /\ k \in 1 .. Len(bursts)
  <2>1. bursts \in Seq(Burst) /\ k \in DOMAIN bursts
    BY <1>1 DEF Sends, TypeOK
  <2> QED BY <2>1
<1>3. k = 1
  <2> SUFFICES ASSUME k # 1 PROVE FALSE
    OBVIOUS
  <2>1. 1 \in 1 .. Len(bursts) /\ 1 < k
    BY <1>2
  <2>2. bursts[1].in < bursts[k].in /\ bursts[k].in = 0
    BY <1>1, <1>2, <2>1 DEF OneAfterAnother, Sends
  <2>3. bursts[1].in \in Nat
    BY <1>1, <2>1, BurstIs
  <2> QED BY <2>2, <2>3
<1>4. 1 \in 1 .. Len(bursts)
  BY <1>2, <1>3
<1> DEFINE d == bursts[1].to
           load == bursts[1].load
           count == Len(load)
           S == Len(sent[d])
           Q == Len(queue[d])
<1>5. d \in Dests /\ load \in Seq(Nat \ {0}) /\ count \in Nat
  BY <1>1, <1>4, BurstIs
<1>6. /\ count >= 1
      /\ \A i \in 1 .. count : load[i] = First(1) + i - 1
      /\ First(1) = S + 1
      /\ After(1) <= S + Q + 1
      /\ After(1) = First(1) + count
  BY <1>1, <1>4 DEF FromTheHead, After
<1>7. S \in Nat /\ Q \in Nat
  BY <1>1, <1>5, Lengths
<1>8. count <= Q /\ \A i \in 1 .. count : load[i] = S + i
  <2> HIDE DEF S, Q, load, count
  <2> QED BY <1>5, <1>6, <1>7
<1> QED BY <1>2, <1>3, <1>4, <1>5, <1>6, <1>8

(* DoSendBurst: the transactions the burst carries are those it takes from *)
(* the queue.                                                              *)
LEMMA SendOrdered ==
  ASSUME OrderInv, TypeOK', DoSendBurst
  PROVE  OrderInv'
<1>1. TypeOK /\ Numbered /\ OneAfterAnother /\ FromTheHead
  BY DEF OrderInv
<1>2. PICK k, after : Sends(k, after)
  BY DEF DoSendBurst, Sends
<1>3. given' = given /\ round' = round
  BY DEF DoSendBurst
<1> DEFINE d == bursts[1].to
           load == bursts[1].load
           count == Len(load)
           S(e) == Len(sent[e])
           Q(e) == Len(queue[e])
           R(e) == Len(queue'[e])
           T(e) == Len(sent'[e])
<1>4. bursts \in Seq(Burst) /\ Len(bursts) \in Nat
  BY <1>1, <1>2, FirstBurst DEF TypeOK
<1>5. k = 1
  BY <1>2, FirstBurst
<1>6. 1 \in 1 .. Len(bursts)
  BY <1>2, FirstBurst
<1>7. d \in Dests /\ load \in Seq(Nat \ {0}) /\ count \in Nat
  BY <1>2, FirstBurst
<1>8. \A e \in Dests : /\ S(e) \in Nat /\ Q(e) \in Nat /\ R(e) \in Nat /\ T(e) \in Nat
                       /\ given[e] \in Nat
                       /\ sent[e] \in Seq(Nat \ {0}) /\ queue'[e] \in Seq(Entry)
  <2>1. ASSUME NEW e \in Dests
        PROVE  /\ S(e) \in Nat /\ Q(e) \in Nat /\ given[e] \in Nat
               /\ sent[e] \in Seq(Nat \ {0})
    BY <1>1, Lengths
  <2>2. ASSUME NEW e \in Dests
        PROVE  queue'[e] \in Seq(Entry) /\ R(e) \in Nat /\ T(e) \in Nat
    <3>1. queue'[e] \in Seq(Entry) /\ sent'[e] \in Seq(Nat \ {0})
      BY DEF TypeOK
    <3> QED BY <3>1
  <2> QED BY <2>1, <2>2
<1>9. /\ count >= 1
      /\ First(1) = S(d) + 1
      /\ \A i \in 1 .. count : load[i] = S(d) + i
      /\ After(1) = First(1) + count
      /\ count <= Q(d)
  BY <1>2, FirstBurst
<1>10. /\ after \in Holding /\ after.buffer \in {buffer, <<>>}
       /\ InOrder(after, d, count)
       /\ queue' = after.queue /\ buffer' = after.buffer
  <2>1. /\ after = Popped([queue |-> queue, buffer |-> buffer], d, count)
        /\ queue' = after.queue /\ buffer' = after.buffer
    BY <1>2, <1>5 DEF Sends, Count
  <2>2. d \in Dests /\ count \in Nat /\ count <= Len(queue[d])
    BY <1>7, <1>9
  <2> HIDE DEF d, count
  <2> QED BY <1>1, <2>1, <2>2, PoppedInOrder
<1>11. /\ T(d) = S(d) + count
       /\ \A i \in 1 .. S(d) + count :
            sent'[d][i] = IF i <= S(d) THEN sent[d][i] ELSE load[i - S(d)]
       /\ \A e \in Dests : e # d => sent'[e] = sent[e] /\ T(e) = S(e)
  <2>1. sent' = [sent EXCEPT ![d] = @ \o load] /\ sent \in [Dests -> Seq(Nat \ {0})]
    BY <1>1, <1>2, <1>5 DEF Sends, TypeOK
  <2>2. sent'[d] = sent[d] \o load
    BY <1>7, <2>1
  <2>3. \A e \in Dests : e # d => sent'[e] = sent[e]
    BY <2>1
  <2>4. /\ Len(sent[d] \o load) = Len(sent[d]) + Len(load)
        /\ \A i \in 1 .. Len(sent[d]) + Len(load) :
             (sent[d] \o load)[i] = IF i <= Len(sent[d]) THEN sent[d][i]
                                    ELSE load[i - Len(sent[d])]
    <3>1. sent[d] \in Seq(Nat \ {0}) /\ load \in Seq(Nat \ {0})
      BY <1>7, <1>8
    <3> HIDE DEF d, load
    <3> QED BY <3>1, ConcatProperties, Zenon
  <2> HIDE DEF d, load
  <2> QED BY <2>2, <2>3, <2>4
<1>12. ASSUME NEW e \in Dests
       PROVE  T(e) = Taken(e, d, count)
  <2>1. CASE e = d
    <3>1. Taken(e, d, count) = S(d) + count
      BY <1>1, <1>7, <2>1, TakenIs
    <3> QED BY <1>11, <2>1, <3>1
  <2>2. CASE e # d
    <3>1. Taken(e, d, count) = S(e)
      BY <1>1, <1>7, <2>2, TakenIs
    <3> QED BY <1>11, <2>2, <3>1
  <2> QED BY <2>1, <2>2
<1>13. ASSUME NEW e \in Dests
       PROVE  /\ \A i \in 1 .. T(e) : sent'[e][i] = i
              /\ \A i \in 1 .. R(e) : queue'[e][i].n = T(e) + i
              /\ T(e) + R(e) + Held(buffer', e) = given[e]
  <2>1. \A i \in 1 .. S(e) : sent[e][i] = i
    BY <1>1 DEF Numbered
  <2>2. /\ \A i \in 1 .. R(e) : queue'[e][i].n = T(e) + i
        /\ T(e) + R(e) + Held(buffer', e) = given[e]
    BY <1>10, <1>12 DEF InOrder
  <2>3. \A i \in 1 .. T(e) : sent'[e][i] = i
    <3>1. CASE e = d
      <4> HIDE DEF S, T, d, load, count
      <4>1. ASSUME NEW i \in 1 .. T(e) PROVE sent'[e][i] = i
        <5>1. S(d) \in Nat /\ i \in 1 .. S(d) + count
          BY <1>7, <1>8, <1>11, <3>1
        <5>2. sent'[d][i] = IF i <= S(d) THEN sent[d][i] ELSE load[i - S(d)]
          BY <1>11, <5>1
        <5>3. CASE i <= S(d)
          BY <2>1, <3>1, <5>1, <5>2, <5>3
        <5>4. CASE ~(i <= S(d))
          <6>1. i - S(d) \in 1 .. count
            BY <1>7, <5>1, <5>4
          <6>2. load[i - S(d)] = S(d) + (i - S(d))
            BY <1>9, <6>1
          <6> QED BY <3>1, <5>1, <5>2, <5>4, <6>2
        <5> QED BY <5>3, <5>4
      <4> QED BY <4>1
    <3>2. CASE e # d
      BY <1>11, <2>1, <3>2
    <3> QED BY <3>1, <3>2
  <2> QED BY <2>2, <2>3
<1>14. buffer' # <<>> => Head(buffer').n = given'[Head(buffer').to]
  BY <1>1, <1>3, <1>10 DEF Numbered
<1>15. Numbered'
  BY <1>3, <1>13, <1>14 DEF Numbered
<1>16. /\ Len(bursts') = Len(bursts) - 1
       /\ \A j \in 1 .. Len(bursts) - 1 :
            bursts'[j] = bursts[j + 1] /\ j + 1 \in 1 .. Len(bursts) /\ j \in 1 .. Len(bursts)
  <2>1. bursts' = RemoveAt(bursts, 1)
    BY <1>2, <1>5 DEF Sends
  <2>2. /\ Len(RemoveAt(bursts, 1)) = Len(bursts) - 1
        /\ \A i \in 1 .. Len(bursts) - 1 :
             RemoveAt(bursts, 1)[i] = IF i < 1 THEN bursts[i] ELSE bursts[i + 1]
    BY <1>4, <1>6, RemoveAtIs
  <2> QED BY <1>4, <2>1, <2>2
<1>17. OneAfterAnother'
  <2>1. ASSUME NEW i \in 1 .. Len(bursts) - 1, NEW j \in 1 .. Len(bursts) - 1
        PROVE  bursts'[i].to = bursts'[j].to /\ (i < j => bursts'[i].in < bursts'[j].in)
    <3>1. /\ bursts'[i] = bursts[i + 1] /\ i + 1 \in 1 .. Len(bursts)
          /\ bursts'[j] = bursts[j + 1] /\ j + 1 \in 1 .. Len(bursts)
      BY <1>16
    <3>2. i < j => i + 1 < j + 1
      BY <1>4
    <3> DEFINE m == i + 1
               n == j + 1
    <3>3. m \in 1 .. Len(bursts) /\ n \in 1 .. Len(bursts)
      BY <3>1
    <3> HIDE DEF m, n
    <3>4. bursts[m].to = bursts[n].to /\ (m < n => bursts[m].in < bursts[n].in)
      BY <1>1, <3>3 DEF OneAfterAnother
    <3> QED BY <3>1, <3>2, <3>4 DEF m, n
  <2>2. round' # Never => \A j \in 1 .. Len(bursts) - 1 : bursts'[j].in < round'
    BY <1>1, <1>3, <1>16 DEF OneAfterAnother
  <2> QED BY <1>16, <2>1, <2>2 DEF OneAfterAnother
<1>18. R(d) >= Q(d) - count
  <2>1. queue'[d] = after.queue[d]
    BY <1>10
  <2>2. d \in Dests /\ count \in Nat
    BY <1>7
  <2> HIDE DEF d, count
  <2> QED BY <1>1, <1>10, <2>1, <2>2, NotYetEmpty
<1>19. FromTheHead'
  <2>1. ASSUME NEW j \in 1 .. Len(bursts) - 1
        PROVE  /\ bursts'[j].to = d
               /\ Len(bursts'[j].load) >= 1
               /\ \A i \in 1 .. Len(bursts'[j].load) :
                    bursts'[j].load[i] = First(j)' + i - 1
               /\ First(j)' = IF j = 1 THEN T(d) + 1 ELSE After(j - 1)'
               /\ After(j)' <= T(d) + R(d) + 1
    <3> DEFINE m == j + 1
    <3>1. m \in 1 .. Len(bursts) /\ bursts'[j] = bursts[m] /\ m # 1 /\ m - 1 = j
      BY <1>4, <1>16
    <3>2. bursts[m].to = d
      BY <1>1, <1>6, <3>1 DEF OneAfterAnother
    <3>3. First(j)' = First(m) /\ After(j)' = After(m)
      BY <3>1 DEF First, After
    <3>4. First(m) \in Nat \ {0} /\ After(m) \in Nat
      <4> DEFINE l == Len(bursts[m].load)
      <4>1. First(m) \in Nat \ {0} /\ After(m) = First(m) + l
        BY <3>1, FirstIs
      <4>2. l \in Nat
        BY <1>1, <3>1, BurstIs
      <4> HIDE DEF l, m
      <4> QED BY <4>1, <4>2
    <3>5. /\ Len(bursts[m].load) >= 1
          /\ \A i \in 1 .. Len(bursts[m].load) : bursts[m].load[i] = First(m) + i - 1
          /\ First(m) = After(m - 1)
          /\ After(m) <= S(d) + Q(d) + 1
      BY <1>1, <3>1, <3>2 DEF FromTheHead
    <3>6. S(d) \in Nat /\ Q(d) \in Nat /\ R(d) \in Nat /\ T(d) \in Nat
      BY <1>7, <1>8
    <3>7. After(m) <= T(d) + R(d) + 1
      <4> HIDE DEF S, Q, R, T, d, count, load, m
      <4> QED BY <1>7, <1>11, <1>18, <3>4, <3>5, <3>6
    <3>8. First(m) = IF j = 1 THEN T(d) + 1 ELSE After(j - 1)'
      <4>1. CASE j = 1
        <5>1. First(m) = First(1) + count
          BY <1>9, <3>1, <3>5, <4>1
        <5>2. First(1) = S(d) + 1 /\ T(d) = S(d) + count /\ count \in Nat /\ S(d) \in Nat
          BY <1>7, <1>9, <1>11, <3>6
        <5> HIDE DEF S, T, d, count, load, m
        <5> QED BY <4>1, <5>1, <5>2
      <4>2. CASE j # 1
        <5>1. j - 1 \in 1 .. Len(bursts) - 1 /\ (j - 1) + 1 = j
          BY <1>4, <4>2
        <5>2. bursts'[j - 1] = bursts[j]
          BY <1>16, <5>1
        <5>3. After(j - 1)' = After(j)
          BY <5>2 DEF First, After
        <5> QED BY <3>1, <3>5, <4>2, <5>3
      <4> QED BY <4>1, <4>2
    <3> QED BY <3>1, <3>2, <3>3, <3>5, <3>7, <3>8
  <2> QED BY <1>16, <2>1 DEF FromTheHead
<1> QED BY <1>15, <1>17, <1>19 DEF OrderInv

(* Every step keeps the order.                                             *)
LEMMA OrderStep == RoundsApart /\ OrderInv /\ [Next]_vars => OrderInv'
<1> SUFFICES ASSUME RoundsApart, OrderInv, [Next]_vars PROVE OrderInv'
  OBVIOUS
<1>1. TypeOK'
  BY TypeStep DEF OrderInv
<1>2. ASSUME UNCHANGED <<given, buffer, queue, round, bursts, sent>> PROVE OrderInv'
  <2>1. /\ given' = given /\ buffer' = buffer /\ queue' = queue
        /\ round' = round /\ bursts' = bursts /\ sent' = sent
    BY <1>2
  <2>2. Numbered'
    BY <2>1 DEF OrderInv, Numbered
  <2>3. OneAfterAnother'
    BY <2>1 DEF OrderInv, OneAfterAnother
  <2>4. FromTheHead'
    <3>1. \A k : First(k)' = First(k) /\ After(k)' = After(k)
      BY <2>1 DEF First, After
    <3> QED BY <2>1, <3>1 DEF OrderInv, FromTheHead
  <2> QED BY <1>1, <2>2, <2>3, <2>4 DEF OrderInv
<1>3. ASSUME NEW d \in Dests, GenerateTransaction(d) PROVE OrderInv'
  BY <1>1, <1>3, GenerateOrdered
<1>4. CASE Complete
  BY <1>2, <1>4 DEF Complete
<1>5. CASE ScheduleNextSend
  BY <1>1, <1>5, ScheduleOrdered
<1>6. CASE DoSendBurst
  BY <1>1, <1>6, SendOrdered
<1>7. CASE Advance
  BY <1>1, <1>7, AdvanceOrdered
<1>8. CASE Transmit
  BY <1>2, <1>8 DEF Transmit
<1>9. CASE UNCHANGED vars
  BY <1>2, <1>9 DEF vars
<1> QED BY <1>3, <1>4, <1>5, <1>6, <1>7, <1>8, <1>9 DEF Next, RunEvents

(* What the invariant says of the transactions.                            *)
LEMMA OrderMeans == OrderInv => TransactionsInOrder /\ RemovedWasSent
<1> SUFFICES ASSUME OrderInv PROVE TransactionsInOrder /\ RemovedWasSent
  OBVIOUS
<1>1. TypeOK /\ Numbered
  BY DEF OrderInv
<1>2. buffer \in Seq(Transaction) /\ Len(buffer) <= 1
  BY <1>1 DEF TypeOK
<1>3. /\ buffer = <<>> => DOMAIN buffer = {}
      /\ buffer # <<>> => DOMAIN buffer = {1} /\ Head(buffer) = buffer[1]
  <2>1. CASE buffer = <<>>
    BY <2>1
  <2>2. CASE buffer # <<>>
    <3>1. Len(buffer) = 1
      <4>1. Len(buffer) \in Nat
        BY <1>2
      <4>2. Len(buffer) # 0
        BY <1>2, <2>2, EmptySeq
      <4> DEFINE n == Len(buffer)
      <4>3. n \in Nat /\ n # 0 /\ n <= 1
        BY <1>2, <4>1, <4>2
      <4> HIDE DEF n
      <4>4. n = 1
        BY <4>3
      <4> QED BY <4>4 DEF n
    <3>2. DOMAIN buffer = 1 .. 1
      BY <1>2, <3>1
    <3>3. Head(buffer) = buffer[1]
      BY <1>2, <2>2
    <3> QED BY <2>2, <3>2, <3>3
  <2> QED BY <2>1, <2>2
<1>4. ASSUME NEW d \in Dests
      PROVE  /\ sent[d] \o Numbers(queue[d]) \o Buffered(d) = [k \in 1 .. given[d] |-> k]
             /\ \A n \in 1 .. given[d] :
                  \/ \E k \in DOMAIN sent[d] : sent[d][k] = n
                  \/ \E k \in DOMAIN queue[d] : queue[d][k].n = n
                  \/ \E k \in DOMAIN buffer : buffer[k].to = d /\ buffer[k].n = n
  <2> DEFINE s == sent[d]
             q == Numbers(queue[d])
             b == Buffered(d)
             S == Len(sent[d])
             Q == Len(queue[d])
             H == Held(buffer, d)
             g == given[d]
             sq == s \o q
             all == [k \in 1 .. g |-> k]
  <2>1. /\ S \in Nat /\ Q \in Nat /\ H \in {0, 1} /\ g \in Nat
        /\ queue[d] \in Seq(Entry) /\ s \in Seq(Nat)
        /\ DOMAIN queue[d] = 1 .. Q /\ DOMAIN s = 1 .. S
    <3>1. S \in Nat /\ Q \in Nat /\ g \in Nat /\ queue[d] \in Seq(Entry) /\ s \in Seq(Nat \ {0})
      BY <1>1, Lengths
    <3>2. s \in Seq(Nat)
      BY <3>1
    <3> QED BY <3>1, <3>2, HeldIs
  <2>2. /\ \A k \in 1 .. S : s[k] = k
        /\ \A k \in 1 .. Q : queue[d][k].n = S + k
        /\ S + Q + H = g
    BY <1>1 DEF Numbered
  <2>3. q \in Seq(Nat) /\ Len(q) = Q /\ \A k \in 1 .. Q : q[k] = S + k
    <3>1. q = [k \in 1 .. Q |-> queue[d][k].n]
      BY <2>1 DEF Numbers
    <3>2. ASSUME NEW k \in 1 .. Q PROVE queue[d][k].n \in Nat
      BY <2>1, <2>2
    <3> HIDE DEF q, Q
    <3>3. q \in [1 .. Q -> Nat]
      BY <3>1, <3>2
    <3>4. q \in Seq(Nat) /\ Len(q) = Q
      BY <2>1, <3>3
    <3> QED BY <2>2, <3>1, <3>4
  <2>4. /\ H = 0 => b = <<>>
        /\ H = 1 => /\ b = <<g>>
                    /\ 1 \in DOMAIN buffer /\ buffer[1].to = d /\ buffer[1].n = g
    <3>1. CASE H = 0
      <4>1. {j \in DOMAIN buffer : buffer[j].to = d} = {}
        BY <1>3, <3>1 DEF Held
      <4> QED BY <3>1, <4>1 DEF Buffered
    <3>2. CASE H = 1
      <4>1. buffer # <<>> /\ Head(buffer).to = d
        BY <3>2 DEF Held
      <4>2. /\ DOMAIN buffer = {1} /\ buffer[1].to = d
            /\ buffer[1].n = g
        BY <1>1, <1>3, <4>1 DEF Numbered
      <4>3. {j \in DOMAIN buffer : buffer[j].to = d} = {1}
        BY <4>2
      <4>4. b = [k \in {1} |-> buffer[k].n]
        BY <4>3 DEF Buffered
      <4>5. b = <<g>>
        BY <4>2, <4>4
      <4> QED BY <3>2, <4>2, <4>5
    <3> QED BY <2>1, <3>1, <3>2
  <2>5. all \in Seq(Nat) /\ Len(all) = g /\ \A k \in 1 .. g : all[k] = k
    <3> HIDE DEF g
    <3> QED BY <2>1
  <2> HIDE DEF s, q, b, S, Q, H, g, all
  <2>6. Len(s) = S
    BY DEF s, S
  <2>7. /\ sq \in Seq(Nat) /\ Len(sq) = S + Q
        /\ \A k \in 1 .. S + Q : sq[k] = k
    <3>1. /\ s \o q \in Seq(Nat) /\ Len(s \o q) = Len(s) + Len(q)
          /\ \A i \in 1 .. Len(s) + Len(q) :
               (s \o q)[i] = IF i <= Len(s) THEN s[i] ELSE q[i - Len(s)]
      BY <2>1, <2>3, ConcatProperties, Zenon
    <3>2. ASSUME NEW k \in 1 .. S + Q PROVE sq[k] = k
      <4>1. sq[k] = IF k <= S THEN s[k] ELSE q[k - S]
        BY <2>3, <2>6, <3>1, <3>2
      <4>2. CASE k <= S
        BY <2>1, <2>2, <4>1, <4>2
      <4>3. CASE ~(k <= S)
        <5>1. k - S \in 1 .. Q
          BY <2>1, <4>3
        <5>2. q[k - S] = S + (k - S)
          BY <2>3, <5>1
        <5> QED BY <2>1, <4>1, <4>3, <5>2
      <4> QED BY <4>2, <4>3
    <3> QED BY <2>3, <2>6, <3>1, <3>2
  <2> HIDE DEF sq
  <2>8. sq \o b = all
    <3>1. CASE H = 0
      <4>1. sq \o b = sq
        BY <2>4, <2>7, <3>1, ConcatEmptySeq
      <4>2. S + Q = g
        BY <2>1, <2>2, <3>1
      <4>3. sq = all
        BY <2>5, <2>7, <4>2, SeqEqual
      <4> QED BY <4>1, <4>3
    <3>2. CASE H = 1
      <4>1. S + Q + 1 = g
        BY <2>1, <2>2, <3>2
      <4>2. b = <<g>> /\ b \in Seq(Nat) /\ Len(b) = 1 /\ b[1] = g
        <5>1. b = <<g>>
          BY <2>4, <3>2
        <5>2. <<g>> \in Seq(Nat) /\ Len(<<g>>) = 1 /\ <<g>>[1] = g
          BY <2>1
        <5> QED BY <5>1, <5>2
      <4>3. /\ sq \o b \in Seq(Nat) /\ Len(sq \o b) = Len(sq) + Len(b)
            /\ \A i \in 1 .. Len(sq) + Len(b) :
                 (sq \o b)[i] = IF i <= Len(sq) THEN sq[i] ELSE b[i - Len(sq)]
        BY <2>7, <4>2, ConcatProperties, Zenon
      <4>4. Len(sq \o b) = g
        BY <2>7, <4>1, <4>2, <4>3
      <4>5. ASSUME NEW i \in 1 .. g PROVE (sq \o b)[i] = all[i]
        <5>1. (sq \o b)[i] = IF i <= S + Q THEN sq[i] ELSE b[i - (S + Q)]
          BY <2>7, <4>1, <4>2, <4>3
        <5>2. CASE i <= S + Q
          BY <2>1, <2>5, <2>7, <5>1, <5>2
        <5>3. CASE ~(i <= S + Q)
          <6>1. i = g /\ i - (S + Q) = 1
            BY <2>1, <4>1, <5>3
          <6> QED BY <2>5, <4>2, <5>1, <5>3, <6>1
        <5> QED BY <5>2, <5>3
      <4> QED BY <2>5, <4>3, <4>4, <4>5, SeqEqual
    <3> QED BY <2>1, <3>1, <3>2
  <2>9. ASSUME NEW n \in 1 .. g
        PROVE  \/ \E k \in DOMAIN sent[d] : sent[d][k] = n
               \/ \E k \in DOMAIN queue[d] : queue[d][k].n = n
               \/ \E k \in DOMAIN buffer : buffer[k].to = d /\ buffer[k].n = n
    <3>1. CASE n <= S
      <4>1. n \in DOMAIN s /\ s[n] = n
        BY <2>1, <2>2, <3>1
      <4> QED BY <4>1 DEF s
    <3>2. CASE ~(n <= S) /\ n <= S + Q
      <4>1. n - S \in 1 .. Q
        BY <2>1, <3>2
      <4>2. queue[d][n - S].n = S + (n - S)
        BY <2>2, <4>1
      <4>3. S + (n - S) = n
        BY <2>1
      <4> QED BY <2>1, <4>1, <4>2, <4>3
    <3>3. CASE ~(n <= S + Q)
      <4>1. H = 1 /\ n = g
        BY <2>1, <2>2, <3>3
      <4> QED BY <2>4, <4>1
    <3> QED BY <2>1, <3>1, <3>2, <3>3
  <2> QED BY <2>8, <2>9 DEF s, q, b, g, all, sq
<1> QED BY <1>4 DEF TransactionsInOrder, RemovedWasSent

(* With rounds apart, bursts and queue agree at all times: between the     *)
(* packing (ScheduleNextSend) and the removal (PopTransactionsFromQueue)   *)
(* of a transaction nothing comes that moves the head of its queue.        *)
THEOREM OrderInvariance ==
  ASSUME RoundsApart PROVE Spec => []OrderInv
<1>1. Init => OrderInv
  BY OrderInit
<1>2. OrderInv /\ [Next]_vars => OrderInv'
  BY OrderStep
<1> QED BY <1>1, <1>2, PTL DEF Spec

(* With rounds apart, what was generated for a destination has been sent,  *)
(* waits in its queue or is buffered, in this order and each once: for all *)
(* sizes, delays and numbers of destinations.                              *)
THEOREM OrderKept ==
  ASSUME RoundsApart PROVE Spec => []TransactionsInOrder
<1>1. OrderInv => TransactionsInOrder
  BY OrderMeans
<1> QED BY <1>1, OrderInvariance, PTL

(* With rounds apart, the comment in DoSendBurst is true ("Remove sent     *)
(* transactions from destination queue after successful send"): a          *)
(* transaction that has left its queue was sent.                           *)
THEOREM NothingLost ==
  ASSUME RoundsApart PROVE Spec => []RemovedWasSent
<1>1. OrderInv => RemovedWasSent
  BY OrderMeans
<1> QED BY <1>1, OrderInvariance, PTL

(* DoSendBurst delivers the transactions of its burst.                     *)
LEMMA SendDelivers ==
  ASSUME OrderInv, DoSendBurst
  PROVE  Ordered!Next
<1>1. PICK k, after : Sends(k, after)
  BY DEF DoSendBurst, Sends
<1> DEFINE d == bursts[1].to
           load == bursts[1].load
           n == Len(load)
           S == Len(sent[d])
           Q == Len(queue[d])
<1>2. /\ k = 1 /\ d \in Dests /\ load \in Seq(Nat \ {0})
      /\ n \in Nat /\ n >= 1 /\ n <= Q
      /\ \A i \in 1 .. n : load[i] = S + i
  BY <1>1, FirstBurst
<1>3. S \in Nat /\ Q \in Nat /\ given[d] \in Nat
  BY <1>2, Lengths DEF OrderInv
<1>4. n \in 1 .. given[d] - Len(sent[d])
  <2>1. S + Q + Held(buffer, d) = given[d] /\ Held(buffer, d) \in {0, 1}
    BY <1>2, HeldIs DEF OrderInv, Numbered
  <2> HIDE DEF n, S, Q
  <2>2. n \in 1 .. given[d] - S
    BY <1>2, <1>3, <2>1
  <2> QED BY <2>2 DEF S
<1>5. load = [i \in 1 .. n |-> Len(sent[d]) + i]
  <2>1. load = [i \in 1 .. n |-> load[i]]
    BY <1>2
  <2> HIDE DEF n, load
  <2> QED BY <1>2, <2>1 DEF S
<1>6. sent' = [sent EXCEPT ![d] = @ \o load] /\ given' = given
  BY <1>1, <1>2 DEF Sends, DoSendBurst
<1>7. sent' = [sent EXCEPT ![d] = @ \o [i \in 1 .. n |-> Len(@) + i]]
  <2> HIDE DEF n, d, load
  <2> QED BY <1>5, <1>6
<1>8. Ordered!Deliver(d)
  BY <1>4, <1>6, <1>7 DEF Ordered!Deliver
<1> QED BY <1>2, <1>8 DEF Ordered!Next

(* Every other step offers a transaction, or neither offers nor delivers.  *)
LEMMA OrderedStep == OrderInv /\ [Next]_vars => [Ordered!Next]_(Ordered!vars)
<1> SUFFICES ASSUME OrderInv, [Next]_vars PROVE [Ordered!Next]_(Ordered!vars)
  OBVIOUS
<1>1. ASSUME UNCHANGED <<given, sent>> PROVE [Ordered!Next]_(Ordered!vars)
  BY <1>1 DEF Ordered!vars
<1>2. ASSUME NEW d \in Dests, GenerateTransaction(d) PROVE [Ordered!Next]_(Ordered!vars)
  <2>1. Ordered!Offer(d)
    BY <1>2 DEF GenerateTransaction, Ordered!Offer
  <2> QED BY <2>1 DEF Ordered!Next
<1>3. CASE Complete
  BY <1>1, <1>3 DEF Complete
<1>4. CASE ScheduleNextSend
  BY <1>1, <1>4 DEF ScheduleNextSend
<1>5. CASE DoSendBurst
  BY <1>5, SendDelivers
<1>6. CASE Advance
  BY <1>1, <1>6 DEF Advance
<1>7. CASE Transmit
  BY <1>1, <1>7 DEF Transmit
<1>8. CASE UNCHANGED vars
  BY <1>1, <1>8 DEF vars
<1> QED BY <1>2, <1>3, <1>4, <1>5, <1>6, <1>7, <1>8 DEF Next, RunEvents

(* With rounds apart, the client implements OrderedDelivery: packing ahead *)
(* of time, buffering and pausing show in nothing but the number of        *)
(* transactions that are delivered together.                               *)
THEOREM Refinement ==
  ASSUME RoundsApart PROVE Spec => OrderedSpec
<1>1. Init => Ordered!Init
  BY DEF Init, Ordered!Init
<1> QED BY <1>1, OrderedStep, OrderInvariance, PTL DEF Spec, OrderedSpec, Ordered!Spec

-----------------------------------------------------------------------------
(* A room of the VC queue for which the subtraction of bursts ends at      *)
(* exactly zero.                                                           *)

(* No burst has been scheduled.                                            *)
NothingUnderWay ==
  /\ bursts = <<>> /\ reserved = 0 /\ vcQueue = <<>>
  /\ sent = [d \in Dests |-> <<>>]

(* No round schedules one: the room is free as a whole, and stays so.      *)
LEMMA NothingStep ==
  ASSUME Remaining[VcRoom] = 0, NothingUnderWay, [Next]_vars
  PROVE  NothingUnderWay'
<1>1. /\ bursts = <<>> /\ reserved = 0 /\ vcQueue = <<>>
      /\ sent = [d \in Dests |-> <<>>]
  BY DEF NothingUnderWay
<1>2. ASSUME UNCHANGED <<bursts, reserved, vcQueue, sent>> PROVE NothingUnderWay'
  BY <1>1, <1>2 DEF NothingUnderWay
<1>3. ASSUME NEW d \in Dests, GenerateTransaction(d) PROVE NothingUnderWay'
  BY <1>2, <1>3 DEF GenerateTransaction
<1>4. CASE Complete
  BY <1>2, <1>4 DEF Complete
<1>5. CASE ScheduleNextSend
  <2>1. Total(vcQueue) + reserved = 0
    BY <1>1, TotalEmpty
  <2>2. Free = VcRoom
    <3>1. VcRoom \in Nat
      BY SueClientAssumption
    <3> QED BY <1>1, <2>1, <3>1, TotalEmpty DEF Free
  <2>3. bursts' = Aged(bursts) /\ reserved' = reserved
    BY <1>5, <2>2 DEF ScheduleNextSend, Pack
  <2>4. bursts' = <<>>
    BY <1>1, <2>3 DEF Aged
  <2> QED BY <1>1, <1>5, <2>3, <2>4 DEF ScheduleNextSend, NothingUnderWay
<1>6. CASE DoSendBurst
  BY <1>1, <1>6 DEF DoSendBurst
<1>7. CASE Advance
  <2>1. bursts' = [k \in DOMAIN bursts |-> bursts'[k]] /\ UNCHANGED <<reserved, vcQueue, sent>>
    BY <1>7 DEF Advance
  <2>2. bursts' = <<>>
    BY <1>1, <2>1
  <2> QED BY <1>1, <2>1, <2>2 DEF NothingUnderWay
<1>8. CASE Transmit
  BY <1>1, <1>8 DEF Transmit
<1>9. CASE UNCHANGED vars
  BY <1>2, <1>9 DEF vars
<1> QED BY <1>3, <1>4, <1>5, <1>6, <1>7, <1>8, <1>9 DEF Next, RunEvents

(* With such a room (15 bytes for the sizes of SueClient.cfg) no           *)
(* transaction is ever sent, whatever is generated: ScheduleNextSend takes *)
(* the remainder 0 for a VC queue without room.                            *)
THEOREM ExactRoomSendsNothing ==
  ASSUME Remaining[VcRoom] = 0 PROVE Spec => [](\A d \in Dests : sent[d] = <<>>)
<1>1. Init => NothingUnderWay
  BY DEF Init, NothingUnderWay
<1>2. NothingUnderWay /\ [Next]_vars => NothingUnderWay'
  BY NothingStep
<1>3. NothingUnderWay => \A d \in Dests : sent[d] = <<>>
  BY DEF NothingUnderWay
<1> QED BY <1>1, <1>2, <1>3, PTL DEF Spec
=============================================================================
