------------------------------ MODULE SueClient ------------------------------
(***************************************************************************)
(* How transactions leave an XPU (src/src/sue-sim-module/model/            *)
(* traffic-generator.cc, load-balancer.cc, sue-client.cc, sue-queue-       *)
(* manager.cc): the generator, the load balancer with its buffer, one SUE  *)
(* client with a queue per destination, and one VC queue of its device.    *)
(*                                                                         *)
(* A scheduling round packs the transactions at the head of one queue into *)
(* bursts, without taking them from the queue, and schedules the bursts    *)
(* one packing delay apart; each burst, when it is sent, takes as many     *)
(* transactions from the queue as it carries.  So time matters here: the   *)
(* next round and the bursts are kept with the time they are away.         *)
(*                                                                         *)
(* All transactions have one size.  Sizes are bytes.                       *)
(***************************************************************************)
EXTENDS Integers, SequencesExt, FiniteSets

CONSTANTS
  Dests,                \* destinations: an XPU and a virtual channel
  TransactionSize,      \* m_transactionSize
  HeaderSize,           \* SUE header and m_additionalHeaderSize
  MaxBurstSize,         \* m_maxBurstSize
  DestQueueRoom,        \* transactions m_destQueueMaxBytes has room for
  VcRoom,               \* m_vcQueueMaxBytes
  SchedulingInterval,   \* m_schedulingInterval
  PackingDelay,         \* m_packingDelayPerPacket
  TotalTransactions     \* what m_totalBytesToSend amounts to

(* ScheduleNextSend counts the transactions of a burst in a uint8_t.        *)
ASSUME SueClientAssumption ==
  /\ TransactionSize \in Nat \ {0} /\ HeaderSize \in Nat
  /\ MaxBurstSize \in Nat /\ MaxBurstSize >= TransactionSize
  /\ MaxBurstSize \div TransactionSize < 256
  /\ DestQueueRoom \in Nat \ {0} /\ VcRoom \in Nat
  /\ SchedulingInterval \in Nat \ {0} /\ PackingDelay \in Nat \ {0}
  /\ TotalTransactions \in Nat

VARIABLES
  given,                \* transactions generated for each destination
  generated,            \* m_bytesSent, in transactions
  paused,               \* m_generationPaused, m_trafficGenerationPaused
  buffer,               \* m_bufferQueue
  queue,                \* m_destQueues: the transactions waiting for each
                        \* destination, with the time they were put in
  logging,              \* m_loggingEnabled
  round,                \* time to the next ScheduleNextSend, or Never
  bursts,               \* DoSendBurst events, in the order of scheduling
  reserved,             \* m_vcReservedCapacity
  vcQueue,              \* sizes of the packets in the VC queue
  sent                  \* history: transactions sent to each destination

vars == <<given, generated, paused, buffer, queue, logging, round, bursts,
          reserved, vcQueue, sent>>

-----------------------------------------------------------------------------
Never == -1

Transaction == [to : Dests, n : Nat \ {0}]

(* An entry of a queue: only which entries were put in before which, and   *)
(* which at this very time (age 0), matters of the times.                  *)
Entry == [n : Nat \ {0}, age : Nat]

Burst == [to : Dests, load : Seq(Nat \ {0}), in : Nat, fresh : BOOLEAN]

Total(s) ==
  LET sum[k \in 0 .. Len(s)] == IF k = 0 THEN 0 ELSE sum[k - 1] + s[k]
  IN  sum[Len(s)]
Least(S) == CHOOSE m \in S : \A k \in S : m <= k

(* The numbers of the transactions of a queue, and of the buffered ones    *)
(* for one destination.  At most one is buffered, so this is a sequence.   *)
Numbers(q)  == [k \in DOMAIN q |-> q[k].n]
Buffered(d) == [k \in {j \in DOMAIN buffer : buffer[j].to = d} |-> buffer[k].n]

(* CheckSueDestQueueSpace, and AddTransaction, which stamps the entry with *)
(* the time.                                                               *)
HasSpace(q, d) == Len(q[d]) < DestQueueRoom
AddTransaction(q, x) == [q EXCEPT ![x.to] = Append(@, [n |-> x.n, age |-> 0])]

Init ==
  /\ given = [d \in Dests |-> 0] /\ generated = 0
  /\ paused = FALSE /\ buffer = <<>>
  /\ queue = [d \in Dests |-> <<>>]
  /\ logging = TRUE /\ round = 0
  /\ bursts = <<>> /\ reserved = 0 /\ vcQueue = <<>>
  /\ sent = [d \in Dests |-> <<>>]

-----------------------------------------------------------------------------
(* The generator and the load balancer.                                    *)

(* Mutant: the generator is not paused.                                    *)
BufferUnpaused(x) ==
  /\ buffer' = Append(buffer, x)
  /\ UNCHANGED <<paused, queue>>

(* DistributeTransaction when the queue has no space: the transaction is   *)
(* buffered, and the first one in the buffer pauses the generator.         *)
Buffer(x) ==
  /\ buffer' = Append(buffer, x)
  /\ paused' = TRUE
  /\ UNCHANGED queue

(* GenerateTransaction: a new transaction is offered to its queue first.   *)
GenerateTransaction(d) ==
  /\ ~paused /\ generated < TotalTransactions
  /\ given' = [given EXCEPT ![d] = @ + 1]
  /\ generated' = generated + 1
  /\ LET x == [to |-> d, n |-> given[d] + 1] IN
       \/ /\ HasSpace(queue, d)
          /\ queue' = AddTransaction(queue, x)
          /\ UNCHANGED <<paused, buffer>>
       \/ ~HasSpace(queue, d) /\ Buffer(x)
  /\ UNCHANGED <<logging, round, bursts, reserved, vcQueue, sent>>

(* GenerateTransaction when everything has been generated: StopAllLogging  *)
(* clears the flag by which ScheduleNextSend goes on.                      *)
Complete ==
  /\ ~paused /\ generated = TotalTransactions
  /\ logging /\ logging' = FALSE
  /\ UNCHANGED <<given, generated, paused, buffer, queue, round, bursts, reserved,
                 vcQueue, sent>>

-----------------------------------------------------------------------------
(* ScheduleNextSend.                                                       *)

PerBurst == MaxBurstSize \div TransactionSize
Free     == IF Total(vcQueue) + reserved >= VcRoom THEN 0
            ELSE VcRoom - Total(vcQueue) - reserved

(* The transactions that may be packed into c free bytes, and the bytes    *)
(* that remain: bursts are subtracted until no transaction fits.           *)
Packable[c \in 0 .. VcRoom] ==
  IF c <= TransactionSize + HeaderSize THEN 0
  ELSE IF c - HeaderSize > MaxBurstSize
    THEN PerBurst + Packable[c - MaxBurstSize - HeaderSize]
    ELSE (c - HeaderSize) \div TransactionSize

Remaining[c \in 0 .. VcRoom] ==
  IF c <= TransactionSize + HeaderSize THEN c
  ELSE IF c - HeaderSize > MaxBurstSize
    THEN Remaining[c - MaxBurstSize - HeaderSize]
    ELSE (c - HeaderSize) % TransactionSize

SizeOf(load) == Len(load) * TransactionSize + HeaderSize

(* SmartPacking: the loads of the bursts for the first n entries of a      *)
(* queue.                                                                  *)
BurstCount(n) == (n + PerBurst - 1) \div PerBurst
SmartPacking(q, n) ==
  [k \in 1 .. BurstCount(n) |->
     [i \in 1 .. (IF k * PerBurst <= n THEN PerBurst ELSE n - (k - 1) * PerBurst) |->
        q[(k - 1) * PerBurst + i].n]]

Aged(s) == [k \in DOMAIN s |-> [s[k] EXCEPT !.fresh = FALSE]]

(* Mutant: the bursts of a round reserve room for one.                     *)
ReserveFirst(loads) == reserved + SizeOf(loads[1])

(* ReserveVcCapacity for each burst.  That there is room is asserted.      *)
Reserve(loads) == reserved + Total([k \in DOMAIN loads |-> SizeOf(loads[k])])

(* The destinations whose head has waited longest; one that was put in at  *)
(* this very time does not count as waiting.  (Of several the code takes   *)
(* the first in the order of its map.)                                     *)
Waiting == {d \in Dests : queue[d] # <<>> /\ Head(queue[d]).age # 0}
Longest ==
  {d \in Waiting : \A e \in Waiting : Head(queue[e]).age <= Head(queue[d]).age}

(* Nothing is sent if the subtraction ends at exactly zero.                *)
Pack ==
  \/ /\ Remaining[Free] # 0 /\ Packable[Free] # 0
     /\ \E d \in Longest :
          LET loads == SmartPacking(queue[d], Least({Packable[Free], Len(queue[d])}))
          IN /\ bursts' = Aged(bursts) \o
                  [k \in DOMAIN loads |-> [to |-> d, load |-> loads[k],
                                           in |-> k * PackingDelay, fresh |-> TRUE]]
             /\ reserved' = Reserve(loads)
  \/ /\ Remaining[Free] = 0 \/ Packable[Free] = 0 \/ Longest = {}
     /\ bursts' = Aged(bursts) /\ UNCHANGED reserved

(* The next round is scheduled before the bursts of this one, so it comes  *)
(* before those that fall on the same time, and after those of earlier     *)
(* rounds.                                                                 *)
ScheduleNextSend ==
  /\ round = 0
  /\ \A k \in DOMAIN bursts : bursts[k].in = 0 => bursts[k].fresh
  /\ round' = IF logging THEN SchedulingInterval ELSE Never
  /\ Pack
  /\ UNCHANGED <<given, generated, paused, buffer, queue, logging, vcQueue, sent>>

-----------------------------------------------------------------------------
(* DoSendBurst.                                                            *)

(* Mutant: the SUE header is counted as load.                              *)
CountWithHeader(load) == (SizeOf(load) + TransactionSize - 1) \div TransactionSize

(* AnalyzeTransactionCount: the transactions a burst is taken to carry.    *)
Count(load) == Len(load)

(* Mutant: the load balancer is not told of the space.                     *)
RebalancedNever(s) == s

(* ProcessBufferedTransactions, called back for each transaction taken     *)
(* from a queue: the first buffered transaction moves to its queue if that *)
(* has space now.  With the generator paused there is at most one.         *)
Rebalanced(s) ==
  IF s.buffer # <<>> /\ HasSpace(s.queue, Head(s.buffer).to)
    THEN [queue |-> AddTransaction(s.queue, Head(s.buffer)), buffer |-> Tail(s.buffer)]
    ELSE s

(* PopTransactionsFromQueue: count times the first transaction of the      *)
(* queue, whatever it is.                                                  *)
PopOne(s, d) ==
  IF s.queue[d] = <<>> THEN s
  ELSE Rebalanced([queue |-> [s.queue EXCEPT ![d] = Tail(@)], buffer |-> s.buffer])

Popped(s, d, count) ==
  LET pop[i \in 0 .. count] == IF i = 0 THEN s ELSE PopOne(pop[i - 1], d)
  IN  pop[count]

(* SendTo puts the packet into the VC queue in the same call.  Then the    *)
(* reservation is released, never below zero, and the generator goes on    *)
(* if nothing is buffered any more.                                        *)
DoSendBurst ==
  \E k \in DOMAIN bursts :
    LET b == bursts[k]
        after == Popped([queue |-> queue, buffer |-> buffer], b.to, Count(b.load))
    IN /\ b.in = 0 /\ \A j \in 1 .. k - 1 : bursts[j].in # 0
       /\ b.fresh => round # 0
       /\ bursts' = RemoveAt(bursts, k)
       /\ sent' = [sent EXCEPT ![b.to] = @ \o b.load]
       /\ vcQueue' = Append(vcQueue, SizeOf(b.load))
       /\ reserved' = IF reserved >= SizeOf(b.load) THEN reserved - SizeOf(b.load) ELSE 0
       /\ queue' = after.queue /\ buffer' = after.buffer
       /\ paused' = (paused /\ after.buffer # <<>>)
       /\ UNCHANGED <<given, generated, logging, round>>

-----------------------------------------------------------------------------
(* The device transmits the first packet of the VC queue.                  *)
Transmit ==
  /\ vcQueue # <<>> /\ vcQueue' = Tail(vcQueue)
  /\ UNCHANGED <<given, generated, paused, buffer, queue, logging, round, bursts,
                 reserved, sent>>

(* Time goes on to the next event, when none is due.  Then nothing waiting *)
(* was put in at this very time any more.                                  *)
Ages == UNION {{queue[d][k].age : k \in DOMAIN queue[d]} : d \in Dests}
Older(a) == 1 + Cardinality({b \in Ages : b < a})

Advance ==
  LET pending == {bursts[k].in : k \in DOMAIN bursts} \cup ({round} \ {Never})
      wait == Least(pending)
  IN /\ pending # {} /\ wait # 0
     /\ round' = IF round = Never THEN Never ELSE round - wait
     /\ bursts' = [k \in DOMAIN bursts |-> [bursts[k] EXCEPT !.in = @ - wait]]
     /\ queue' = [d \in Dests |->
                   [k \in DOMAIN queue[d] |-> [queue[d][k] EXCEPT !.age = Older(@)]]]
     /\ UNCHANGED <<given, generated, paused, buffer, logging, reserved, vcQueue, sent>>

(* The simulator's event loop: what is due is run in order, then time goes *)
(* on.                                                                     *)
RunEvents == ScheduleNextSend \/ DoSendBurst \/ Advance

Next ==
  \/ \E d \in Dests : GenerateTransaction(d)
  \/ Complete
  \/ RunEvents
  \/ Transmit

Spec == Init /\ [][Next]_vars

(* The event loop goes on, and the device drains its VC queue.  Nothing is *)
(* assumed of the generator.                                               *)
FairSpec == Spec /\ WF_vars(RunEvents) /\ WF_vars(Transmit)

-----------------------------------------------------------------------------
(* Every variable has its type; at most one transaction is buffered, and   *)
(* exactly then is the generator paused.                                   *)
TypeOK ==
  /\ generated \in 0 .. TotalTransactions
  /\ given \in [Dests -> 0 .. generated]
  /\ buffer \in Seq(Transaction) /\ Len(buffer) <= 1
  /\ paused = (buffer # <<>>)
  /\ queue \in [Dests -> Seq(Entry)]
  /\ \A d \in Dests : Len(queue[d]) <= DestQueueRoom
  /\ logging \in BOOLEAN /\ round \in Never .. SchedulingInterval
  /\ bursts \in Seq(Burst)
  /\ reserved \in Nat /\ vcQueue \in Seq(Nat)
  /\ sent \in [Dests -> Seq(Nat \ {0})]

(* What was generated for a destination has been sent, is in its queue or  *)
(* is buffered, in that order and each once: a transaction neither         *)
(* overtakes another on its way through the load balancer's buffer nor is  *)
(* packed twice or dropped by the queue, though packing (ScheduleNextSend) *)
(* and removal (PopTransactionsFromQueue) are different events.            *)
TransactionsInOrder ==
  \A d \in Dests :
    sent[d] \o Numbers(queue[d]) \o Buffered(d) = [k \in 1 .. given[d] |-> k]

(* The room of the VC queue covers what is in it, what is reserved and     *)
(* nothing is reserved but for bursts under way: the reservation that      *)
(* ScheduleNextSend asserts to succeed does, and no burst finds the VC     *)
(* queue full when it gets there.                                          *)
CapacityCovered ==
  /\ reserved = Total([k \in DOMAIN bursts |-> SizeOf(bursts[k].load)])
  /\ reserved + Total(vcQueue) <= VcRoom

(* While the generator has not completed (StopAllLogging ends the rounds   *)
(* of ScheduleNextSend), all transactions generated are sent in the end,   *)
(* those in the buffer of the load balancer too: its finite traffic leads  *)
(* to a state where, for good, nothing is left.                            *)
EveryTransactionSent ==
  []logging => <>[](\A d \in Dests : Len(sent[d]) = given[d])

(* Rounds, bursts, the buffer and the pauses of the generator add up to an *)
(* ordered delivery of what was generated.                                 *)
Ordered == INSTANCE OrderedDelivery WITH offered <- given, delivered <- sent
OrderedSpec == Ordered!Spec

(* "Remove sent transactions from destination queue after successful send" *)
(* (sue-client.cc:630): a transaction that has left the queue was sent.    *)
RemovedWasSent ==
  \A d \in Dests : \A n \in 1 .. given[d] :
    \/ \E k \in DOMAIN sent[d] : sent[d][k] = n
    \/ \E k \in DOMAIN queue[d] : queue[d][k].n = n
    \/ \E k \in DOMAIN buffer : buffer[k].to = d /\ buffer[k].n = n
=============================================================================
