-------------------------- MODULE OrderedDelivery --------------------------
(***************************************************************************)
(* What a client promises the generator of an XPU, without queues,         *)
(* buffers, bursts or time: the transactions for a destination are         *)
(* delivered in the order in which they were offered, a few at a time,     *)
(* each once and none before it was offered.                               *)
(***************************************************************************)
EXTENDS Integers, Sequences

CONSTANT Dests

VARIABLES
  offered,              \* the number of transactions offered for each
                        \* destination
  delivered             \* the transactions delivered, by their numbers

vars == <<offered, delivered>>

Init ==
  /\ offered = [d \in Dests |-> 0]
  /\ delivered = [d \in Dests |-> <<>>]

Offer(d) ==
  /\ offered' = [offered EXCEPT ![d] = @ + 1]
  /\ UNCHANGED delivered

(* The next n transactions are delivered together.                         *)
Deliver(d) ==
  /\ \E n \in 1 .. offered[d] - Len(delivered[d]) :
       delivered' = [delivered EXCEPT ![d] = @ \o [i \in 1 .. n |-> Len(@) + i]]
  /\ UNCHANGED offered

Next == \E d \in Dests : Offer(d) \/ Deliver(d)

Spec == Init /\ [][Next]_vars
=============================================================================
