--------------------------- MODULE ReliableWindow ---------------------------
(***************************************************************************)
(* What a reliable packet delivery context promises, without timers,       *)
(* retransmissions, control packets or a network: packets are numbered     *)
(* 1, 2, 3, ... in the order they are issued, the peer takes in each       *)
(* number once and in any order, and the sender may treat a prefix as      *)
(* confirmed only when the peer holds all of it.  At most Window numbers   *)
(* are issued beyond the confirmed prefix.                                 *)
(***************************************************************************)
EXTENDS Integers

CONSTANT Window         \* numbers that may be outstanding at once, at least 1

VARIABLES
  issued,               \* the highest number issued so far
  taken,                \* the numbers the peer has taken in
  confirmed             \* the sender knows the peer holds 1 .. confirmed

vars == <<issued, taken, confirmed>>

Init ==
  /\ issued = 0
  /\ taken = {}
  /\ confirmed = 0

(* The sender issues the next number: the window has room for it.          *)
Issue ==
  /\ issued' \in (issued + 1) .. (confirmed + Window)
  /\ UNCHANGED <<taken, confirmed>>

(* The peer takes in an issued number it does not hold yet.                *)
Take ==
  /\ \E n \in (1 .. issued) \ taken : taken' = taken \cup {n}
  /\ UNCHANGED <<issued, confirmed>>

(* The sender learns that a longer prefix has been taken in, and may use   *)
(* the room this makes in the same step.                                   *)
Confirm ==
  /\ confirmed' \in (confirmed + 1) .. issued
  /\ 1 .. confirmed' \subseteq taken
  /\ issued' \in issued .. (confirmed' + Window)
  /\ UNCHANGED taken

Next == Issue \/ Take \/ Confirm

Spec == Init /\ [][Next]_vars
=============================================================================
