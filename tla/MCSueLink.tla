------------------------------ MODULE MCSueLink ------------------------------
(***************************************************************************)
(* A small instance of SueLink: three XPUs and their destinations.         *)
(***************************************************************************)
EXTENDS SueLink

CONSTANTS a, b, c

(* Two XPUs that send to a third one, which sends to one of them.          *)
Incast == [x \in {a, b, c} |-> IF x = c THEN a ELSE c]
IncastLoad == [x \in {a, b, c} |-> IF x = a THEN 2 ELSE 1]
=============================================================================
