--------------------------- MODULE MCSesRequester ---------------------------
(***************************************************************************)
(* SesRequester on two SENDs, two WRITEs and a READ.                       *)
(***************************************************************************)
EXTENDS SesRequester

CONSTANTS s1, s2, w, w2, r, near, far

(* Everything goes to one peer.                                            *)
OnePeer == [k \in Requests |-> near]

(* The second SEND goes to another peer.                                   *)
TwoPeers == [k \in Requests |-> IF k = s2 THEN far ELSE near]
=============================================================================
