----------------------------- MODULE MCSesResponder -----------------------------
(* Two READs of one peer, and a WRITE of two packets of another.           *)
EXTENDS SesResponder, TLC

CONSTANTS r1, r2, w1, p, q

MCPeerOf == r1 :> p @@ r2 :> p @@ w1 :> q
=============================================================================
