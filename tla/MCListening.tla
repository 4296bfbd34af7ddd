----------------------------- MODULE MCListening -----------------------------
(* Two gets of one document, and a page on another query.                  *)
EXTENDS Listening

CONSTANTS g1, g2, p1, q1, q2

MCQueryOf == [l \in Listeners |-> IF l \in Gets THEN q1 ELSE q2]
=============================================================================
