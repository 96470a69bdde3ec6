--------------------------- MODULE MCSessionStore ---------------------------
(* SessionStore with two concurrent callers of Put, and as many sessions as they can put. *)
EXTENDS SessionStore

CONSTANTS g1, g2, d1

MCGoroutines == {g1, g2}
MCData == {d1}
=============================================================================
