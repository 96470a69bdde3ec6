-------------------------- MODULE MCTokenVerifier --------------------------
(* TokenVerifier on two concurrent calls; the hosts "h" and "H" differ only in case. *)
EXTENDS TokenVerifier

CONSTANTS k1, k2

MCCalls == {k1, k2}
MCTokens == {"", "home", "away", "silent", "bad"}
MCSolved == {"home", "away", "silent"}
MCSolvedOn == [t \in MCTokens |-> CASE t \in {"home", "bad"} -> "H" [] t = "away" -> "x" [] OTHER -> ""]
MCFold == [h \in {"", "h", "H", "x"} |-> IF h = "H" THEN "h" ELSE h]
MCAllowed == {"h"}
=============================================================================
